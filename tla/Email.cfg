SPECIFICATION MCSpec
CONSTANTS
    u1 = u1
    u2 = u2
    r1 = r1
    r2 = r2
    Articles = {x1, x2}
    Users = {u1, u2}
    Rows = {r1, r2}
    Owner <- MCOwner
    Callers = {c1}
    Hooks = {h1}
    MaxAttempts = 2
    MaxStalls = 0
    BounceLimit = 2
    MaxJobs = 2
    EventTypes = {"opened", "bounced", "complained"}
    MaxEvents = 1
    MaxChanges = 0
    Faulty = TRUE
    k1 = k1
    k2 = k2
    f1 = f1
    f2 = f2
    Keys = {k1, k2}
    Addresses = {f2}
    EnvKey = unset
    EnvAddress = f1
    Empty = empty
    Unset = unset
    Pages = {p1, p2}
    Senders = {m1}
    MaxSaves = 1
INVARIANTS OneDeliveryRow SentWasAccepted
    ShownIsUsed SaveTakesEffect
PROPERTY ImplementsMailing
CHECK_DEADLOCK FALSE
