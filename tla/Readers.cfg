SPECIFICATION Spec
CONSTANTS
    u1 = u1
    u2 = u2
    r1 = r1
    r2 = r2
    Articles = {x1, x2}
    Users = {u1, u2}
    Rows = {r1, r2}
    Owner <- MCOwner
    Callers = {c1, c2}
    Hooks = {h1}
    MaxAttempts = 1
    MaxStalls = 0
    BounceLimit = 2
    MaxJobs = 2
    EventTypes = {"bounced", "complained"}
    MaxEvents = 1
    MaxChanges = 1
    Faulty = TRUE
SYMMETRY Interchangeable
INVARIANTS NobodyForgotten UnsubscribeJustified
CHECK_DEADLOCK FALSE
