SPECIFICATION MCSpec
CONSTANTS
    u1 = u1
    Users = {u1, u2}
    Browsers = {b1}
    Calls = {c1, c2}
    SameOrigin = TRUE
    AccessLife = 1
    RefreshLife = 2
    LinkLife = 1
    MaxTime = 1
    Faulty = TRUE
INVARIANTS ShownUserActs LinkUntilVerified
PROPERTY CallSettles
