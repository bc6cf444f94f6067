SPECIFICATION Spec
CONSTANTS
    Users = {u1}
    Browsers = {b1}
    Calls = {c1}
    SameOrigin = TRUE
    AccessLife = 1
    RefreshLife = 2
    LinkLife = 1
    MaxTime = 1
    Faulty = FALSE
PROPERTY RefreshKeepsSession
