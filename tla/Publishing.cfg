SPECIFICATION Spec
CONSTANTS
    x = x
    y = y
    Publications = {p1, p2}
    Slugs = {s1, s2}
    Articles = {a1, a2}
    Texts = {x, y}
    Payloads <- MCPayloads
    Patches <- MCPatches
    Tabs = {k1}
    Requests = {r1, r2}
    VisitedSlug = s1
    MaxChanges = 5
    Faulty = TRUE
    None = None
    Api = Api
SYMMETRY Symmetry
INVARIANTS ShownWasReleased OneDraftPerEditor RenderedUnlessOverlapped
CHECK_DEADLOCK FALSE
