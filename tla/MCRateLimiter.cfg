SPECIFICATION Spec
CONSTANTS
    Reqs = {r1, r2, r3, r4}
    Orgs = {o1, o2}
    RATE_LIMIT = 2
    WINDOW_SECONDS = 2
    MaxClock = 3
    MaxOutages = 1
SYMMETRY Symmetry
INVARIANTS TypeOK WindowBound
PROPERTY ImplementsQuota
CHECK_DEADLOCK FALSE
