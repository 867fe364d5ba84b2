SPECIFICATION Spec
CONSTANTS
    Users = {u1}
    Reqs = {r1, r2, r3, r4}
    NoTok = NoTok
    NoRow = NoRow
    REFRESH_TTL = 1
    MaxClock = 2
    MaxCrashes = 1
SYMMETRY Symmetry
INVARIANT SecondRefreshFindsNoRow
CHECK_DEADLOCK FALSE
