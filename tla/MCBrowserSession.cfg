SPECIFICATION Spec
CONSTANTS
    Calls = {c1, c2, c3}
    None = None
    ACCESS_TTL = 0
    REFRESH_TTL = 1
    MaxClock = 2
    MaxEvents = 1
SYMMETRY Symmetry
INVARIANTS
    TypeOK
    AdminForCause
    WrittenOnce
    SentToLoginForCause
    StoredSessionIsLive
CHECK_DEADLOCK FALSE
