SPECIFICATION Spec
CONSTANTS
    Emails = {e1, e2, e3}
    Slugs = {s1, s2}
    Reqs = {r1, r2, r3, r4}
    NoReq = NoReq
    NoArg = NoArg
    NoOrg = NoOrg
    INVITE_TTL = 1
    MaxClock = 2
    MaxCrashes = 1
SYMMETRY Symmetry
INVARIANTS TypeOK SignupIsAtomic AcceptedOnce InviteNotWasted MembersAreHome
PROPERTY ImplementsRegistration
CHECK_DEADLOCK FALSE
