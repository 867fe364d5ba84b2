SPECIFICATION FairSpec
CONSTANTS
    Emails = {e1, e2}
    Slugs = {s1, s2}
    Reqs = {r1, r2, r3, r4}
    NoReq = NoReq
    NoArg = NoArg
    NoOrg = NoOrg
    INVITE_TTL = 0
    MaxClock = 0
    MaxCrashes = 0
PROPERTY EveryRequestIsAnswered
CHECK_DEADLOCK FALSE
