SPECIFICATION Spec
CONSTANTS
    u1 = u1
    g1 = g1
    p1 = p1
    p2 = p2
    o1 = o1
    o2 = o2
    Users <- MCUsers
    Groups <- MCGroups
    Policies <- MCPolicies
    Orgs <- MCOrgs
    OrgOf <- MCOrgOf
    Reqs = {r1, r2, r3}
    NoReq = NoReq
    NoKey = NoKey
    POLICY_TTL = 2
    MaxClock = 3
    MaxFaults = 1
SYMMETRY Symmetry
INVARIANTS TypeOK ResolvedAtHome EvictedOnceAcknowledged MaxStaleness CoherentWhenQuiet
CHECK_DEADLOCK FALSE
