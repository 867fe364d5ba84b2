SPECIFICATION Spec
CONSTANTS
    o1 = o1
    o2 = o2
    Orgs <- MCOrgs
    Names = {n1, n2}
    Values <- MCValues
    Effects <- MCEffects
    Bodies <- MCBodies
    Reqs = {r1, r2, r3, r4, r5}
    None = None
SYMMETRY Symmetry
INVARIANTS
    TypeOK
    NameRefusedForCause
    BrokenOffForCause
    RemovedStaysRemoved
PROPERTY SerialEditsAreWhole
CHECK_DEADLOCK FALSE
