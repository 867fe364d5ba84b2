SPECIFICATION Spec
CONSTANTS
    Names = {n1, n2}
    Prefixes = {p1, p2}
    Urls = {u1}
    UserService = UserService
    Database = Database
    Reqs = {r1, r2, r3}
    None = None
    MaxFaults = 1
SYMMETRY Symmetry
INVARIANTS
    TypeOK
    OutcomeKnown
    NoCallAfterDeregistration
    RegistrationRefusedForCause
CHECK_DEADLOCK FALSE
