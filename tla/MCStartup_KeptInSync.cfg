SPECIFICATION Spec
CONSTANTS
    TableCount = 10
    Retries = 3
    MaxCrashes = 1
INVARIANT
    KeptInSync
CHECK_DEADLOCK FALSE
