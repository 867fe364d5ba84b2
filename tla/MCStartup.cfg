SPECIFICATION Spec
CONSTANTS
    TableCount = 10
    Retries = 3
    MaxCrashes = 3
INVARIANTS
    TypeOK
    SchemaWhenServing
    MigratedWhole
    UsableUnlessInterrupted
PROPERTY
    EveryStartEnds
CHECK_DEADLOCK FALSE
