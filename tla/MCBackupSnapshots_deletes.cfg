\* The operator deletes snapshots between the statements of failing runs,
\* prunes and crashes.
SPECIFICATION Spec
CONSTANTS
    NTables = 1
    MaxRows = 1
    MaxTime = 3
    Retention = 1
    MaxCrashes = 1
    Faults = TRUE
    Deletes = TRUE
    Reads = FALSE
    ClockSteps = FALSE
INVARIANTS
    PrunedIsGone
PROPERTIES
    ImplementsStore
CHECK_DEADLOCK FALSE
