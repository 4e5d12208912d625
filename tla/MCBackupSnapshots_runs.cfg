\* Failing runs over two tables, a lost reply, retention, a crash, a clock that
\* steps back, in the process and over a restart, and fallbacks and restores
\* that read in several statements beside all that; no deletes.
SPECIFICATION Spec
CONSTANTS
    NTables = 2
    MaxRows = 1
    MaxTime = 3
    Retention = 1
    MaxCrashes = 1
    Faults = TRUE
    Deletes = FALSE
    Reads = TRUE
    ClockSteps = TRUE
ACTION_CONSTRAINTS
    ClockMovesWhenRead
    ReadsThatCount
INVARIANTS
    NoOrphans
    ListedIsWhole
    SettledReadsWhole
PROPERTIES
    EarlierCopiesStay
CHECK_DEADLOCK FALSE
