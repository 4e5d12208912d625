\* Two runners, each started up to twice, two versions of two statements,
\* failing statements, kills and slow owners, fairness; no symmetry, for the
\* liveness property.
SPECIFICATION FairSpec
CONSTANTS
    i1 = i1
    i2 = i2
    i3 = i3
    Inst <- TwoRunners
    NVersions = 2
    NStmts = 2
    MaxRuns = 2
    Faults = TRUE
    OwnersAreFast = FALSE
CHECK_DEADLOCK FALSE
INVARIANTS
    AppliedIsComplete
    ReadyIsMigrated
    VersionsInOrder
PROPERTIES
    AppliedIsForever
    ImplementsLedger
    InitSchemaReturns
