\* One account, three tasks, every admin operation, pool faults, undecryptable
\* rows and an outage.
SPECIFICATION Spec
CONSTANTS
    a1 = a1
    monitor = monitor
    admin = admin
    admin2 = admin2
    NoProc = NoProc
    Labels <- OneLabel
    Procs <- ThreeTasks
    Ops <- EveryOp
    MaxCred = 2
    MaxOps = 3
    MaxOutages = 1
    PoolFaults = TRUE
    Corruption = TRUE
SYMMETRY Tasks
INVARIANTS
    GoneStaysOut
