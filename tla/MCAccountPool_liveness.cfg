\* One account, two tasks, every admin operation and an outage, fairness; no
\* symmetry, for the liveness properties.
SPECIFICATION FairSpec
CONSTANTS
    a1 = a1
    monitor = monitor
    admin = admin
    admin2 = admin2
    NoProc = NoProc
    Labels <- OneLabel
    Procs <- TwoTasks
    Ops <- EveryOp
    MaxCred = 2
    MaxOps = 3
    MaxOutages = 1
    PoolFaults = FALSE
    Corruption = FALSE
PROPERTIES
    RequestsFinish
    PoolConverges
