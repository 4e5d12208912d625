\* Every installation, started twice; the servers may go away and come back
\* during the start, the service and the shutdown.
SPECIFICATION FairSpec
CONSTANTS
    Configured = 4
    Base = 1
    Cap = 2
    Configs <- AllConfigs
    MaxFlips = 2
    MaxBoots = 2
INVARIANTS
    RetriesAreBounded
    OutcomeIsTrue
    StoresOutliveTasks
PROPERTIES
    BootFinishes
CHECK_DEADLOCK FALSE
