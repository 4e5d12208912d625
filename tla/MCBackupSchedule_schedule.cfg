\* An interval of five ticks, a pass of the monitor every two, work that takes
\* up to a tick, two faults and two starts, either of which may give up either
\* store.
SPECIFICATION FairSpec
CONSTANTS
    Interval = 5
    Period = 2
    MaxBusy = 1
    MaxRun = 1
    MaxFaults = 2
    MaxBoots = 1
    Never = Never
INVARIANTS
    StaysFresh
    CursorIsBacked
PROPERTIES
    BackupsRecur
