\* Three calls of one caller to one tool, at most two at once, a toggle and
\* restores; the flag store may fail, clients may give up.
SPECIFICATION FairSpec
CONSTANTS
    c1 = c1
    c2 = c2
    c3 = c3
    x1 = x1
    caller = caller
    search = search
    Nobody = Nobody
    Calls <- ThreeCalls
    Toggles <- OneToggle
    Callers <- OneCaller
    Tools <- OneTool
    Cap = 2
    Gap = 1
    Jitter = 0
    StoreFaults = TRUE
INVARIANTS
    SlotsAreExact
    OffIsImmediate
PROPERTIES
    CallsFinish
