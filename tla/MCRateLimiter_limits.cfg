\* Two keys, two admissions a window, a sweep as soon as both have a bucket.
SPECIFICATION Spec
CONSTANTS
    k1 = k1
    k2 = k2
    Keys <- TwoKeys
    Configured = 2
    Window = 3
    Second = 2
    MaxKeys = 1
    MaxTime = 7
INVARIANTS
    TypeOK
    WindowHolds
PROPERTIES
    RetryAfterIsKept
    ImplementsWindow
