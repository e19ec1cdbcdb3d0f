SPECIFICATION Spec
CONSTANTS
    CacheCapacity = 2
    Limits = {0, 2}
    WindowDuration = 3
    Bytes <- MCBytes
    MaxBytes = 5
CHECK_DEADLOCK FALSE
INVARIANTS NeverAborts OverflowKeepsLatest
PROPERTIES SteadyIsFixedWindow
