SPECIFICATION Spec
CONSTANTS
    Threads = {t1, t2, t3}
    Keys = {k1}
    CacheCapacity = 1
    Limits = {2}
    WindowDuration = 1
    CallsPerThread = 3
    MaxClock = 2
    NoThread = NoThread
    NoEntry = NoEntry
SYMMETRY ThreadSymmetry
CHECK_DEADLOCK FALSE
INVARIANTS OpeningsSpaced StaleBurstBound
