SPECIFICATION Spec
CONSTANTS
    Threads = {t1, t2}
    Keys = {k1}
    CacheCapacity = 1
    Limits = {2}
    WindowDuration = 1
    CallsPerThread = 3
    MaxClock = 2
    NoThread = NoThread
    NoEntry = NoEntry
CHECK_DEADLOCK FALSE
INVARIANTS BurstAtMostDouble
