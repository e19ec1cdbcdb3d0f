SPECIFICATION Spec
CONSTANTS
    Threads = {t1, t2}
    Keys = {k1, k2}
    CacheCapacity = 1
    Limits = {0, 2}
    WindowDuration = 1
    CallsPerThread = 2
    MaxClock = 1
    NoThread = NoThread
    NoEntry = NoEntry
CHECK_DEADLOCK FALSE
INVARIANTS TypeOK PointerLive
PROPERTIES CallsAreAtomic EveryCallReturns
