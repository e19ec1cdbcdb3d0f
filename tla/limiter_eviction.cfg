SPECIFICATION Spec
CONSTANTS
    Keys = {k1, k2, k3}
    CacheCapacity = 2
    Limits = {0, 2}
    WindowDuration = 2
    LastStamp = 3
    Stamps <- MCStamps
    MaxCalls = 6
SYMMETRY KeySymmetry
CHECK_DEADLOCK FALSE
INVARIANTS TypeOK CacheSound WindowQuota WindowAccounting DenialJustified
           RestartOnlyAfterEviction RecentKeysAreKept BurstBound
PROPERTIES OnlyOwnWindowChanges WindowsSucceed
