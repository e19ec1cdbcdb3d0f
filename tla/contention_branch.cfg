SPECIFICATION Spec
CONSTANTS
    Rounds = 7
    GoogleRounds = 16
    NewKeyCapacity = 8
    WithinWindowRequestsPerWindow = 14
    Workers = {w1, w2}
    RequestsPerWindow = 3
    TimedCalls = 2
    NoOwner = NoOwner
CHECK_DEADLOCK FALSE
INVARIANTS NoThreadDenied
