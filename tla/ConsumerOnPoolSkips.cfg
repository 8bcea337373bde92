CONSTANTS
    LogEnd = 2
    PoolSize = 2
    Workers = {w1, w2}
    MayFail = {1}
    MaxRestarts = 1
SPECIFICATION CSpec
INVARIANTS NothingSkipped
CHECK_DEADLOCK FALSE
