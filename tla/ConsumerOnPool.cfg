CONSTANTS
    LogEnd = 4
    PoolSize = 1
    Workers = {w1}
    MayFail = {2}
    MaxRestarts = 1
SPECIFICATION FairSpec
INVARIANTS PrefixHandled
PROPERTIES EveryMessageHandled CancelEndsStart
CHECK_DEADLOCK FALSE
