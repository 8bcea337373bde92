CONSTANTS
    Ids = {o1}
    Readers = {r1, r2}
    MaxRestarts = 2
SPECIFICATION FairSpec
INVARIANTS EventsTruthful CreatedFirst
PROPERTIES OutcomeFinal CacheSettles NoLimbo
CHECK_DEADLOCK FALSE
