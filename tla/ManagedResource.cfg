CONSTANTS
    Kinds = {"db", "redis", "producer", "grpcclient"}
    Callers = {c1, c2}
    AttemptLimits = {0, 3}
    Durations = {2, 4}
SPECIFICATION FairSpec
INVARIANTS TypeOK NoAttemptLeak StopMeansClosed
PROPERTIES ShutdownReturns
CHECK_DEADLOCK FALSE
