CONSTANTS
    Kinds = {"http", "grpc"}
    Conns = {x1, x2}
    Callers = {c1, c2}
SPECIFICATION FairSpec
INVARIANTS NilStopMeansDrained CancelDrains
PROPERTIES StopReturns StopEndsStart
CHECK_DEADLOCK FALSE
