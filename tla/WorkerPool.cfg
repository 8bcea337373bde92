CONSTANTS
    Tasks = {t1, t2, t3}
    Workers = {w1, w2}
    QueueSize = 2
    NoTask = NoTask
SPECIFICATION FairSpec
INVARIANTS AcceptedAccounted DrainComplete
PROPERTIES ImplementsFifo SubmitReturns AcceptedRuns ShutdownReturns
CHECK_DEADLOCK FALSE
