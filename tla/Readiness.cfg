CONSTANTS
    Checks = {q1}
    Others = {"redis", "kafka"}
SPECIFICATION RFairSpec
INVARIANTS ReadyMeansUsable NoSweepBeforeSchema
PROPERTIES StartupSettles CancelEndsCleanup ReadyzAnswers
CHECK_DEADLOCK FALSE
