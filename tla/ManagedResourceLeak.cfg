CONSTANTS
    Kinds = {"db"}
    Callers = {c1}
    AttemptLimits = {1}
    Durations = {1}
SPECIFICATION Spec
INVARIANTS StopClosesResource
CHECK_DEADLOCK FALSE
