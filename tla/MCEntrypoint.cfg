CONSTANTS
    s1 = s1
    s2 = s2
    Services = {s1, s2}
    Stoppers = {s1}
    Hooks <- AllHooks
    CatchSignals = TRUE
SPECIFICATION FairSpec
INVARIANTS CleanReturn NoOrphan NoNoise
PROPERTIES ImplementsLifecycle TriggerLeadsToReturn NoGoroutineLeft
CHECK_DEADLOCK FALSE
