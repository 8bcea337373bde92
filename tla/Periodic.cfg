CONSTANT Slots = {i1, i2, i3}
SPECIFICATION FairSpec
INVARIANTS OneAtATime
PROPERTIES KeepsCalling CancelEndsStart
CHECK_DEADLOCK FALSE
