CONSTANTS
    k1 = k1
    Keys = {k1}
    Posture = "free-only"
    Window = 1
    EntryWindow = 2
    DedupeCapacity = 1
    MaxActions = 1
    MaxMessages = 2
    MaxBatch = 2
    MaxTime = 2
    MaxAttempts = 2

SPECIFICATION Spec
CHECK_DEADLOCK FALSE
INVARIANTS NothingCharged
