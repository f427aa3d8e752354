SPECIFICATION Spec
CONSTANTS
    CountdownTicks = 1
    SpawnDelay = 0
    GarbageDelay = 2
    Clears <- TwoClears
    MaxFrame = 6
CHECK_DEADLOCK FALSE
INVARIANTS
    GarbageAccounted
    TickIsSymmetric
    TopoutEndsTheMatch
