SPECIFICATION Spec
CONSTANTS
    Types = {"T", "I"}
    MaxPieces = 3
    BoardW = 4
    BoardH = 6
    Hidden = 3
    Gravity <- MCGravity
    MaxFrame = 3
    LockDelay = 2
    MaxLockResets = 1
    Das = 2
    Arr = 0
    SpawnDelay = 0
    GarbageDelay = 2
    SoftDropCells = 2
    Inputs <- MCInputs
    Attacks = {1}
    Null = Null
CHECK_DEADLOCK FALSE
INVARIANTS
    PieceNeverOverlaps
    LockTimerOnlyAtRest
    IdlePieceLocks
    CellsConserved
PROPERTIES
    TicksArePlays
