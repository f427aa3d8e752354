SPECIFICATION Spec
CONSTANTS
    Sockets = {s1, s2, s3, s4}
    Codes = {c1, c2}
    Null = Null
    MaxRooms = 2
    MaxReplayTicks = 0
    MaxFrame = 1
    FinishedTtl = 0
    IdleTtl = 1
SYMMETRY Symmetry
CHECK_DEADLOCK FALSE
INVARIANTS
    TypeOK
    SeatsMatchSockets
    WaiterIsFreeAndAlone
    RoomPhases
    SavedExactlyOnce
    ForfeitGoesToTheStayer
    ResultNamesThePlayers
PROPERTIES
    NothingStartsInMaintenance
    ImplementsLifecycle
