SPECIFICATION FairSpec
CONSTANTS
    Sockets = {s1, s2, s3}
    Codes = {c1, c2}
    Null = Null
    MaxRooms = 1
    MaxReplayTicks = 0
    MaxFrame = 1
    FinishedTtl = 1
    IdleTtl = 2
CHECK_DEADLOCK FALSE
PROPERTIES
    IdleRoomReclaimed
