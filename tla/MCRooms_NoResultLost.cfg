SPECIFICATION Spec
CONSTANTS
    Sockets = {s1, s2, s3}
    Codes = {c1, c2, c3}
    Null = Null
    MaxRooms = 2
    MaxReplayTicks = 1
    MaxFrame = 2
    FinishedTtl = 1
    IdleTtl = 2
SYMMETRY Symmetry
CHECK_DEADLOCK FALSE
INVARIANT NoResultLost
