SPECIFICATION FairSpec
CONSTANTS
    Sockets = {s1}
    States <- MCStates
    Cells = 4
    MaxInFlight = 2
    MaxCorrupted = 2
CHECK_DEADLOCK FALSE
INVARIANTS
    ShowsWhatTheServerMeant
PROPERTIES
    ViewHeals
