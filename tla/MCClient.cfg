SPECIFICATION FairSpec
CONSTANTS
    OfflineModes = {"local", "ai", "solo"}
    MaxFlows = 5
    MaxInbox = 2
    None = None
CHECK_DEADLOCK FALSE
INVARIANTS
    NoForgottenSocket
    ShowsItsOwnMatch
    ResultsOfAFinishedMatch
    OnlySoloIsRecorded
PROPERTIES
    FinishedMatchIsLeft
