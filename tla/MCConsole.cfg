SPECIFICATION Spec
CONSTANTS
    Spellings = {"Amy", "Cyd"}
    Names = {"amy", "bob", "cyd"}
    NormalizeUsername <- MCNormalize
    src = src
    w1 = w1
    w2 = w2
    Secrets = {w1, w2}
    Sources = {src}
    Requests = {r1, r2}
    Tokens = {t1, t2}
    MaxCalls = 2
    MaxPosts = 2
    MaxPlayers = 3
    None = None
    LoginWindow = 1
    RegisterWindow = 1
    SessionTtl = 1
    MaxFailuresPerUser = 1
    MaxFailuresPerSource = 2
    MaxRegistrations = 1
    Databases <- MCDatabases
    Posts = {p1}
    Sockets = {s1}
    hello = hello
    Notices = {hello}
SYMMETRY Symmetry
CHECK_DEADLOCK FALSE
INVARIANTS
    NamesAreUnique
    LimitsOverrunOnlyByCallsAtOnce
    BannedAreBeingCut
    AuditTellsTheState
PROPERTIES
    GovernedByRank
    ConsoleStaysReachable
