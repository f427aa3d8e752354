SPECIFICATION FairSpec
CONSTANTS
    Actions = {"left"}
    BitOf <- MCBitOf
    Players = {1}
    Keys = {"KeyA", "ArrowLeft"}
    ActionOf <- MCActionOf
    Heartbeat = 2
    InputBudget = 1
    TickMs = 2
    MaxCatchup = 5
    MaxSteps = 2
    MaxReplayTicks = 3
    MaxTicks = 4
    Delays = {1, 6}
    MaxTaps = 2
    MaxInFlight = 2
CHECK_DEADLOCK FALSE
INVARIANTS
    EveryTapAccounted
    NeverAheadOfTheClock
    ReplayIsTheMatch
PROPERTIES
    HeldKeysSettle
