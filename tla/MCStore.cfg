SPECIFICATION FairSpec
CONSTANTS
    Accounts = {p, q}
    p = p
    q = q
    d1 = d1
    d2 = d2
    Guest = Guest
    Nobody = Nobody
    Days = {d1, d2}
    Outcomes <- MCOutcomes
    RatingDelta <- MCRatingDelta
    StartRating = 2
    RatingFloor = 1
    MaxResults = 4
    MaxLives = 2
    MaxBatch = 3
    MaxPending = 3
CHECK_DEADLOCK FALSE
INVARIANTS
    EveryResultAccounted
    LeaderboardFollowsMatchList
    NothingIsDropped
    CloseLeavesNothingBehind
PROPERTIES
    ResultsSettle
