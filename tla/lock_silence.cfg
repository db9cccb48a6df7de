CONSTANTS
    LaunchTokens = {ta}
    weth = weth
    LaunchFirst = {ta}
    Creators = {alice}
    Strangers = {stranger}
    owner = owner
    Ids = {1, 2}
    lock = lock
    treasury = treasury
    DEAD = DEAD
    Width = 4
    Durations = {1, 2}
    CreatorShares = {7}
    MAX_CREATOR_FEE_BPS = 10
    InitialPeriod = 2
    Worth = {2}
    MaxCardinality = 2
    MaxFees = 1
    MaxTime = 7
    MaxDonations = 0
SPECIFICATION HistorySpec
PROPERTIES
    ReclaimMeansNoSwap
CHECK_DEADLOCK FALSE
