CONSTANTS
    UNREAD = UNREAD
    FAILED = FAILED
    MaxBlock = 3
    StaleLag = 1
    LagBlocks = 1
    BoardPageSize = 2
    FeedSize = 2
    Hidden = {2}
    BornIn <- MCBorn
    MaxTrades = 3
    MaxTime = 4
    MaxBook = 3
    Prices = {1, 2}
    HistoryLimit = 2
    MaxPoints = 2
    MaxMarkers = 1
    Windows = {0, 2}
    Uris = {"empty", "https", "http", "ipfs", "cid", "bare", "javascript"}
    Amounts = {1, 2}
    Rates = {1, 3}
    Slippages = {2500}
    Fees = {1, 2}
    MaxBuy = 3
    MaxMoves = 1
    MaxSent = 2
SPECIFICATION Spec
INVARIANTS
    HealthIsFounded
    
    ChartIsTheHistory
    GateIsTheChains
    
CHECK_DEADLOCK FALSE
