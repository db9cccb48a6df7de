CONSTANTS
    LaunchTokens = {ta}
    weth = weth
    LaunchFirst = {}
    Creators = {alice}
    Strangers = {}
    owner = owner
    Ids = {1, 2}
    lock = lock
    treasury = treasury
    DEAD = DEAD
    Width = 2
    Durations = {0, 1}
    CreatorShares = {7}
    MAX_CREATOR_FEE_BPS = 10
    InitialPeriod = 1
    Worth = {2}
    MaxCardinality = 2
    MaxFees = 1
    MaxTime = 3
    MaxDonations = 1
SPECIFICATION Spec
INVARIANTS
    NoBlockerMeansSuccess
    LockKeepsNothing
    
PROPERTIES
    PrincipalLeavesOnlyAsPromised
    TermsOnlyImprove
    
CHECK_DEADLOCK FALSE
