CONSTANTS
    w1 = w1
    w2 = w2
    Wallets = {w1, w2}
    curve = curve
    treasury = treasury
    graduationManager = graduationManager
    Refusing = {}
    Endowment = 7
    BPS = 3
    tradeFeeBps = 1
    virtualEthReserve = 2
    virtualTokenReserve = 17
    curveTokenAllocation = 11
    maxBuyPerWallet = 7
    antiSnipeThreshold = 6
    MinOuts = {0, 2}
SYMMETRY Symmetry
SPECIFICATION Spec
INVARIANTS
    Backed
    OnlySoldTokensCirculate
    CrossingNeverUnderflows
    NoRoundTripProfit
    EveryoneCanExit
PROPERTIES
    WindowBuysAreTallied
    GraduatesOnceWithTheRaise
    KeepsPromise
CHECK_DEADLOCK FALSE
