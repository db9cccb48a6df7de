CONSTANTS
    Wallets = {w1, w2}
    curve = curve
    treasury = treasury
    graduationManager = graduationManager
    Refusing = {w2}
    Endowment = 6
    BPS = 3
    tradeFeeBps = 1
    virtualEthReserve = 3
    virtualTokenReserve = 12
    curveTokenAllocation = 6
    maxBuyPerWallet = 36
    antiSnipeThreshold = 0
    MinOuts = {0}
    MaxDepth = 2
SPECIFICATION CallSpec
INVARIANTS
    SolventDuringCalls
PROPERTIES
    TradesAreAtomic
    CallsEnd
CHECK_DEADLOCK FALSE
