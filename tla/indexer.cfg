SPECIFICATION Spec
CONSTANTS
    Tokens = {t1, t2}
    Accounts = {a1, a2}
    Allocation = 2
    VIRTUAL_ETH = 1
    Launches <- MCLaunches
    LOCK_DURATION = 1
    PERMANENT = 99
    NONE = NONE
    MaxTxs = 4
    MaxBlockTxs = 2
    MaxFaults = 1
INVARIANTS
    IndexedIsTheChain
    RollupIsTheSum
    PositionsCoverTheCurve

    
CHECK_DEADLOCK FALSE
