SPECIFICATION Spec
CONSTANTS
    Tokens = {t1}
    Accounts = {a1, a2}
    Allocation = 2
    VIRTUAL_ETH = 1
    Launches <- MCLaunches
    LOCK_DURATION = 1
    PERMANENT = 99
    NONE = NONE
    MaxTxs = 5
    MaxBlockTxs = 1
    MaxFaults = 0
INVARIANT
    BalanceIsBoughtMinusSold
CHECK_DEADLOCK FALSE
