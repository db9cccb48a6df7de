CONSTANTS
    Tokens = {t1, t2}
    Creators = {alice}
    launchpad = launchpad
    Strangers = {stranger}
    Amounts = {0, 5, 8}
    Durations = {0, 3}
    MaxUint128 = 7
    MaxTime = 5
    shown = t1
    MaxSkew = 1
SPECIFICATION CardSpec
INVARIANTS
    NeverAheadOfTheLine
    VaultCoversGrants
    NothingStranded
    
CHECK_DEADLOCK FALSE
