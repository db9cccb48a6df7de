CONSTANTS
    Tokens = {t1}
    Creators = {alice}
    Strangers = {}
    launchpad = launchpad
    Owners = {deployer}
    Treasuries = {safe, closed}
    Refusing = {closed}
    CURVE_SUPPLY = 80
    GRADUATION_RESERVE = 20
    BPS = 30
    MAX_VIRTUAL_ETH_RESERVE = 3
    MAX_TRADE_FEE_BPS = 4
    MAX_DEV_ALLOCATION_BPS = 2
    DEFAULT_VIRTUAL_ETH_RESERVE = 2
    DEFAULT_TRADE_FEE_BPS = 1
    DEFAULT_MAX_BUY_PER_WALLET = 8
    DEFAULT_ANTI_SNIPE_THRESHOLD = 12
    DEFAULT_LOCK_DURATION = 2
    MIN_LOCK_DURATION = 2
    MAX_LOCK_DURATION = 3
    DEFAULT_CREATOR_FEE_BPS = 7
    MAX_CREATOR_FEE_BPS = 10
    DEFAULT_VESTING_DURATION = 1
    MIN_VESTING_DURATION = 1
    MAX_VESTING_DURATION = 2
    MaxUint128 = 5
    PERMANENT = 5
    CreationFees = {1}
    VirtualEths = {0, 2, 3, 4}
    TradeFees = {1, 5}
    MaxBuys = {0, 8}
    Thresholds = {12, 80}
    LockDurations = {1, 2, 3, 4}
    CreatorFees = {7, 11}
    DevAllocations = {0, 2}
    VestingDurations = {0, 1}
    ProtocolFees = {0, 3, 4}
    MaxTime = 1
    MaxProtocolFees = 3
SPECIFICATION Spec
INVARIANTS
    NoParameterBricksALaunch
    SupplyAccounted
    
    PoolOpensAtTheClose
    TermsAreThoseAtCreation
CHECK_DEADLOCK FALSE
