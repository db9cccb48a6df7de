SPECIFICATION Spec
CONSTANTS
    PROXY = PROXY
    PRIMARY = PRIMARY
    SECONDARY = SECONDARY
    PUBLIC = PUBLIC
    KEYED = KEYED
    NONE = NONE
    Retries = 1
    MaxTurns = 2
    Candidates <- MCCandidates
    NoCap = 100000
    NARROW_CAP = 50000
    WIDE_CAP = 10000
    MaxFlakes = 1
INVARIANTS
    NoEndpointWasPassedOver
    AnswersAreTheChains
    
    
PROPERTY
    ProbesAndReadsEnd
CHECK_DEADLOCK FALSE
