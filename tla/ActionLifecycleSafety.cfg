SPECIFICATION FairSpec
CONSTANTS
    a1 = a1
    a2 = a2
    r1 = r1
    r2 = r2
    None = None
    Handlers <- TwoHandlers
    Actions  <- TwoActions
    Complete <- OneAction
    IdOrder  <- EitherOrder
    Ttl = 2
    Skew = 1
    MaxTime = 3
    MaxFaults = 2
INVARIANTS
    AtMostOneAttempt
    ChainIsLinear
PROPERTIES
    LedgerSpec
    OnlyFaultsStrand
CHECK_DEADLOCK FALSE
