SPECIFICATION FairSpec
CONSTANTS
    a1 = a1
    a2 = a2
    r1 = r1
    r2 = r2
    None = None
    Handlers <- TwoHandlers
    Actions  <- OneAction
    Complete <- OneAction
    IdOrder  <- Ascending
    Ttl = 2
    Skew = 0
    MaxTime = 2
    MaxFaults = 1
PROPERTY
    ExecutionSettles
CHECK_DEADLOCK FALSE
