SPECIFICATION DeliverySpec
CONSTANTS
    a1 = a1
    r1 = r1
    w1 = w1
    None = None
    Nobody = Nobody
    Actions  <- OneAction
    Complete <- OneAction
    Handlers <- OneHandler
    IdOrder  <- Ascending
    Ttl = 1
    Skew = 0
    MaxTime = 0
    MaxFaults = 1
    Workers <- OneWorker
    NameOf  <- OwnNames
    Limit = 1
    MaxAttempts = 1
    MaxWorkerFaults = 1
    MaxSlow = 0
    MaxRequeues = 0
INVARIANT
    TellsWhatHappened
PROPERTY
    EveryOutcomeTold
CHECK_DEADLOCK FALSE
