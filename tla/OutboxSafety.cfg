SPECIFICATION FairSpec
CONSTANTS
    e1 = e1
    e2 = e2
    w1 = w1
    w2 = w2
    Nobody = Nobody
    Events  <- TwoEvents
    Poison  <- SecondEvent
    Workers <- TwoWorkers
    NameOf  <- OwnNames
    Limit = 2
    MaxAttempts = 2
    MaxFaults = 1
    MaxSlow = 1
    MaxRequeues = 1
PROPERTIES
    LedgerSpec
    EveryEventSettles
CHECK_DEADLOCK FALSE
