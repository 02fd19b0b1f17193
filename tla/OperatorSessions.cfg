SPECIFICATION FairSpec
CONSTANTS
    s1 = s1
    s2 = s2
    t1 = t1
    t2 = t2
    api = api
    agentOsApi = agentOsApi
    Nobody = Nobody
    Sessions <- TwoSessions
    Threads  <- TwoThreads
    Clients  <- BothClients
    MaxAgings = 2
    MaxFaults = 1
INVARIANTS
    LogoutEndsSession
PROPERTIES
    LedgerSpec
    RefusalSettles
CHECK_DEADLOCK FALSE
