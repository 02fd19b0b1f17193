SPECIFICATION FairSpec
CONSTANTS
    c1 = c1
    c2 = c2
    Callers <- TwoCallers
    MaxFaults = 1
    MaxSlow = 1
    MaxAgings = 1
    MaxLogins = 2
INVARIANTS
    LeaseExcludesUnlessEvicted
    ReauthorizationHasCause
PROPERTY
    RefreshSettles
CHECK_DEADLOCK FALSE
