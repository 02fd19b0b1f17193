SPECIFICATION FairSpec
CONSTANTS
    n1 = n1
    n2 = n2
    claims = claims
    questions = questions
    customer = customer
    w1 = w1
    w2 = w2
    Nobody = Nobody
    Notices   <- TwoNotices
    Parts     <- CustomerParts
    PartOf    <- OneOfEach
    FamilyOf  <- OfCustomer
    Workers   <- TwoWorkers
    Limit = 2
    MaxAttempts = 3
    MaxIncidents = 1
PROPERTIES
    LedgerSpec
    EveryNotificationSettles
CHECK_DEADLOCK FALSE
