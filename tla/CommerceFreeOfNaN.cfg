SPECIFICATION Spec
CONSTANTS
    Sources = {s1, s2}
    Watched = s1
    OnlineSources = {s1}
    Payloads <- InstancePayloads
    Plain <- PlainPayloads
    Firsts <- FirstPayloads
    Threshold = 1
    RecoverySyncs = 2
    CostAlert = 500
    MaxAge <- InstanceAges
    PolicyAge = 0
    MaxTime = 3
    MaxReports = 3
    MaxChanges = 2
    MaxIncidents = 1
    Workers = {w1}
    Clerks = {c1}
    Terms <- InstanceTerms
    Enquiries <- InstanceEnquiries
    Null = Null
    NotAsked = NotAsked
    NotANumber = NotANumber
    NoRow = NoRow
INVARIANTS
    NothingIsNaN
CHECK_DEADLOCK FALSE
