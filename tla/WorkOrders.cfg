SPECIFICATION FairSpec
CONSTANTS
    order = order
    Orders = {order}
    Workers = {w1, w2}
    Operators = {c1}
    Depth <- CatalogDepth
    PackSuffices <- CatalogPackSuffices
    Admission <- CatalogAdmission
    MaxAttempts = 2
    BatchSize = 2
    MaxProposals = 1
    DailyBudget = 2
    Estimate = 1
    RunBudget = 1
    Costs = {1}
    ManualControl = TRUE
    MaxIncidents = 1
INVARIANTS
    OneHolder
    AnsweredOnce
    SpendBounded
PROPERTIES
    ReopenedOnlyByOverlap
    EveryOrderSettles
CHECK_DEADLOCK FALSE
