SPECIFICATION FairSpec
CONSTANTS
    Requests = {r1, r2}
    Messages = {m1}
    Contents = {x, y}
    Routers = {w1, w2}
    MaxAttempts = 2
    Accounts = {a1}
    Writers = {c1, c2}
    MaxEntries = 3
    Daemons = {"daemon"}
    Schedulers = {w1, w2}
    Signals = {"fresh"}
    Worth <- SignalWorth
    OrderCost = 2500000
    AgentSuffices <- UnitEconomicsSuffices
    MaxIncidents = 1
    Studies <- AllStudies
    NothingYet = NothingYet
INVARIANTS
    AnswersAreBacked
    SupersessionIsWhole
    RevisionsForkOnlyByOverlap
    SeenOnlyIfOrdered
    ConclusionsRestOnEvidence
PROPERTY
    EveryRequestSettles
CHECK_DEADLOCK FALSE
