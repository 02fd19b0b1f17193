----------------------- MODULE CompanyIntelligenceMC -----------------------
(***************************************************************************)
(* The instance TLC checks.  The daemon is `unit-economics`, the one whose *)
(* subject the wired reader can fill; its signals are as many documents as *)
(* the reader may return.  The studies enumerate what a call may read.     *)
(***************************************************************************)
EXTENDS CompanyIntelligence, TLC

UnitEconomics == CHOOSE d \in DaemonCatalog : d.id = "unit-economics"

SignalWorth == [fresh |-> 38475, none |-> 0]
UnitEconomicsSuffices == [daemon |-> TRUE]

\* The values given are those of the catalogs, in hundredths.
ASSUME InstanceAssumption ==
    /\ SignalWorth["fresh"] =
         Max({Utility(d, ReadLimit, TRUE) : d \in DaemonCatalog}) + 100 * DaemonEstimate
    /\ UnitEconomicsSuffices["daemon"]
         = (EnqueueKindsMissing("unit-economics", ReaderKinds(UnitEconomics.subject)) = {})
    /\ OrderCost = 100 * DaemonEstimate
    /\ ValidHierarchy(Catalog)

WorkflowStudies ==
    [call: {"workflow"}, of: WorkflowKinds, named: BOOLEAN, supplier: {"none", "old", "fresh"},
     synced: BOOLEAN, listing: {"none", "fresh"}, profit: {"old", "fresh"}, policy: BOOLEAN,
     parameters: {{}, {"stock-floor"}, {"stock-ceiling"},
                  {"maximum-purchase-quantity", "maximum-unit-cost"}}]

\* A sale of the month is a recent sale of the quarter.
LifecycleStudies ==
    {p \in [call: {"lifecycle"}, active: {Null, "no", "yes"}, quantity: {Null, "zero"},
            sold30: {Null, "zero", "some"}, sold90: {"zero", "some"}, visits: {Null, "few"},
            idle: {Null, "few", "many"}, margin: {Null, "negative", "positive"},
            inSeason: {Null, "no", "yes"}, seasonConfidence: {Null, "high"},
            fresh: BOOLEAN, referenced: {TRUE}] :
       /\ p.sold30 = "some" => p.sold90 = "some" /\ p.idle = "few"
       /\ (p.inSeason = Null) = (p.seasonConfidence = Null)}

BrainStudies ==
    [call: {"brain"}, order: {<<"economics", "catalog">>},
     read: [{"economics", "catalog"} ->
              [documents: {0, 3}, missing: BOOLEAN, warnings: 0..2, criticals: 0..1]]]

DaemonStudies ==
    [call: {"daemon"}, of: {d.id : d \in DaemonCatalog}, documents: {1, ReadLimit}, urgent: {TRUE},
     kinds: SUBSET {"listing-snapshot", "claim-snapshot", "question-snapshot", "order-snapshot",
                    "economic-snapshot"}]

PlanStudies ==
    {s \in [call: {"plan"}, score: [{d.id : d \in Directors} -> 0..2], limit: {0, 2, 9}, budget: {7}] :
       Cardinality({id \in DOMAIN s.score : s.score[id] = 2}) <= 1}

\* The objectives that name at most one specialist of the department twice.
DepartmentStudies ==
    UNION {{s \in [call: {"department"}, of: {d.id},
                   score: [{c.id : c \in Department(d.id)} -> 0..2],
                   limit: {0, 2, 9}, budget: {7}] :
              Cardinality({id \in DOMAIN s.score : s.score[id] = 2}) <= 1} : d \in Directors}

\* The budgets are the most a run of each model may cost, and one less.
RunStudies ==
    [call: {"run"}, of: {"extraction", "planning"}, maxPrompt: {100}, maxOutput: {10},
     budget: {16, 17, 52, 53},
     usage: [hit: {0, 1, 99}, miss: {1, 99, 100}, prompt: {1, 100}, output: {0, 10, 11}]]

AllStudies ==
    WorkflowStudies \union LifecycleStudies \union BrainStudies \union DaemonStudies
    \union PlanStudies \union DepartmentStudies \union RunStudies
=============================================================================
