--------------------------- MODULE CompanyAnalysis ---------------------------
(***************************************************************************)
(* What the company concludes from the evidence it reads: the plan of an   *)
(* objective and of a department's, a supply workflow, the lifecycle of a  *)
(* product, a dimension of the account brain, whether a daemon's pack      *)
(* suffices, and what becomes of a run of a language model.  Each is a     *)
(* function of what one call reads; a study is one such call, and its      *)
(* conclusion is what the call saves.                                      *)
(*                                                                         *)
(* Units, margins and ages stand for their sign or the threshold they      *)
(* cross; an absent input is "null".                                       *)
(***************************************************************************)
EXTENDS CompanyCatalog, Sequences

CONSTANTS
    Studies,      \* the calls that are made
    NothingYet    \* the conclusion of a call that has not ended

VARIABLES study, conclusion

analysisVars == <<study, conclusion>>

Null == "null"

\* A unit sold in the last thirty days was sold in the last ninety; a brain reads every
\* dimension, in a fixed order; objectives are scored by counting, and their routes refuse a
\* budget below 0; the tasks have a model; token counts are what assertValidLlmUsage lets
\* through but for their sum.
ASSUME StudiesAssumption ==
    \A s \in Studies :
        /\ s.call = "lifecycle" /\ s.sold30 = "some" => s.sold90 = "some"
        /\ s.call = "brain" =>
             /\ s.order \in Seq(DOMAIN s.read) /\ s.order /= <<>> /\ ToSet(s.order) = DOMAIN s.read
             /\ s.read \in [DOMAIN s.read ->
                              [documents: Nat, missing: BOOLEAN, warnings: Nat, criticals: Nat]]
        /\ s.call = "plan" => s.score \in [{c.id : c \in Directors} -> Nat]
        /\ s.call = "department" => s.score \in [{c.id : c \in Department(s.of)} -> Nat]
        /\ s.call \in {"plan", "department"} => s.limit \in Int /\ s.budget \in Nat
        /\ s.call = "run" =>
             /\ s.of \in FlashTasks \union ProTasks
             /\ s.maxPrompt \in Nat /\ s.maxOutput \in Nat /\ s.budget \in Nat
             /\ s.usage \in [hit: Nat, miss: Nat, prompt: Nat, output: Nat]

-----------------------------------------------------------------------------
(* Supply workflows.                                                       *)

WorkflowKinds ==
    {"supplier.pause", "supplier.full-scrape", "stock.sync", "stock.autopause",
     "purchase.opportunistic"}

CommonKinds == {"supplier-evidence", "listing-snapshot", "inventory-snapshot", "economic-snapshot"}

\* The kinds the four steps of a plan require.
PlannedKinds(kind) ==
    CommonKinds \union {"policy-version"} \union
    (CASE kind \in {"stock.sync", "stock.autopause"} -> {"supplier-evidence", "inventory-snapshot"}
       [] kind = "purchase.opportunistic" -> {"supplier-evidence", "economic-snapshot"}
       [] OTHER -> {"supplier-evidence"})

\* What the reader finds: w.supplier, w.listing and w.profit are "none", "old" or
\* "fresh"; w.synced says whether the supplier's last synchronisation succeeded; the
\* reader asks for the listing's rows only when the request names one.
AvailableKinds(w) ==
    (IF w.supplier = "fresh" /\ w.synced THEN {"supplier-evidence"} ELSE {}) \union
    (IF w.supplier = "fresh" THEN {"inventory-snapshot"} ELSE {}) \union
    (IF w.named /\ w.listing = "fresh" THEN {"listing-snapshot", "inventory-snapshot"} ELSE {}) \union
    (IF w.named /\ w.profit = "fresh" THEN {"economic-snapshot"} ELSE {}) \union
    (IF w.named /\ w.policy THEN {"policy-version"} ELSE {})

ReaderMissing(w) ==
    (IF w.supplier = "none" THEN {"supplier-evidence"} ELSE {}) \union
    (IF w.supplier = "old" THEN {"fresh-supplier-evidence"} ELSE {}) \union
    (IF w.supplier = "fresh" /\ ~w.synced THEN {"supplier-sync"} ELSE {}) \union
    (IF w.named /\ w.listing /= "fresh" THEN {"fresh-listing-snapshot"} ELSE {}) \union
    (IF w.named /\ w.profit /= "fresh" THEN {"fresh-economic-snapshot"} ELSE {}) \union
    (IF w.named /\ ~w.policy THEN {"policy-version"} ELSE {})

BusinessMissing(w) ==
    CASE w.of = "stock.autopause" -> {"stock-floor"} \ w.parameters
      [] w.of = "stock.sync" -> {"stock-ceiling"} \ w.parameters
      [] w.of = "purchase.opportunistic" ->
           {"maximum-purchase-quantity", "maximum-unit-cost"} \ w.parameters
      [] OTHER -> {}

WorkflowReady(w) ==
    /\ PlannedKinds(w.of) \subseteq AvailableKinds(w)
    /\ ReaderMissing(w) \union BusinessMissing(w) = {}

ActionKind(kind) ==
    CASE kind = "supplier.pause" -> "supplier.pause"
      [] kind = "supplier.full-scrape" -> "supplier.catalog.refresh"
      [] kind = "stock.sync" -> "listing.stock.update"
      [] kind = "stock.autopause" -> "listing.pause"
      [] kind = "purchase.opportunistic" -> "supplier.purchase.propose"

RunWorkflow(w) ==
    IF w.of /= "supplier.full-scrape" /\ ~w.named
    THEN [status |-> "refused", action |-> Null]
    ELSE IF WorkflowReady(w) THEN [status |-> "proposed", action |-> ActionKind(w.of)]
    ELSE [status |-> "waiting-evidence", action |-> Null]

-----------------------------------------------------------------------------
(* Product lifecycle.  p.idle is the days since the last sale: Null, "few" *)
(* or "many" (180 and more).                                               *)

LifecycleMissing(p) == {p.active, p.quantity, p.sold30, p.sold90, p.margin} \intersect {Null}

Verdict(state, confidence) == [status |-> state, confidence |-> confidence]

\* FAULTY variant of Outdated: the age of the evidence is not looked at.
NeverOutdated(p) == FALSE
Outdated(p) == ~p.fresh

SeasonKnown(p) == p.inSeason /= Null /\ p.seasonConfidence \notin {Null, "low"}
Obsolete(p) ==
    \/ p.active = "no"
    \/ p.sold90 = "zero" /\ p.visits = "few"
    \/ p.sold90 = "zero" /\ p.idle = "many"

ClassifyProductLifecycle(p) ==
    IF Outdated(p) THEN Verdict("uncertain", "low")
    ELSE IF ~p.referenced \/ LifecycleMissing(p) /= {} THEN Verdict("insufficient-data", "low")
    ELSE IF SeasonKnown(p) /\ p.inSeason = "no" /\ p.sold90 = "some"
         THEN Verdict("off-season", p.seasonConfidence)
    ELSE IF SeasonKnown(p) /\ p.inSeason = "yes" /\ p.sold30 = "some"
         THEN Verdict("seasonal", p.seasonConfidence)
    ELSE IF Obsolete(p)
         THEN Verdict("obsolete-candidate", IF p.idle = "many" THEN "high" ELSE "medium")
    ELSE IF p.sold30 = "some"
         THEN Verdict("active", IF p.margin = "negative" THEN "medium" ELSE "high")
    ELSE Verdict("uncertain", "low")

-----------------------------------------------------------------------------
(* The account brain: for each dimension the documents it read, what is    *)
(* missing, and how many findings are warnings and critical.               *)

Unscored(d) == d.documents = 0 \/ d.missing

DimensionScore(d) ==
    LET lost == 1500 * d.warnings + 4000 * d.criticals
    IN IF lost > 9000 THEN 0 ELSE 9000 - lost

DimensionStatus(d) ==
    IF Unscored(d) THEN "insufficient-evidence"
    ELSE IF d.criticals > 0 \/ DimensionScore(d) < 4000 THEN "critical"
    ELSE IF d.warnings > 0 \/ DimensionScore(d) < 7000 THEN "attention"
    ELSE "healthy"

StatusRank(status) ==
    CASE status = "critical" -> 4
      [] status = "attention" -> 3
      [] status = "insufficient-evidence" -> 2
      [] status = "healthy" -> 1

\* The mean of the scored dimensions, rounded; Null when none is.
OverallScore(read) ==
    LET scored == {d \in DOMAIN read : ~Unscored(read[d])}
        total == MapThenSumSet(LAMBDA d : DimensionScore(read[d]), scored)
        size == Cardinality(scored)
    IN IF scored = {} THEN Null ELSE (2 * total + size) \div (2 * size)

\* The dimensions that are not healthy, worst first; equal ones in the order read.
Priorities(order, read) ==
    LET Rank(i) == StatusRank(DimensionStatus(read[order[i]]))
        worst == InOrder({i \in DOMAIN order : DimensionStatus(read[order[i]]) /= "healthy"},
                         LAMBDA i, j : Rank(i) > Rank(j) \/ (Rank(i) = Rank(j) /\ i < j))
    IN [k \in DOMAIN worst |-> order[worst[k]]]

RebuildBrain(b) ==
    [status |-> IF \E d \in DOMAIN b.read : b.read[d].missing \/ \A e \in DOMAIN b.read : b.read[e].documents = 0
                THEN "partial" ELSE "complete",
     score |-> OverallScore(b.read), priorities |-> Priorities(b.order, b.read)]

-----------------------------------------------------------------------------
(* The catalog of daemons: what each reads, asks of its pack and orders.   *)

Daemon(id, capability, subject, kinds) ==
    [id |-> id, capability |-> capability, subject |-> subject, kinds |-> kinds]

DaemonCatalog ==
    {Daemon("economic-ingestion", "economics.read", "economic", {"order-snapshot", "cost-evidence"}),
     Daemon("unit-economics", "economics.read", "economic", {"economic-snapshot"}),
     Daemon("pricing", "proposal.create", "economic", {"economic-snapshot", "market-evidence"}),
     Daemon("ads-profitability", "ads.read", "economic", {"ads-snapshot", "economic-snapshot"}),
     Daemon("analytics", "analytics.read", "commercial", {"analytics-snapshot"}),
     Daemon("catalog", "catalog.read", "catalog", {"listing-snapshot"}),
     Daemon("product-research", "research.read", "catalog", {"market-evidence", "supplier-evidence"}),
     Daemon("listing-retread", "catalog.read", "catalog", {"listing-snapshot", "analytics-snapshot"}),
     Daemon("supplier-manager", "supplier.read", "economic", {"supplier-evidence"}),
     Daemon("inventory-forecast", "inventory.read", "commercial", {"inventory-snapshot", "order-snapshot"}),
     Daemon("acquisition-imports", "supplier.read", "economic", {"supplier-evidence", "landed-cost-evidence"}),
     Daemon("sales-service", "questions.read", "customer", {"customer-operation-snapshot"}),
     Daemon("claims-reputation", "claims.read", "reputation", {"customer-operation-snapshot"}),
     Daemon("shipping-logistics", "shipping.read", "customer", {"shipment-snapshot"}),
     Daemon("creative-studio", "content.draft", "content", {"product-evidence", "brand-policy"}),
     Daemon("product-ads", "ads.read", "economic", {"ads-snapshot", "economic-snapshot"})}

\* A state whose daemon is not in the catalog throws before anything is read.
ASSUME DaemonsOfTheCatalog ==
    \A s \in Studies : s.call = "daemon" => \E d \in DaemonCatalog : d.id = s.of

DaemonEstimate == 25000
ReadLimit == 500

\* In hundredths: what one document of a daemon's subject adds to the utility of waking
\* its agent (urgency, impact, confidence), and what waking it is estimated to cost.
Utility(daemon, documents, urgent) ==
    (documents * (IF urgent THEN 90 ELSE 55) * (IF daemon.id = "claims-reputation" THEN 90 ELSE 60) * 95)
      \div 10000 - 100 * DaemonEstimate

MissingForDaemon(daemon, found) == daemon.kinds \ found

\* The status of the order a daemon records, when its subject has documents of d.kinds
\* that it has not seen yet.
DaemonOutcome(d) ==
    LET daemon == CHOOSE x \in DaemonCatalog : x.id = d.of
        found == d.kinds \intersect ReaderKinds(daemon.subject)
        contract == Contract(daemon.id)
        wake == DecideWake([signals |-> "new", previous |-> "old", cooling |-> FALSE, manual |-> FALSE,
                            utility |-> Utility(daemon, d.documents, d.urgent)])
    IN [status |->
          IF found = {} \/ MissingForDaemon(daemon, found) /= {} THEN "no order"
          ELSE IF daemon.capability \notin ToSet(contract.allowed) \/ daemon.capability \in GlobalForbidden
          THEN "failed"
          ELSE IF EnqueueKindsMissing(daemon.id, found) /= {} THEN "waiting-evidence"
          ELSE IF Wakes(wake) THEN "queued" ELSE "skipped",
        found |-> found]

-----------------------------------------------------------------------------
(* A shadow run of a language model: blocked when the most it may cost is  *)
(* beyond its budget, failed when the usage it reports is refused.  What   *)
(* the account has spent that day is in the module of the work orders.     *)

TokenUnit == 1000000

RunModel(r) ==
    LET price == Pricing(RouteLlmModel(r.of))
        cost == ModelCost(price, r.usage, TokenUnit)
    IN IF MaximumCost(price, r.maxPrompt, r.maxOutput, TokenUnit) > r.budget
       THEN [status |-> "blocked", cost |-> Null]
       ELSE IF ValidUsage(r.usage) /\ cost <= r.budget
       THEN [status |-> "completed", cost |-> cost]
       ELSE [status |-> "failed", cost |-> Null]

-----------------------------------------------------------------------------
AnalysisInit == study \in Studies /\ conclusion = NothingYet

Conclusion(s) ==
    CASE s.call = "workflow" -> RunWorkflow(s)
      [] s.call = "lifecycle" -> ClassifyProductLifecycle(s)
      [] s.call = "brain" -> RebuildBrain(s)
      [] s.call = "daemon" -> DaemonOutcome(s)
      [] s.call = "plan" -> PlanCompanyObjective(s.score, s.limit, s.budget)
      [] s.call = "department" -> PlanDepartmentObjective(s.of, s.score, s.limit, s.budget)
      [] s.call = "run" -> RunModel(s)

Conclude ==
    /\ conclusion = NothingYet
    /\ conclusion' = Conclusion(study)
    /\ UNCHANGED study

AnalysisNext == Conclude

-----------------------------------------------------------------------------
(* Properties.                                                             *)

Concluded(call) == conclusion /= NothingYet /\ study.call = call

\* A supply workflow is proposed only on the word of a supplier that is fresh and whose
\* synchronisation succeeded, on fresh marketplace and economic data of the listing it
\* names, and with every limit its kind needs.
WorkflowsRestOnEvidence ==
    Concluded("workflow") /\ conclusion.status = "proposed" =>
      /\ study.named /\ study.policy
      /\ study.supplier = "fresh" /\ study.synced
      /\ study.listing = "fresh" /\ study.profit = "fresh"
      /\ study.of = "stock.sync" => "stock-ceiling" \in study.parameters
      /\ study.of = "stock.autopause" => "stock-floor" \in study.parameters

\* A product is judged with confidence only on fresh and whole evidence, and never retired
\* while it is active and selling.
VerdictsRestOnEvidence ==
    Concluded("lifecycle") =>
      /\ conclusion.confidence /= "low" =>
           study.fresh /\ study.referenced /\ LifecycleMissing(study) = {}
      /\ study.active = "yes" /\ study.sold30 = "some" => conclusion.status /= "obsolete-candidate"

\* A run that was let through and stays within the tokens it was given is never refused,
\* and one that is completed has cost no more than its budget.
RunsKeepTheirBudget ==
    Concluded("run") =>
      /\ conclusion.status /= "blocked" /\ ValidUsage(study.usage)
         /\ study.usage.prompt <= study.maxPrompt /\ study.usage.output <= study.maxOutput
           => conclusion.status = "completed"
      /\ conclusion.status = "completed" => conclusion.cost <= study.budget

\* An order of a daemon has what the daemon asks for and is within its agent's contract.
OrdersRestOnEvidence ==
    Concluded("daemon") =>
      /\ conclusion.status /= "failed"
      /\ conclusion.status /= "no order" =>
           \E daemon \in DaemonCatalog : daemon.id = study.of /\ daemon.kinds \subseteq conclusion.found

\* A brain that has nothing to act on has read everything and scores well.
BrainsRestOnEvidence ==
    Concluded("brain") /\ conclusion.priorities = <<>> =>
      conclusion.status = "complete" /\ conclusion.score >= 7000

\* The tasks of a plan share the budget that was given, at most five go to different agents,
\* and each asks for what its agent may do, in a department only to read, plan or propose.
PlansKeepTheirBounds ==
    Concluded("plan") \/ Concluded("department") =>
      LET tasks == conclusion.tasks
      IN /\ conclusion.clarify = (\A id \in DOMAIN study.score : study.score[id] = 0)
         /\ Len(tasks) <= 5
         /\ \A i, j \in DOMAIN tasks : tasks[i].agent = tasks[j].agent => i = j
         /\ \A i \in DOMAIN tasks :
              /\ tasks[i].action \in ToSet(Contract(tasks[i].agent).allowed) \ GlobalForbidden
              /\ Concluded("department") => tasks[i].action \in ReadOnly
         /\ MapThenSumSet(LAMBDA i : tasks[i].budget, DOMAIN tasks) <= study.budget

\* What the company concludes rests on the evidence it had and stays within its limits.
ConclusionsRestOnEvidence ==
    /\ WorkflowsRestOnEvidence /\ VerdictsRestOnEvidence /\ RunsKeepTheirBudget
    /\ OrdersRestOnEvidence /\ BrainsRestOnEvidence /\ PlansKeepTheirBounds
=============================================================================
