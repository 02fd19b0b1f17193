--------------------------- MODULE CompanyCatalog ---------------------------
(***************************************************************************)
(* The catalog of agents: one CEO, seven directors, the specialists under  *)
(* them and the skills they use, as the source lists them; the planner     *)
(* that turns an objective into tasks for them; and the chain of command a *)
(* governed work order is delegated along.  Labels, missions, versions and *)
(* outputs are left out: nothing depends on them.                          *)
(***************************************************************************)
EXTENDS AgentPolicy, FiniteSets, FiniteSetsExt

Skill(id, allowed, forbidden, required, approval) ==
    [id |-> id, allowed |-> allowed, forbidden |-> forbidden \union GlobalForbidden,
     required |-> required, approval |-> approval]

Specialist(id, parent, allowed, required, skills, risk) ==
    [id |-> id, level |-> "specialist", parent |-> parent, allowed |-> allowed,
     required |-> required, skills |-> skills, risk |-> risk, iterations |-> 4,
     budget |-> 10000, active |-> TRUE]

Director(id) ==
    [id |-> id, level |-> "director", parent |-> "ceo",
     allowed |-> <<"plan.create", "evidence.request", "proposal.create", "brief.create">>,
     required |-> {"account-state", "policy-version"},
     skills |-> {"evidence-analysis", "governance-review"}, risk |-> "high",
     iterations |-> 5, budget |-> 25000, active |-> TRUE]

Ceo ==
    [id |-> "ceo", level |-> "ceo", parent |-> "",
     allowed |-> <<"plan.create", "work-order.create", "evidence.request", "brief.create">>,
     required |-> {"company-state", "policy-version"},
     skills |-> {"evidence-analysis", "governance-review"}, risk |-> "critical",
     iterations |-> 5, budget |-> 100000, active |-> TRUE]

-----------------------------------------------------------------------------
(* Skills.                                                                 *)

AnalysisSkills ==
    { Skill("evidence-analysis", {"evidence.read", "evidence.package"}, {},
            {"source-provenance"}, FALSE),
      Skill("economic-truth", {"economics.read", "economics.recompute", "proposal.create"}, {"economics.estimate-missing"},
            {"order-snapshot", "cost-evidence"}, TRUE),
      Skill("portfolio-analysis", {"portfolio.read", "proposal.create"}, {"listing.write"},
            {"listing-snapshot", "economic-snapshot"}, FALSE),
      Skill("catalog-research", {"catalog.read", "research.read", "proposal.create"}, {"listing.write", "supplier.purchase"},
            {"product-source", "market-evidence"}, FALSE),
      Skill("supplier-analysis", {"supplier.read", "inventory.read", "proposal.create"}, {"supplier.purchase", "inventory.write"},
            {"supplier-evidence", "inventory-snapshot"}, TRUE),
      Skill("customer-operations", {"orders.read", "questions.read", "claims.read", "proposal.create"}, {"question.reply", "claim.intervene", "order.cancel"},
            {"customer-operation-snapshot"}, TRUE),
      Skill("content-production", {"content.read", "content.draft", "proposal.create"}, {"content.publish"},
            {"product-evidence", "brand-policy"}, TRUE) }

GrowthSkills ==
    { Skill("product-launch", {"catalog.read", "content.draft", "economics.read", "proposal.create"}, {"listing.write"},
            {"product-identity", "economic-snapshot", "content-assets"}, TRUE),
      Skill("ads-analysis", {"ads.read", "economics.read", "proposal.create"}, {"ads.write", "budget.spend"},
            {"ads-snapshot", "economic-snapshot"}, TRUE),
      Skill("web-channel", {"web.read", "web.plan", "proposal.create"}, {"web.deploy", "web.write"},
            {"web-health", "catalog-snapshot"}, TRUE) }

GovernanceSkills ==
    { Skill("governance-review", {"policy.read", "receipts.read", "review.create"}, {"action.execute", "review-own-proposal"},
            {"policy-version", "receipt-chain"}, TRUE),
      Skill("memory-learning", {"memory.read", "memory.propose", "outcomes.read"}, {"memory-operational-write", "autonomy.promote"},
            {"verified-outcome"}, TRUE),
      Skill("research", {"research.read", "evidence.package"}, {"action.execute"},
            {"research-question"}, FALSE),
      Skill("experimentation", {"experiment.plan", "outcomes.read", "proposal.create"}, {"experiment.activate", "experiment.rollback"},
            {"baseline-evidence", "success-criteria"}, TRUE) }

Skills == AnalysisSkills \union GrowthSkills \union GovernanceSkills

-----------------------------------------------------------------------------
(* Specialists, by department.                                             *)

FinanceSpecialists ==
    { Specialist("economic-ingestion", "finance-director",
                 <<"orders.read", "economics.read">>,
                 {"order-snapshot", "cost-evidence"}, {"evidence-analysis", "economic-truth"}, "high"),
      Specialist("unit-economics", "finance-director",
                 <<"economics.read", "portfolio.read", "proposal.create">>,
                 {"economic-snapshot"}, {"economic-truth"}, "high"),
      Specialist("pricing", "finance-director",
                 <<"economics.read", "catalog.read", "proposal.create">>,
                 {"economic-snapshot", "market-evidence"}, {"economic-truth", "catalog-research"}, "high"),
      Specialist("ads-profitability", "finance-director",
                 <<"ads.read", "economics.read", "proposal.create">>,
                 {"ads-snapshot", "economic-snapshot"}, {"ads-analysis", "economic-truth"}, "high") }

PortfolioSpecialists ==
    { Specialist("analytics", "portfolio-director",
                 <<"analytics.read", "portfolio.read">>,
                 {"analytics-snapshot"}, {"evidence-analysis", "portfolio-analysis"}, "low"),
      Specialist("catalog", "portfolio-director",
                 <<"catalog.read", "proposal.create">>,
                 {"listing-snapshot"}, {"catalog-research"}, "medium"),
      Specialist("product-research", "portfolio-director",
                 <<"research.read", "catalog.read", "proposal.create">>,
                 {"market-evidence", "supplier-evidence"}, {"catalog-research", "research"}, "medium"),
      Specialist("listing-retread", "portfolio-director",
                 <<"catalog.read", "analytics.read", "content.read", "proposal.create">>,
                 {"listing-snapshot", "analytics-snapshot"}, {"portfolio-analysis", "content-production"}, "medium") }

SupplySpecialists ==
    { Specialist("supplier-manager", "supply-director",
                 <<"supplier.read", "proposal.create">>,
                 {"supplier-evidence"}, {"supplier-analysis"}, "high"),
      Specialist("inventory-forecast", "supply-director",
                 <<"inventory.read", "orders.read", "proposal.create">>,
                 {"inventory-snapshot", "order-snapshot"}, {"supplier-analysis", "evidence-analysis"}, "high"),
      Specialist("acquisition-imports", "supply-director",
                 <<"supplier.read", "economics.read", "proposal.create">>,
                 {"supplier-evidence", "landed-cost-evidence"}, {"supplier-analysis", "economic-truth"}, "critical") }

OperationsSpecialists ==
    { Specialist("sales-service", "operations-director",
                 <<"orders.read", "questions.read", "proposal.create">>,
                 {"customer-operation-snapshot"}, {"customer-operations"}, "high"),
      Specialist("claims-reputation", "operations-director",
                 <<"claims.read", "reputation.read", "proposal.create">>,
                 {"customer-operation-snapshot"}, {"customer-operations"}, "critical"),
      Specialist("shipping-logistics", "operations-director",
                 <<"shipping.read", "orders.read", "proposal.create">>,
                 {"shipment-snapshot"}, {"customer-operations", "evidence-analysis"}, "high") }

GrowthSpecialists ==
    { Specialist("product-recognition", "growth-director",
                 <<"content.read", "catalog.read", "research.read">>,
                 {"source-image", "market-evidence"}, {"catalog-research"}, "medium"),
      Specialist("product-launch", "growth-director",
                 <<"catalog.read", "content.draft", "economics.read", "proposal.create">>,
                 {"product-identity", "economic-snapshot", "content-assets"}, {"product-launch"}, "high"),
      Specialist("creative-studio", "growth-director",
                 <<"content.read", "content.draft">>,
                 {"product-evidence", "brand-policy"}, {"content-production"}, "medium"),
      Specialist("image-production", "growth-director",
                 <<"content.read", "content.draft">>,
                 {"source-image", "brand-policy"}, {"content-production"}, "medium"),
      Specialist("video-production", "growth-director",
                 <<"content.read", "content.draft">>,
                 {"product-evidence", "brand-policy"}, {"content-production"}, "medium"),
      Specialist("copy-social", "growth-director",
                 <<"content.read", "content.draft">>,
                 {"product-evidence", "brand-policy"}, {"content-production"}, "medium"),
      Specialist("product-ads", "growth-director",
                 <<"ads.read", "economics.read", "proposal.create">>,
                 {"ads-snapshot", "economic-snapshot"}, {"ads-analysis"}, "high") }

ExpansionSpecialists ==
    { Specialist("owned-ecommerce", "expansion-director",
                 <<"web.read", "catalog.read", "proposal.create">>,
                 {"web-health", "catalog-snapshot"}, {"web-channel"}, "high"),
      Specialist("marketplace-expansion", "expansion-director",
                 <<"research.read", "economics.read", "proposal.create">>,
                 {"market-evidence", "economic-snapshot"}, {"research", "economic-truth"}, "critical") }

GovernanceSpecialists ==
    { Specialist("memory-learning", "governance-director",
                 <<"memory.read", "outcomes.read", "memory.propose">>,
                 {"verified-outcome"}, {"memory-learning"}, "high"),
      Specialist("research", "governance-director",
                 <<"research.read", "evidence.package">>,
                 {"research-question"}, {"research", "evidence-analysis"}, "medium"),
      Specialist("experimentation", "governance-director",
                 <<"experiment.plan", "outcomes.read", "proposal.create">>,
                 {"baseline-evidence", "success-criteria"}, {"experimentation"}, "high"),
      Specialist("risk-compliance", "governance-director",
                 <<"policy.read", "receipts.read", "review.create">>,
                 {"policy-version", "receipt-chain"}, {"governance-review"}, "critical"),
      Specialist("critic-auditor", "governance-director",
                 <<"evidence.read", "review.create">>,
                 {"proposal-hash", "evidence-bundle"}, {"governance-review", "evidence-analysis"}, "critical"),
      Specialist("agent-evaluator", "governance-director",
                 <<"scorecards.read", "outcomes.read", "receipts.read">>,
                 {"verified-outcome", "receipt-chain"}, {"governance-review"}, "critical") }

Directors ==
    { Director(id) : id \in
        {"finance-director", "portfolio-director", "supply-director", "operations-director",
         "growth-director", "expansion-director", "governance-director"} }

Catalog ==
    {Ceo} \union Directors \union FinanceSpecialists \union PortfolioSpecialists
    \union SupplySpecialists \union OperationsSpecialists \union GrowthSpecialists
    \union ExpansionSpecialists \union GovernanceSpecialists

SkillsOf(contract) == {s \in Skills : s.id \in contract.skills}
Contract(id) == CHOOSE c \in Catalog : c.id = id

\* What the module asserts of the catalog when it is loaded.
ValidHierarchy(contracts) ==
    /\ Cardinality({c \in contracts : c.level = "ceo"}) = 1
    /\ \A c \in contracts :
        /\ c.iterations >= 1 /\ c.budget >= 0
        /\ (c.level = "ceo") <=> (c.parent = "")
        /\ c.level /= "ceo" =>
             \E p \in contracts :
                /\ p.id = c.parent
                /\ p.level = (IF c.level = "director" THEN "ceo" ELSE "director")

-----------------------------------------------------------------------------
(* The chain of command of a work order, from the CEO down to its agent,   *)
(* and the capability each level asks its preflight for.                   *)

ContractChain(id) ==
    LET leaf == Contract(id)
    IN CASE leaf.level = "ceo" -> <<leaf>>
         [] leaf.level = "director" -> <<Contract(leaf.parent), leaf>>
         [] leaf.level = "specialist" ->
              <<Contract(Contract(leaf.parent).parent), Contract(leaf.parent), leaf>>

DelegationCapability(contract) ==
    CASE contract.level = "ceo" -> "work-order.create"
      [] contract.level = "director" -> "plan.create"

\* An order that names no capability gets the first preferred one its agent has; the
\* processor throws before it asks for one that the contract does not list.
ResolveCapability(requested, contract) ==
    LET preferred == <<"proposal.create", "brief.create", "evidence.request">>
        selected == SelectInSeq(preferred, LAMBDA c : c \in ToSet(contract.allowed))
    IN CASE requested /= "" -> requested
         [] requested = "" /\ selected > 0 -> preferred[selected]
         [] OTHER -> Head(contract.allowed)

\* The kinds every governed order claims to have besides those of its pack.
ProcessorKinds ==
    {"company-state", "account-state", "policy-version", "receipt-chain", "source-provenance"}

\* The kinds of document the wired reader can put in a pack, by subject.
ReaderKinds(subject) ==
    CASE subject = "catalog" -> {"listing-snapshot"}
      [] subject = "customer" -> {"claim-snapshot", "question-snapshot"}
      [] subject = "commercial" -> {"order-snapshot"}
      [] subject = "reputation" -> {"reputation-snapshot"}
      [] subject = "content" -> {"content-asset"}
      [] subject = "economic" -> {"economic-snapshot"}
      [] subject = "system" -> {"receipt-chain"}

\* The status enqueue gives an order before it looks at the signals.
EnqueueKindsMissing(id, packKinds) == Contract(id).required \ packKinds

\* The preflight the processor runs for one level of the chain.
GovernedRequest(contract, leafId, capability, packKinds, budget) ==
    [action |-> IF contract.id = leafId THEN ResolveCapability(capability, contract)
                ELSE DelegationCapability(contract),
     available |-> ProcessorKinds \union packKinds,
     autonomy |-> "inform", depth |-> DepthFor(contract.level),
     requested |-> IF budget < contract.budget THEN budget ELSE contract.budget,
     spent |-> 0, policy |-> TRUE]

GovernedVerdict(contract, leafId, capability, packKinds, budget) ==
    Preflight(contract, SkillsOf(contract),
              GovernedRequest(contract, leafId, capability, packKinds, budget))

GovernedMissing(contract, packKinds) ==
    MissingKinds(contract, SkillsOf(contract), ProcessorKinds \union packKinds)

-----------------------------------------------------------------------------
(* The planner.  An objective is the number of keywords of each agent it   *)
(* contains; ties are broken by name.                                      *)

Alphabetical ==
    <<"acquisition-imports", "ads-profitability", "agent-evaluator", "analytics", "catalog",
      "claims-reputation", "copy-social", "creative-studio", "critic-auditor",
      "economic-ingestion", "expansion-director", "experimentation", "finance-director",
      "governance-director", "growth-director", "image-production", "inventory-forecast",
      "listing-retread", "marketplace-expansion", "memory-learning", "operations-director",
      "owned-ecommerce", "portfolio-director", "pricing", "product-ads", "product-launch",
      "product-recognition", "product-research", "research", "risk-compliance",
      "sales-service", "shipping-logistics", "supplier-manager", "supply-director",
      "unit-economics", "video-production">>

Name(id) == CHOOSE i \in DOMAIN Alphabetical : Alphabetical[i] = id

\* The elements of S in the order of Before, a strict total order on S: the i-th is the one
\* that i - 1 others come before.
InOrder(S, Before(_, _)) ==
    [i \in 1..Cardinality(S) |-> CHOOSE x \in S : Cardinality({y \in S : Before(y, x)}) = i - 1]

\* The contracts that the objective names, the best first.
ScoreContracts(contracts, score) ==
    InOrder({c \in contracts : score[c.id] > 0},
            LAMBDA a, b : \/ score[a.id] > score[b.id]
                          \/ score[a.id] = score[b.id] /\ Name(a.id) < Name(b.id))

\* At least one task, at most five.
TaskLimit(maximumTasks) ==
    CASE maximumTasks > 5 -> 5 [] maximumTasks < 1 -> 1 [] OTHER -> maximumTasks

Priority(index, score) ==
    CASE index = 1 -> "high" [] index > 1 /\ score >= 2 -> "medium" [] OTHER -> "low"

\* The first capability that only reads, plans or packages, or else the first.
ReadOnly == {"evidence.read", "orders.read", "economics.read", "catalog.read", "portfolio.read",
             "research.read", "ads.read", "analytics.read", "content.read", "supplier.read",
             "inventory.read", "questions.read", "claims.read", "reputation.read",
             "shipping.read", "web.read", "memory.read", "outcomes.read", "policy.read",
             "receipts.read", "scorecards.read", "experiment.plan", "web.plan",
             "evidence.package", "proposal.create"}

SelectReadOnlyAction(contract) ==
    LET first == SelectInSeq(contract.allowed, LAMBDA c : c \in ReadOnly)
    IN contract.allowed[IF first > 0 THEN first ELSE 1]

RequiresApproval(contract) == TRUE \* every contract's default autonomy is "ask"

Share(chosen, budget) == (IF budget > 0 THEN budget ELSE 0) \div Len(chosen)

\* A director is asked for a plan of its own.
TaskAction(contract) ==
    IF contract.level = "director" THEN "plan.create" ELSE SelectReadOnlyAction(contract)

Tasks(chosen, score, budget) ==
    [i \in DOMAIN chosen |->
        [agent |-> chosen[i].id, action |-> TaskAction(chosen[i]),
         priority |-> Priority(i, score[chosen[i].id]),
         approval |-> RequiresApproval(chosen[i]),
         budget |-> Share(chosen, budget)]]

\* Confidence in hundredths.
Confidence(chosen, score) ==
    LET total == MapThenSumSet(LAMBDA i : score[chosen[i].id], DOMAIN chosen)
        estimate == 55 + (200 * total + total + 10) \div (2 * (total + 10))
    IN CASE total = 0 -> 0 [] total > 0 /\ estimate > 99 -> 99 [] OTHER -> estimate

PlanFor(contracts, score, limit, budget) ==
    LET ranked == ScoreContracts(contracts, score)
        chosen == SubSeq(ranked, 1, Min({TaskLimit(limit), Len(ranked)}))
    IN [tasks |-> Tasks(chosen, score, budget), clarify |-> chosen = <<>>,
        confidence |-> Confidence(chosen, score)]

PlanCompanyObjective(score, limit, budget) ==
    PlanFor(Directors, score, limit, budget)

Department(director) == {c \in Catalog : c.level = "specialist" /\ c.parent = director}

PlanDepartmentObjective(director, score, limit, budget) ==
    PlanFor(Department(director), score, limit, budget)
=============================================================================
