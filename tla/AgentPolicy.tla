---------------------------- MODULE AgentPolicy ----------------------------
(***************************************************************************)
(* The pure decisions that govern the agents: what a role contract lets an *)
(* agent do (preflight), when signals are worth a run (wake), which model  *)
(* a task goes to and what it may cost.  They are functions in the code    *)
(* and operators here; the other modules call them where the services do.  *)
(*                                                                         *)
(* A contract is a record [id, level, parent, allowed, required, skills,   *)
(* risk, iterations, budget, active]: `allowed` is a sequence, since the   *)
(* code takes its first element, the other collections are sets.  A skill  *)
(* is [allowed, forbidden, required, approval].                            *)
(***************************************************************************)
EXTENDS Integers, Sequences, SequencesExt

\* Capabilities no contract and no skill may ever use.
GlobalForbidden ==
    {"marketplace.write-unapproved", "money.transfer", "credential.read",
     "policy.bypass", "evidence.fabricate", "memory-as-operational-truth"}

DepthFor(level) ==
    CASE level = "ceo" -> 0 [] level = "director" -> 1 [] level = "specialist" -> 2

-----------------------------------------------------------------------------
(* Preflight.                                                              *)

RequiredKinds(contract, skills) ==
    contract.required \union UNION {s.required : s \in skills}

AllowedCapabilities(contract, skills) ==
    ToSet(contract.allowed) \union UNION {s.allowed : s \in skills}

ForbiddenCapabilities(contract, skills) ==
    GlobalForbidden \union UNION {s.forbidden : s \in skills}

MissingKinds(contract, skills, available) ==
    RequiredKinds(contract, skills) \ available

ActionAllowed(contract, skills, action) ==
    /\ action \in AllowedCapabilities(contract, skills)
    /\ action \notin ForbiddenCapabilities(contract, skills)

BudgetAllowed(contract, requested, spent) ==
    /\ requested >= 0
    /\ spent + requested <= contract.budget

\* One contract's verdict on one request [action, available, autonomy, depth,
\* requested, spent, policy].
Preflight(contract, skills, r) ==
    LET hardDenied ==
            \/ ~contract.active
            \/ ~ActionAllowed(contract, skills, r.action)
            \/ ~r.policy
            \/ ~BudgetAllowed(contract, r.requested, r.spent)
            \/ r.depth /= DepthFor(contract.level)
        mustAsk ==
            \/ MissingKinds(contract, skills, r.available) /= {}
            \/ r.autonomy = "ask" /\ r.action /= "evidence.request"
            \/ /\ r.autonomy = "autonomous"
               /\ contract.risk = "critical" \/ \E s \in skills : s.approval
    IN CASE hardDenied -> "deny"
         [] ~hardDenied /\ mustAsk -> "ask"
         [] OTHER -> "allow"

\* The status a session is created with once its preflight is not a denial.
SessionStatusFor(verdict, missing) ==
    CASE verdict = "allow" -> "queued"
      [] verdict = "ask" /\ missing /= {} -> "waiting-evidence"
      [] verdict = "ask" /\ missing = {} -> "waiting-approval"

-----------------------------------------------------------------------------
(* Waking.  A wake request is [signals, previous, cooling, utility,        *)
(* manual]: the signals stand for their own hash, which leaves out when    *)
(* they were observed.                                                     *)

DecideWake(w) ==
    CASE w.manual -> "manual"
      [] ~w.manual /\ w.cooling -> "cooldown"
      [] ~w.manual /\ ~w.cooling /\ w.previous = w.signals -> "unchanged"
      [] ~w.manual /\ ~w.cooling /\ w.previous /= w.signals /\ w.utility <= 0
             -> "negative-utility"
      [] OTHER -> "new-signals"

Wakes(reason) == reason \in {"manual", "new-signals"}

-----------------------------------------------------------------------------
(* Models and money.  Token prices are micro-dollars per million tokens.   *)

FlashTasks == {"classification", "extraction", "summarization"}
ProTasks == {"planning", "analysis", "critical-review"}

RouteLlmModel(task) ==
    CASE task \in FlashTasks -> "deepseek-v4-flash"
      [] task \in ProTasks -> "deepseek-v4-pro"

Pricing(model) ==
    CASE model = "deepseek-v4-flash" -> [hit |-> 2800, miss |-> 140000, output |-> 280000]
      [] model = "deepseek-v4-pro" -> [hit |-> 3625, miss |-> 435000, output |-> 870000]

\* Rounded up, in micro-dollars; `unit` is the number of tokens a price is for.
ModelCost(price, usage, unit) ==
    LET total == usage.hit * price.hit + usage.miss * price.miss + usage.output * price.output
    IN -((-total) \div unit)

MaximumCost(price, promptTokens, outputTokens, unit) ==
    ModelCost(price, [hit |-> 0, miss |-> promptTokens, output |-> outputTokens], unit)

\* A provider's usage is refused unless its parts add up.
ValidUsage(u) == u.hit + u.miss = u.prompt
=============================================================================
