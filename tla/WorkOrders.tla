----------------------------- MODULE WorkOrders -----------------------------
(***************************************************************************)
(* Governed work orders.  An order is enqueued against an evidence pack;   *)
(* workers lease orders in batches and take each one down its chain of     *)
(* command (CEO, director, specialist): a work session per level, the      *)
(* parent's session closed once the child's has started, one run of the    *)
(* language model under the leaf session, and the proposals of that run    *)
(* saved for a human to decide.  Operators act on the same sessions over   *)
(* HTTP, and every session update is a read, a check and a write of the    *)
(* whole record, with other actors' steps in between.                      *)
(*                                                                         *)
(* One account, one day.  An order that is leased is `processing`; its     *)
(* lease is cleared by every later update, and leaseWorkOrders never looks *)
(* at processing orders, so lease expiry changes nothing and is left out.  *)
(***************************************************************************)
EXTENDS Naturals, Sequences, FiniteSets

CONSTANTS
    Orders,        \* work orders that may be enqueued
    Workers,       \* worker processes
    Operators,     \* concurrent HTTP requests
    Depth,         \* Depth[o]: length of the chain of command of o's agent
    PackSuffices,  \* PackSuffices[o]: the pack has every kind o's contract requires
    Admission,     \* Admission[o][l]: what the preflight of level l makes of its session
    MaxAttempts,   \* maximumAttempts of every order
    BatchSize,     \* limit of one lease
    MaxProposals,  \* bound on the proposals of one answer
    DailyBudget,   \* dailyAccountBudgetMicrosUsd
    Estimate,      \* estimatedMaximumCostMicrosUsd of one run
    RunBudget,     \* budgetMicrosUsd of one run
    Costs,         \* actual costs the provider may report
    ManualControl, \* AGENT_MANUAL_CONTROL_ENABLED
    MaxIncidents   \* bound on crashes, failed calls and lost acknowledgements

Active == {"queued", "running", "waiting-evidence", "waiting-approval"}
SessionStatus == Active \union {"completed", "failed"}
OrderStatus == {"none", "queued", "processing", "waiting-evidence", "waiting-approval",
                "completed", "failed", "dead", "skipped"}

ASSUME ChainAssumption ==
    /\ Depth \in [Orders -> Nat \ {0}]
    /\ PackSuffices \in [Orders -> BOOLEAN]
    /\ \A o \in Orders :
         Admission[o] \in [1..Depth[o] ->
                             {"queued", "waiting-evidence", "waiting-approval", "deny"}]

ASSUME FiniteAssumption == IsFiniteSet(Orders) /\ IsFiniteSet(Workers) /\ IsFiniteSet(Operators)

ASSUME BudgetAssumption ==
    /\ MaxAttempts \in Nat \ {0} /\ BatchSize \in Nat \ {0} /\ MaxProposals \in Nat
    /\ DailyBudget \in Nat /\ Estimate \in Nat /\ RunBudget \in Nat
    /\ Costs \subseteq Nat /\ ManualControl \in BOOLEAN /\ MaxIncidents \in Nat

VARIABLES
    packs,      \* the evidence pack of each order
    orders,     \* agent_work_orders: status, attempts, and whether available_at has come
    sessions,   \* agent_work_sessions: the status of each level's session of each order
    workers,    \* where each worker is: its batch, step, level and what it holds
    operators,  \* what each request has read and is about to write
    spent,      \* sum of actual_cost_micros_usd of the day
    runs,       \* completed runs of the worker, per order
    proposals,  \* shadow_proposals: the run and the status of each, per order
    incidents   \* incidents so far

vars == <<packs, orders, sessions, workers, operators, spent, runs, proposals, incidents>>

Idle == [batch |-> <<>>, at |-> "idle", level |-> 1, seen |-> "none", left |-> 0]
Free == [op |-> "none", seen |-> "none"]
Steps == {"idle", "load", "create", "start", "started", "close", "closed", "budget", "call",
          "save", "complete", "completing", "finish", "undo", "undoing", "park", "fail"}

TypeOK ==
    /\ packs \in [Orders -> {"none", "incomplete", "usable", "expired"}]
    /\ orders \in [Orders -> [status: OrderStatus, attempts: 0..MaxAttempts, due: BOOLEAN]]
    /\ sessions \in [Orders -> UNION {[1..Depth[o] -> SessionStatus \union {"none"}] : o \in Orders}]
    /\ \A o \in Orders : sessions[o] \in [1..Depth[o] -> SessionStatus \union {"none"}]
    /\ workers \in [Workers ->
         [batch: Seq(Orders), at: Steps, level: Nat, seen: SessionStatus \union {"none"},
          left: 0..MaxProposals]]
    /\ \A w \in Workers :
         IF workers[w].at = "idle" THEN workers[w] = Idle
         ELSE workers[w].batch /= <<>> /\ workers[w].level \in 1..Depth[Head(workers[w].batch)]
    /\ operators \in [Operators ->
         [op: {"none", "call"}, seen: {"none", "running"}] \union
         [op: {"running", "completed", "failed"}, seen: Active, order: Orders, level: Nat]]
    /\ \A c \in Operators :
         operators[c].op \notin {"none", "call"} => operators[c].level \in 1..Depth[operators[c].order]
    /\ spent \in Nat /\ runs \in [Orders -> Nat] /\ incidents \in 0..MaxIncidents
    /\ proposals \in [Orders ->
         Seq([run: Nat, status: {"pending-approval", "approved", "rejected", "superseded"}])]

Init ==
    /\ packs = [o \in Orders |-> "none"]
    /\ orders = [o \in Orders |-> [status |-> "none", attempts |-> 0, due |-> TRUE]]
    /\ sessions = [o \in Orders |-> [l \in 1..Depth[o] |-> "none"]]
    /\ workers = [w \in Workers |-> Idle]
    /\ operators = [c \in Operators |-> Free]
    /\ spent = 0
    /\ runs = [o \in Orders |-> 0]
    /\ proposals = [o \in Orders |-> <<>>]
    /\ incidents = 0

Incident == incidents < MaxIncidents /\ incidents' = incidents + 1

-----------------------------------------------------------------------------
(* Evidence and enqueueing.                                                *)

BuildPack(o) ==
    /\ packs[o] = "none"
    /\ \E p \in {"incomplete", "usable"} : packs' = [packs EXCEPT ![o] = p]
    /\ UNCHANGED <<orders, sessions, workers, operators, spent, runs, proposals, incidents>>

PackExpires(o) ==
    /\ packs[o] = "usable"
    /\ packs' = [packs EXCEPT ![o] = "expired"]
    /\ UNCHANGED <<orders, sessions, workers, operators, spent, runs, proposals, incidents>>

\* A duplicate idempotency key returns the stored order and changes nothing.
Enqueue(o) ==
    /\ packs[o] = "usable"
    /\ orders[o].status = "none"
    /\ \E wakes \in BOOLEAN :
         orders' = [orders EXCEPT ![o].status =
                      CASE ~PackSuffices[o] -> "waiting-evidence"
                        [] PackSuffices[o] /\ wakes -> "queued"
                        [] OTHER -> "skipped"]
    /\ UNCHANGED <<packs, sessions, workers, operators, spent, runs, proposals, incidents>>

-----------------------------------------------------------------------------
(* The worker.                                                             *)

Order(w) == Head(workers[w].batch)
At(w, step) == workers[w].at = step
Leaf(w) == workers[w].level = Depth[Order(w)]
Goto(w, step) == workers' = [workers EXCEPT ![w].at = step]

\* Where an exception thrown at a step is caught: the run's own catch clause, or
\* processBatch's.
Rescue(step) ==
    IF step \in {"budget", "call", "save", "complete", "completing", "finish"}
    THEN "undo" ELSE "fail"

\* An awaited write: it returns, or it was committed and its answer is lost.
Awaited(w, step) ==
    \/ Goto(w, step) /\ UNCHANGED incidents
    \/ Incident /\ Goto(w, Rescue(workers[w].at))

\* processBatch takes the next order of its batch.
TakeNext(w) ==
    LET rest == Tail(workers[w].batch)
    IN workers' = [workers EXCEPT ![w] =
                     IF rest = <<>> THEN Idle ELSE [Idle EXCEPT !.batch = rest, !.at = "load"]]

\* FAULTY variant of Leasable: an order whose lease expired is taken from its holder.
LeasableOnExpiry(o) == orders[o].status \in {"queued", "failed", "processing"} /\ orders[o].due
Leasable(o) == orders[o].status \in {"queued", "failed"} /\ orders[o].due

Lease(w) ==
    /\ At(w, "idle")
    /\ LET ready == {o \in Orders : Leasable(o)}
           size == IF Cardinality(ready) < BatchSize THEN Cardinality(ready) ELSE BatchSize
       IN /\ size > 0
          /\ \E batch \in [1..size -> ready] :
               /\ \A i, j \in 1..size : batch[i] = batch[j] => i = j
               /\ orders' = [o \in Orders |->
                    IF \E i \in 1..size : batch[i] = o
                    THEN [orders[o] EXCEPT !.status = "processing", !.attempts = @ + 1]
                    ELSE orders[o]]
               /\ workers' = [workers EXCEPT ![w].batch = batch, ![w].at = "load"]
    /\ UNCHANGED <<packs, sessions, operators, spent, runs, proposals, incidents>>

\* The pack is read again; an expired one fails the attempt.
Load(w) ==
    /\ At(w, "load")
    /\ Goto(w, IF packs[Order(w)] = "usable" THEN "create" ELSE "fail")
    /\ UNCHANGED <<packs, orders, sessions, operators, spent, runs, proposals, incidents>>

ParentActive(o, l) == IF l = 1 THEN TRUE ELSE sessions[o][l - 1] \in Active

\* FAULTY variant of Existing: the idempotency key of a session is never looked up.
ExistingIgnored(o, l) == FALSE
Existing(o, l) == sessions[o][l] /= "none"

\* What createSession finds or makes decides whether the level can start.
Created(w, status) ==
    [workers EXCEPT ![w].seen = status, ![w].at = IF status = "queued" THEN "start" ELSE "park"]

\* createSession: the existing session, a denial or a dead parent, or a new one.
CreateSession(w) ==
    LET o == Order(w)
        l == workers[w].level
    IN /\ At(w, "create")
       /\ \/ /\ Existing(o, l)
             /\ workers' = Created(w, sessions[o][l])
             /\ UNCHANGED <<sessions, incidents>>
          \/ /\ ~Existing(o, l)
             /\ ~ParentActive(o, l) \/ Admission[o][l] = "deny"
             /\ Goto(w, "fail")
             /\ UNCHANGED <<sessions, incidents>>
          \/ /\ ~Existing(o, l)
             /\ ParentActive(o, l) /\ Admission[o][l] /= "deny"
             /\ sessions' = [sessions EXCEPT ![o][l] = Admission[o][l]]
             /\ \/ workers' = Created(w, Admission[o][l]) /\ UNCHANGED incidents
                \/ Incident /\ Goto(w, "fail")
       /\ UNCHANGED <<packs, orders, operators, spent, runs, proposals>>

\* A level that cannot start parks the order for good.
Park(w) ==
    /\ At(w, "park")
    /\ orders' = [orders EXCEPT ![Order(w)].status =
                    IF workers[w].seen = "waiting-evidence" THEN "waiting-evidence"
                    ELSE "waiting-approval"]
    /\ \/ TakeNext(w) /\ UNCHANGED incidents
       \/ Incident /\ Goto(w, "fail")
    /\ UNCHANGED <<packs, sessions, operators, spent, runs, proposals>>

\* FAULTY variant of MayBecome: a session may be started again whatever became of it.
MayRestart(status, next) ==
    CASE next = "running" -> status /= "none" [] OTHER -> status \in Active
\* The check each session update makes of the record it has just read.
MayBecome(status, next) ==
    CASE next = "running" -> status = "queued"
      [] next = "completed" -> status = "running"
      [] next = "failed" -> status \in Active

\* requireSession and the check of its status, then the write of the whole record.
ReadFor(w, l, next, granted, refused) ==
    /\ workers' = [workers EXCEPT
                     ![w].seen = sessions[Order(w)][l],
                     ![w].at = IF MayBecome(sessions[Order(w)][l], next) THEN granted ELSE refused]
    /\ UNCHANGED <<packs, orders, sessions, operators, spent, runs, proposals, incidents>>

WriteSession(w, l, next) ==
    /\ sessions' = [sessions EXCEPT ![Order(w)][l] = next]
    /\ UNCHANGED <<packs, orders, operators, spent, runs, proposals>>

StartSession(w) ==
    At(w, "start") /\ ReadFor(w, workers[w].level, "running", "started", "fail")

\* The next level of the chain, or the run of the leaf.
Descend(w) ==
    workers' = [workers EXCEPT ![w].level = IF Leaf(w) THEN @ ELSE @ + 1,
                               ![w].at = IF Leaf(w) THEN "budget" ELSE "create"]

\* The level runs: its parent, if it has one, is closed next.
SessionStarted(w) ==
    /\ At(w, "started")
    /\ WriteSession(w, workers[w].level, "running")
    /\ \/ workers[w].level > 1 /\ Awaited(w, "close")
       \/ workers[w].level = 1 /\ Descend(w) /\ UNCHANGED incidents
       \/ workers[w].level = 1 /\ Incident /\ Goto(w, "fail")

CloseParent(w) ==
    At(w, "close") /\ ReadFor(w, workers[w].level - 1, "completed", "closed", "fail")

ParentClosed(w) ==
    /\ At(w, "closed")
    /\ WriteSession(w, workers[w].level - 1, "completed")
    /\ \/ Descend(w) /\ UNCHANGED incidents
       \/ Incident /\ Goto(w, "fail")

\* FAULTY variant of WithinBudget: only the budget of the run is compared.
WithinRunBudget == Estimate <= RunBudget
WithinBudget == Estimate <= RunBudget /\ spent + Estimate <= DailyBudget

\* The budget is read and compared before the run is recorded and the provider called.
CheckBudget(w) ==
    /\ At(w, "budget")
    /\ Goto(w, IF WithinBudget THEN "call" ELSE "undo")
    /\ UNCHANGED <<packs, orders, sessions, operators, spent, runs, proposals, incidents>>

\* The provider's answer is recorded with its cost; a failed or oversized run costs
\* nothing on record.  An answer that cites evidence outside the pack fails the order.
Answer(w) ==
    /\ At(w, "call")
    /\ \/ \E cost \in Costs, left \in 0..MaxProposals, valid \in BOOLEAN :
            /\ cost <= RunBudget
            /\ spent' = spent + cost
            /\ runs' = [runs EXCEPT ![Order(w)] = @ + 1]
            /\ workers' = [workers EXCEPT ![w].left = left,
                                          ![w].at = IF valid THEN "save" ELSE "undo"]
       \/ Goto(w, "undo") /\ UNCHANGED <<spent, runs>>
    /\ UNCHANGED <<packs, orders, sessions, operators, proposals, incidents>>

SaveProposal(w) ==
    /\ At(w, "save")
    /\ \/ /\ workers[w].left > 0
          /\ proposals' = [proposals EXCEPT ![Order(w)] =
                             Append(@, [run |-> runs[Order(w)], status |-> "pending-approval"])]
          /\ \/ workers' = [workers EXCEPT ![w].left = @ - 1] /\ UNCHANGED incidents
             \/ Incident /\ Goto(w, "undo")
       \/ /\ workers[w].left = 0
          /\ Goto(w, "complete")
          /\ UNCHANGED <<proposals, incidents>>
    /\ UNCHANGED <<packs, orders, sessions, operators, spent, runs>>

CompleteLeaf(w) ==
    At(w, "complete") /\ ReadFor(w, workers[w].level, "completed", "completing", "undo")

LeafCompleted(w) ==
    At(w, "completing") /\ WriteSession(w, workers[w].level, "completed") /\ Awaited(w, "finish")

FinishOrder(w) ==
    /\ At(w, "finish")
    /\ orders' = [orders EXCEPT ![Order(w)].status = "completed"]
    /\ \/ TakeNext(w) /\ UNCHANGED incidents
       \/ Incident /\ Goto(w, "undo")
    /\ UNCHANGED <<packs, sessions, operators, spent, runs, proposals>>

\* The catch clause of the run: the leaf session is failed, if it still can be.
UndoRun(w) == At(w, "undo") /\ ReadFor(w, workers[w].level, "failed", "undoing", "fail")

RunUndone(w) ==
    At(w, "undoing") /\ WriteSession(w, workers[w].level, "failed")
                     /\ Goto(w, "fail") /\ UNCHANGED incidents

\* FAULTY variant of FailOrder: the lease is cleared and the status left alone.
FailKeepsStatus(w) ==
    /\ At(w, "fail")
    /\ orders' = [orders EXCEPT ![Order(w)].due = FALSE]
    /\ TakeNext(w)
    /\ UNCHANGED <<packs, sessions, operators, spent, runs, proposals, incidents>>
\* processBatch's catch clause: the attempt is failed, or the order is dead.
FailOrder(w) ==
    LET o == Order(w)
    IN /\ At(w, "fail")
       /\ orders' = [orders EXCEPT
                       ![o].status = IF orders[o].attempts >= MaxAttempts THEN "dead" ELSE "failed",
                       ![o].due = FALSE]
       /\ TakeNext(w)
       /\ UNCHANGED <<packs, sessions, operators, spent, runs, proposals, incidents>>

\* A call that never reached the database or the provider throws.
Throws(w) ==
    /\ workers[w].at \notin {"idle", "fail"}
    /\ Incident
    /\ Goto(w, Rescue(workers[w].at))
    /\ UNCHANGED <<packs, orders, sessions, operators, spent, runs, proposals>>

\* fail itself throws, or the process dies: the whole batch is left processing.
Abandon(w) ==
    /\ ~At(w, "idle")
    /\ Incident
    /\ workers' = [workers EXCEPT ![w] = Idle]
    /\ UNCHANGED <<packs, orders, sessions, operators, spent, runs, proposals>>

BackoffElapses(o) ==
    /\ orders[o].status = "failed" /\ ~orders[o].due
    /\ orders' = [orders EXCEPT ![o].due = TRUE]
    /\ UNCHANGED <<packs, sessions, workers, operators, spent, runs, proposals, incidents>>

-----------------------------------------------------------------------------
(* Operators.  Failing a session needs agents.manage; starting, completing *)
(* and beating it also need manual control.                                *)

\* A heartbeat writes the running record it has read.
Request(status, next) ==
    \/ next = "failed" /\ status \in Active
    \/ ManualControl /\ next = "running" /\ status \in {"queued", "running"}
    \/ ManualControl /\ next = "completed" /\ status = "running"

OperatorReads(c) ==
    /\ operators[c] = Free
    /\ \E o \in Orders : \E l \in 1..Depth[o] : \E next \in SessionStatus :
         /\ Request(sessions[o][l], next)
         /\ operators' = [operators EXCEPT ![c] =
                            [op |-> next, seen |-> sessions[o][l], order |-> o, level |-> l]]
    /\ UNCHANGED <<packs, orders, sessions, workers, spent, runs, proposals, incidents>>

OperatorWrites(c) ==
    /\ operators[c].op \notin {"none", "call"}
    /\ sessions' = [sessions EXCEPT ![operators[c].order][operators[c].level] = operators[c].op]
    /\ operators' = [operators EXCEPT ![c] = Free]
    /\ UNCHANGED <<packs, orders, workers, spent, runs, proposals, incidents>>

\* A shadow run under a running session goes through the same budget.
ShadowRun(c) ==
    /\ operators[c] = Free
    /\ \E o \in Orders : \E l \in 1..Depth[o] :
         /\ sessions[o][l] = "running"
         /\ WithinBudget
         /\ operators' = [operators EXCEPT ![c] = [op |-> "call", seen |-> "running"]]
    /\ UNCHANGED <<packs, orders, sessions, workers, spent, runs, proposals, incidents>>

ShadowAnswer(c) ==
    /\ operators[c].op = "call"
    /\ \/ \E cost \in Costs : cost <= RunBudget /\ spent' = spent + cost
       \/ UNCHANGED spent
    /\ operators' = [operators EXCEPT ![c] = Free]
    /\ UNCHANGED <<packs, orders, sessions, workers, runs, proposals, incidents>>

Undecided(proposal) == proposal.status = "pending-approval"

DecideProposal(o) ==
    /\ \E i \in DOMAIN proposals[o], status \in {"approved", "rejected", "superseded"} :
         /\ Undecided(proposals[o][i])
         /\ proposals' = [proposals EXCEPT ![o][i].status = status]
    /\ UNCHANGED <<packs, orders, sessions, workers, operators, spent, runs, incidents>>

-----------------------------------------------------------------------------
Process(w) ==
    \/ Load(w) \/ CreateSession(w) \/ Park(w)
    \/ StartSession(w) \/ SessionStarted(w) \/ CloseParent(w) \/ ParentClosed(w)
    \/ CheckBudget(w) \/ Answer(w) \/ SaveProposal(w)
    \/ CompleteLeaf(w) \/ LeafCompleted(w) \/ FinishOrder(w)
    \/ UndoRun(w) \/ RunUndone(w) \/ FailOrder(w)

Next ==
    \/ \E o \in Orders : BuildPack(o) \/ PackExpires(o) \/ Enqueue(o) \/ BackoffElapses(o)
                         \/ DecideProposal(o)
    \/ \E w \in Workers : Lease(w) \/ Process(w) \/ Throws(w) \/ Abandon(w)
    \/ \E c \in Operators : OperatorReads(c) \/ OperatorWrites(c) \/ ShadowRun(c)
                            \/ ShadowAnswer(c)

Spec == Init /\ [][Next]_vars

\* The worker loop never stops, its calls return, and backoffs end.
Fairness ==
    /\ \A w \in Workers : WF_vars(Lease(w) \/ Process(w))
    /\ \A o \in Orders : WF_vars(BackoffElapses(o))

FairSpec == Spec /\ Fairness

-----------------------------------------------------------------------------
(* Properties.                                                             *)

Handled(w, o) == \E i \in DOMAIN workers[w].batch : workers[w].batch[i] = o

\* An order is in the batch of at most one worker, and only while it is processing:
\* it is never leased from under its holder, however late that holder is.
OneHolder ==
    \A o \in Orders :
        /\ \A v, w \in Workers : Handled(v, o) /\ Handled(w, o) => v = w
        /\ \A w \in Workers : Handled(w, o) /\ ~At(w, "undo") /\ ~At(w, "undoing") /\ ~At(w, "fail")
                              => orders[o].status = "processing"

\* Retries, lost acknowledgements and crashes included, an order is answered by the
\* model at most once, and every proposal it leaves for a human is of that answer.
AnsweredOnce ==
    \A o \in Orders :
        /\ runs[o] <= 1
        /\ \A i \in DOMAIN proposals[o] : proposals[o][i].run = runs[o]

\* Calls that may be under way at once: one per order held and one per request.
Callers ==
    Cardinality(Operators)
    + IF Cardinality(Orders) < Cardinality(Workers) THEN Cardinality(Orders)
      ELSE Cardinality(Workers)

\* The recorded spend of a day exceeds the daily budget by no more than what the
\* calls that read the same total may cost together beyond the one estimate.
SpendBounded == spent > 0 => spent <= DailyBudget - Estimate + Callers * RunBudget

\* A closed session is reopened, or closed another way, only by a writer who read it
\* before it was closed: a retry, a close or a cancel that starts afterwards never does.
Writers(o, l) ==
    {workers[w].seen : w \in {v \in Workers : /\ workers[v].at \in {"started", "closed", "completing", "undoing"}
                                              /\ Order(v) = o}}
    \union {operators[c].seen : c \in {d \in Operators : /\ operators[d].op \notin {"none", "call"}
                                                         /\ operators[d].order = o
                                                         /\ operators[d].level = l}}
ReopenedOnlyByOverlap ==
    [][\A o \in Orders : \A l \in 1..Depth[o] :
        sessions[o][l] \in {"completed", "failed"} /\ sessions'[o][l] /= sessions[o][l]
            => Writers(o, l) \intersect Active /= {}]_vars

Stranded(o) ==
    incidents > 0 /\ orders[o].status = "processing" /\ \A w \in Workers : ~Handled(w, o)
Unsettled(o) == orders[o].status \in {"queued", "processing", "failed"}

\* Every order that is queued is completed, parked or dead in the end, however often
\* its runs fail, unless the worker that held it was lost.
EveryOrderSettles == \A o \in Orders : Unsettled(o) ~> ~Unsettled(o) \/ Stranded(o)

=============================================================================
