-------------------------- MODULE WorkOrdersProofs --------------------------
(***************************************************************************)
(* Theorems about WorkOrders, for every finite set of orders, workers and  *)
(* operators, any chains of command, evidence and budgets, and any number  *)
(* of incidents.                                                           *)
(***************************************************************************)
EXTENDS WorkOrders, SequenceTheorems, FiniteSetTheorems, TLAPS

-----------------------------------------------------------------------------
(* The inductive invariant.                                                *)

Chains == UNION {[1..Depth[o] -> SessionStatus \union {"none"}] : o \in Orders}
OrderRows == [status: OrderStatus, attempts: 0..MaxAttempts, due: BOOLEAN]
Written == [run: Nat, status: {"pending-approval", "approved", "rejected", "superseded"}]
WorkerStates ==
    [batch: Seq(Orders), at: Steps, level: Nat, seen: SessionStatus \union {"none"},
     left: 0..MaxProposals]

\* Steps at which the order a worker holds may have been settled already by a write whose
\* answer was lost.
Rescued == {"undo", "undoing", "fail"}
Settling == {"processing", "completed", "waiting-evidence", "waiting-approval"}

\* What a worker holds was leased to it alone and is still processing.
Holds(w) ==
    \A i \in DOMAIN workers[w].batch :
        LET status == orders[workers[w].batch[i]].status
        IN status = "processing" \/ (i = 1 /\ workers[w].at \in Rescued /\ status \in Settling)

Apart ==
    \A v, w \in Workers : \A i \in DOMAIN workers[v].batch : \A j \in DOMAIN workers[w].batch :
        workers[v].batch[i] = workers[w].batch[j] => v = w /\ i = j

HolderInv ==
    /\ \A w \in Workers : Holds(w)
    /\ Apart
    /\ \A o \in Orders : orders[o].status \in {"none", "queued", "failed"} =>
         orders[o].attempts < MaxAttempts

\* The leaf session of an order has left the status it can be started from.
Begun(o) == sessions[o][Depth[o]] \notin {"none", "queued"}

\* An answer that is recorded was asked for under a leaf session that had been started,
\* and all the proposals of the order are of it.
Accounted(o) ==
    /\ runs[o] \in {0, 1}
    /\ runs[o] = 1 => Begun(o)
    /\ runs[o] = 0 => proposals[o] = <<>>
    /\ \A i \in DOMAIN proposals[o] : proposals[o][i].run = runs[o]

\* A worker on its way to the model works for an order that is not answered yet.
OnItsWay(step, level, seen, o) ==
    /\ step \in {"close", "closed"} => level > 1
    /\ step \in {"budget", "call"} => level = Depth[o]
    /\ step = "started" /\ level = Depth[o] => runs[o] = 0
    /\ step \in {"close", "closed", "budget", "call"} /\ level = Depth[o] => runs[o] = 0 /\ Begun(o)
    /\ step = "save" => runs[o] = 1
    /\ step \in {"started", "closed", "completing", "undoing"} => seen \in Active

AnsweredInv ==
    /\ \A o \in Orders : Accounted(o)
    /\ \A w \in Workers : workers[w].at /= "idle" =>
         OnItsWay(workers[w].at, workers[w].level, workers[w].seen, Order(w))

OrdersInv == TypeOK /\ HolderInv /\ AnsweredInv

\* The calls under way, at the worker and under an operator's shadow run.
Calling == {w \in Workers : workers[w].at = "call"}
Asking == {c \in Operators : operators[c].op = "call"}
Calls == Cardinality(Calling) + Cardinality(Asking)

\* What is spent and what the calls under way may still cost stay within the bound.
SpendInv ==
    \/ spent = 0 /\ Calling = {} /\ Asking = {}
    \/ spent + Calls * RunBudget <= DailyBudget - Estimate + Callers * RunBudget

-----------------------------------------------------------------------------
(* Types.                                                                  *)

LEMMA Types ==
    ASSUME TypeOK
    PROVE  /\ orders \in [Orders -> OrderRows] /\ workers \in [Workers -> WorkerStates]
           /\ sessions \in [Orders -> Chains] /\ proposals \in [Orders -> Seq(Written)]
           /\ \A o \in Orders : sessions[o] \in [1..Depth[o] -> SessionStatus \union {"none"}]
           /\ runs \in [Orders -> Nat] /\ spent \in Nat /\ incidents \in 0..MaxIncidents
BY DEF TypeOK, OrderRows, WorkerStates, Chains, Written

LEMMA DepthType == \A o \in Orders : Depth[o] \in Nat \ {0} /\ 1 \in 1..Depth[o] /\ Depth[o] \in 1..Depth[o]
BY ChainAssumption

\* What a worker that is at work holds.
LEMMA OrderAtWork ==
    ASSUME TypeOK, NEW w \in Workers, workers[w].at /= "idle"
    PROVE  /\ workers[w].batch \in Seq(Orders) /\ workers[w].batch /= <<>>
           /\ 1 \in DOMAIN workers[w].batch
           /\ Order(w) = workers[w].batch[1] /\ Order(w) \in Orders
           /\ workers[w].level \in 1..Depth[Order(w)]
<1>1. /\ workers[w].batch \in Seq(Orders) /\ workers[w].batch /= <<>>
      /\ workers[w].level \in 1..Depth[Order(w)]
  BY DEF TypeOK, Order
<1> DEFINE batch == workers[w].batch
<1>2. /\ 1 \in DOMAIN batch /\ Head(batch) = batch[1] /\ batch[1] \in Orders
  <2>1. batch \in Seq(Orders) /\ batch /= <<>>
    BY <1>1
  <2> HIDE DEF batch
  <2> QED BY <2>1
<1> QED BY <1>1, <1>2 DEF Order

LEMMA InBatch ==
    ASSUME TypeOK, NEW w \in Workers, NEW i \in DOMAIN workers[w].batch
    PROVE  workers[w].batch[i] \in Orders /\ workers[w].at /= "idle"
<1> DEFINE batch == workers[w].batch
<1>1. batch \in Seq(Orders) /\ i \in DOMAIN batch
  BY DEF TypeOK
<1>2. batch[i] \in Orders
  <2> HIDE DEF batch
  <2> QED BY <1>1
<1>3. workers[w].at = "idle" => batch = <<>>
  BY DEF TypeOK, Idle
<1> QED BY <1>2, <1>3

LEMMA InitOrders ==
    ASSUME Init
    PROVE  OrdersInv /\ SpendInv
<1>1. TypeOK
  <2>1. \A o \in Orders : [l \in 1..Depth[o] |-> "none"] \in [1..Depth[o] -> SessionStatus \union {"none"}]
    OBVIOUS
  <2>2. sessions \in [Orders -> Chains]
    BY <2>1 DEF Init, Chains
  <2>3. \A o \in Orders : sessions[o] \in [1..Depth[o] -> SessionStatus \union {"none"}]
    BY <2>1 DEF Init
  <2>4. workers \in [Workers -> WorkerStates] /\ \A w \in Workers : workers[w] = Idle
    BY BudgetAssumption DEF Init, WorkerStates, Idle, Steps
  <2>5. orders \in [Orders -> OrderRows]
    BY BudgetAssumption DEF Init, OrderRows, OrderStatus
  <2> QED BY <2>2, <2>3, <2>4, <2>5, BudgetAssumption
          DEF Init, TypeOK, Chains, WorkerStates, OrderRows, Free, Idle, Active, SessionStatus
<1>2. HolderInv
  BY BudgetAssumption DEF Init, HolderInv, Holds, Apart, Idle
<1>3. AnsweredInv
  BY DEF Init, AnsweredInv, Accounted, Begun, Idle
<1>4. SpendInv
  BY DEF Init, SpendInv, Calling, Asking, Idle, Free
<1> QED BY <1>1, <1>2, <1>3, <1>4 DEF OrdersInv

-----------------------------------------------------------------------------
(* Steps of a worker that keep its batch.                                  *)

LEMMA Moved ==
    ASSUME OrdersInv, NEW w \in Workers, NEW o \in Orders, o = Order(w), workers[w].at /= "idle",
           NEW new \in WorkerStates, workers' = [workers EXCEPT ![w] = new],
           new.batch = workers[w].batch, new.at /= "idle", new.level \in 1..Depth[o],
           UNCHANGED <<packs, operators>>, incidents' \in 0..MaxIncidents, spent' \in Nat,
           orders' \in [Orders -> OrderRows], \A q \in Orders \ {o} : orders'[q] = orders[q],
           \/ orders'[o] = orders[o] /\ (workers[w].at \in Rescued => new.at \in Rescued)
           \/ orders'[o].status \in Settling /\ new.at \in Rescued,
           sessions' \in [Orders -> Chains],
           \A q \in Orders : sessions'[q] \in [1..Depth[q] -> SessionStatus \union {"none"}],
           \A q \in Orders : Begun(q) => Begun(q)',
           runs' \in [Orders -> Nat], proposals' \in [Orders -> Seq(Written)],
           \A q \in Orders \ {o} : runs'[q] = runs[q] /\ proposals'[q] = proposals[q],
           Accounted(o)', OnItsWay(new.at, new.level, new.seen, o)'
    PROVE  OrdersInv'
<1>1. TypeOK /\ HolderInv /\ AnsweredInv
  BY DEF OrdersInv
<1>2. /\ workers'[w] = new /\ \A v \in Workers \ {w} : workers'[v] = workers[v]
      /\ \A v \in Workers : workers'[v].batch = workers[v].batch /\ Order(v)' = Order(v)
      /\ workers' \in [Workers -> WorkerStates]
  BY <1>1, Types DEF Order
<1>3. TypeOK'
  <2>1. \A v \in Workers :
           IF workers'[v].at = "idle" THEN workers'[v] = Idle
           ELSE workers'[v].batch /= <<>> /\ workers'[v].level \in 1..Depth[Order(v)]
    <3>1. workers[w].batch /= <<>>
      BY <1>1, OrderAtWork
    <3> QED BY <1>1, <1>2, <3>1 DEF TypeOK, Order
  <2> QED BY <1>1, <1>2, <2>1 DEF TypeOK, Order, OrderRows, WorkerStates, Chains, Written
<1>4. \A v \in Workers : \A i \in DOMAIN workers[v].batch :
         workers[v].batch[i] \in Orders /\ (workers[v].batch[i] = o => v = w /\ i = 1)
  <2>1. o = workers[w].batch[1] /\ 1 \in DOMAIN workers[w].batch
    BY <1>1, OrderAtWork
  <2>2. \A v \in Workers : \A i \in DOMAIN workers[v].batch : workers[v].batch[i] \in Orders
    BY <1>1, InBatch
  <2> QED BY <1>1, <2>1, <2>2 DEF HolderInv, Apart
<1>5. HolderInv'
  <2>1. ASSUME NEW v \in Workers
        PROVE  Holds(v)'
    <3> SUFFICES ASSUME NEW i \in DOMAIN workers[v].batch
                 PROVE  \/ orders'[workers[v].batch[i]].status = "processing"
                        \/ /\ i = 1 /\ workers'[v].at \in Rescued
                           /\ orders'[workers[v].batch[i]].status \in Settling
      BY <1>2 DEF Holds
    <3>1. CASE workers[v].batch[i] = o
      BY <1>1, <1>2, <1>4, <3>1 DEF HolderInv, Holds
    <3>2. CASE workers[v].batch[i] /= o
      <4>1. orders'[workers[v].batch[i]] = orders[workers[v].batch[i]]
        BY <1>4, <3>2
      <4>2. i = 1 => v /= w
        BY <1>1, <3>2, OrderAtWork
      <4> QED BY <1>1, <1>2, <4>1, <4>2 DEF HolderInv, Holds
    <3> QED BY <3>1, <3>2
  <2>2. Apart'
    BY <1>1, <1>2 DEF HolderInv, Apart
  <2>3. \A q \in Orders : orders'[q].status \in {"none", "queued", "failed"} =>
            orders'[q].attempts < MaxAttempts
    BY <1>1 DEF HolderInv, Settling
  <2> QED BY <2>1, <2>2, <2>3 DEF HolderInv
<1>6. AnsweredInv'
  <2>1. ASSUME NEW q \in Orders
        PROVE  Accounted(q)'
    <3>1. CASE q /= o
      <4>1. Accounted(q) /\ runs'[q] = runs[q] /\ proposals'[q] = proposals[q] /\ (Begun(q) => Begun(q)')
        BY <1>1, <3>1 DEF AnsweredInv
      <4> QED BY <4>1 DEF Accounted
    <3> QED BY <3>1
  <2>2. ASSUME NEW v \in Workers, workers'[v].at /= "idle"
        PROVE  OnItsWay(workers[v].at, workers[v].level, workers[v].seen, Order(v))'
    <3>1. CASE v = w
      BY <1>2, <3>1 DEF OnItsWay
    <3>2. CASE v /= w
      <4>1. workers'[v] = workers[v] /\ Order(v)' = Order(v) /\ workers[v].at /= "idle"
        BY <1>2, <2>2, <3>2
      <4>2. Order(v) \in Orders \ {o}
        BY <1>1, <1>4, <3>2, <4>1, OrderAtWork
      <4> QED BY ZenonT(40), <1>1, <4>1, <4>2 DEF AnsweredInv, OnItsWay
    <3> QED BY <3>1, <3>2
  <2> QED BY <2>1, <2>2 DEF AnsweredInv
<1> QED BY <1>3, <1>5, <1>6 DEF OrdersInv

\* A worker that takes another step, with what it has read.
Takes(w, step, level, seen, left) ==
    workers' = [workers EXCEPT ![w].at = step, ![w].level = level, ![w].seen = seen, ![w].left = left]

LEMMA Taken ==
    ASSUME TypeOK, NEW w \in Workers, NEW step \in Steps, NEW level \in Nat,
           NEW seen \in SessionStatus \union {"none"}, NEW left \in 0..MaxProposals,
           Takes(w, step, level, seen, left)
    PROVE  \E new \in WorkerStates :
             /\ workers' = [workers EXCEPT ![w] = new]
             /\ new.batch = workers[w].batch /\ new.at = step /\ new.level = level
             /\ new.seen = seen /\ new.left = left
<1> DEFINE new == [workers[w] EXCEPT !.at = step, !.level = level, !.seen = seen, !.left = left]
<1>1. workers' = [workers EXCEPT ![w] = new]
  BY DEF Takes
<1>2. workers[w] \in WorkerStates
  BY Types
<1>3. /\ new \in WorkerStates
      /\ new.batch = workers[w].batch /\ new.at = step /\ new.level = level
      /\ new.seen = seen /\ new.left = left
  BY <1>2 DEF WorkerStates
<1> QED BY <1>1, <1>3

\* A step of a worker that changes nothing else.
LEMMA PureMove ==
    ASSUME OrdersInv, NEW w \in Workers, NEW o \in Orders, o = Order(w), workers[w].at /= "idle",
           NEW step \in Steps \ {"idle"}, NEW level \in 1..Depth[o],
           NEW seen \in SessionStatus \union {"none"}, NEW left \in 0..MaxProposals,
           Takes(w, step, level, seen, left),
           workers[w].at \in Rescued => step \in Rescued,
           UNCHANGED <<packs, orders, sessions, operators, spent, runs, proposals>>,
           incidents' \in 0..MaxIncidents,
           OnItsWay(step, level, seen, o)
    PROVE  OrdersInv'
<1>1. TypeOK /\ level \in Nat
  BY ChainAssumption DEF OrdersInv
<1>2. PICK new \in WorkerStates :
         /\ workers' = [workers EXCEPT ![w] = new]
         /\ new.batch = workers[w].batch /\ new.at = step /\ new.level = level
         /\ new.seen = seen /\ new.left = left
  BY <1>1, Taken
<1>3. /\ orders' \in [Orders -> OrderRows] /\ sessions' \in [Orders -> Chains]
      /\ \A q \in Orders : sessions'[q] \in [1..Depth[q] -> SessionStatus \union {"none"}]
      /\ runs' \in [Orders -> Nat] /\ proposals' \in [Orders -> Seq(Written)] /\ spent' \in Nat
  BY <1>1, Types
<1>4. \A q \in Orders : Begun(q)' <=> Begun(q)
  BY DEF Begun
<1>5. Accounted(o)' /\ OnItsWay(new.at, new.level, new.seen, o)'
  BY <1>2, <1>4 DEF OrdersInv, AnsweredInv, Accounted, OnItsWay
<1> QED BY <1>2, <1>3, <1>4, <1>5, Moved

\* The write of a session, by whoever makes it.
LEMMA SessionWritten ==
    ASSUME TypeOK, NEW o \in Orders, NEW l \in 1..Depth[o], NEW next \in SessionStatus,
           sessions' = [sessions EXCEPT ![o][l] = next],
           sessions[o][l] = "none" \/ next /= "queued"
    PROVE  /\ sessions' \in [Orders -> Chains] /\ sessions'[o][l] = next
           /\ \A q \in Orders : sessions'[q] \in [1..Depth[q] -> SessionStatus \union {"none"}]
           /\ \A q \in Orders : Begun(q) => Begun(q)'
           /\ \A q \in Orders : \A m \in 1..Depth[q] :
                <<q, m>> /= <<o, l>> => sessions'[q][m] = sessions[q][m]
<1> DEFINE chain == [sessions[o] EXCEPT ![l] = next]
<1>1. /\ sessions \in [Orders -> Chains]
      /\ \A q \in Orders : sessions[q] \in [1..Depth[q] -> SessionStatus \union {"none"}]
  BY Types
<1>2. chain \in [1..Depth[o] -> SessionStatus \union {"none"}] /\ chain[l] = next
      /\ \A m \in 1..Depth[o] : m /= l => chain[m] = sessions[o][m]
  BY <1>1
<1>3. sessions' = [sessions EXCEPT ![o] = chain]
  OBVIOUS
<1> HIDE DEF chain
<1>4. /\ sessions'[o] = chain /\ \A q \in Orders \ {o} : sessions'[q] = sessions[q]
      /\ chain \in Chains
  BY <1>1, <1>2, <1>3 DEF Chains
<1>5. sessions' \in [Orders -> Chains]
  BY <1>1, <1>3, <1>4
<1>6. next /= "none"
  BY DEF SessionStatus, Active
<1>7. \A q \in Orders : Begun(q) => Begun(q)'
  <2> SUFFICES ASSUME NEW q \in Orders, Begun(q)
               PROVE  Begun(q)'
    OBVIOUS
  <2>1. CASE q = o
    BY <1>2, <1>4, <1>6, <2>1, DepthType DEF Begun
  <2>2. CASE q /= o
    BY <1>4, <2>2 DEF Begun
  <2> QED BY <2>1, <2>2
<1>8. \A q \in Orders : \A m \in 1..Depth[q] : <<q, m>> /= <<o, l>> => sessions'[q][m] = sessions[q][m]
  BY <1>2, <1>4
<1> QED BY <1>1, <1>2, <1>4, <1>5, <1>7, <1>8

\* A step of a worker that writes a session as well.
LEMMA SessionMove ==
    ASSUME OrdersInv, NEW w \in Workers, NEW o \in Orders, o = Order(w), workers[w].at /= "idle",
           NEW step \in Steps \ {"idle"}, NEW level \in 1..Depth[o],
           NEW seen \in SessionStatus \union {"none"}, NEW left \in 0..MaxProposals,
           Takes(w, step, level, seen, left),
           workers[w].at \in Rescued => step \in Rescued,
           NEW l \in 1..Depth[o], NEW next \in SessionStatus,
           sessions' = [sessions EXCEPT ![o][l] = next],
           sessions[o][l] = "none" \/ next /= "queued",
           UNCHANGED <<packs, orders, operators, spent, runs, proposals>>,
           incidents' \in 0..MaxIncidents,
           OnItsWay(step, level, seen, o)'
    PROVE  OrdersInv'
<1>1. TypeOK /\ level \in Nat
  BY ChainAssumption DEF OrdersInv
<1>2. PICK new \in WorkerStates :
         /\ workers' = [workers EXCEPT ![w] = new]
         /\ new.batch = workers[w].batch /\ new.at = step /\ new.level = level
         /\ new.seen = seen /\ new.left = left
  BY <1>1, Taken
<1>3. /\ orders' \in [Orders -> OrderRows]
      /\ runs' \in [Orders -> Nat] /\ proposals' \in [Orders -> Seq(Written)] /\ spent' \in Nat
  BY <1>1, Types
<1>4. /\ sessions' \in [Orders -> Chains]
      /\ \A q \in Orders : sessions'[q] \in [1..Depth[q] -> SessionStatus \union {"none"}]
      /\ \A q \in Orders : Begun(q) => Begun(q)'
  BY <1>1, SessionWritten
<1>5. Accounted(o)' /\ OnItsWay(new.at, new.level, new.seen, o)'
  BY <1>2, <1>4 DEF OrdersInv, AnsweredInv, Accounted
<1> QED BY <1>2, <1>3, <1>4, <1>5, Moved

-----------------------------------------------------------------------------
(* The steps of a worker.                                                  *)

LEMMA WorkerFacts ==
    ASSUME OrdersInv, NEW w \in Workers, workers[w].at /= "idle"
    PROVE  \E o \in Orders, level \in Nat, seen \in SessionStatus \union {"none"}, left \in 0..MaxProposals :
             /\ o = Order(w) /\ level = workers[w].level /\ seen = workers[w].seen /\ left = workers[w].left
             /\ level \in 1..Depth[o] /\ workers[w].at \in Steps
             /\ OnItsWay(workers[w].at, level, seen, o) /\ Accounted(o)
             /\ \A l \in 1..Depth[o] : sessions[o][l] \in SessionStatus \union {"none"}
<1>1. Order(w) \in Orders /\ workers[w].level \in 1..Depth[Order(w)] /\ TypeOK
  BY OrderAtWork DEF OrdersInv
<1>2. workers[w].level \in Nat /\ workers[w].seen \in SessionStatus \union {"none"}
      /\ workers[w].left \in 0..MaxProposals /\ workers[w].at \in Steps
  BY <1>1 DEF TypeOK
<1>3. \A l \in 1..Depth[Order(w)] : sessions[Order(w)][l] \in SessionStatus \union {"none"}
  BY <1>1 DEF TypeOK
<1>4. OnItsWay(workers[w].at, workers[w].level, workers[w].seen, Order(w)) /\ Accounted(Order(w))
  BY <1>1 DEF OrdersInv, AnsweredInv
<1> QED BY <1>1, <1>2, <1>3, <1>4

LEMMA Goes ==
    ASSUME OrdersInv, NEW w \in Workers, NEW step, Goto(w, step)
    PROVE  Takes(w, step, workers[w].level, workers[w].seen, workers[w].left)
BY DEF OrdersInv, TypeOK, Goto, Takes

LEMMA Counted ==
    ASSUME OrdersInv, Incident \/ UNCHANGED incidents
    PROVE  incidents' \in 0..MaxIncidents
BY BudgetAssumption DEF OrdersInv, TypeOK, Incident

LEMMA StepLoad ==
    ASSUME OrdersInv, NEW w \in Workers, Load(w)
    PROVE  OrdersInv'
<1>1. workers[w].at = "load"
  BY DEF Load, At
<1>2. PICK o \in Orders, level \in Nat, seen \in SessionStatus \union {"none"}, left \in 0..MaxProposals :
         /\ o = Order(w) /\ level = workers[w].level /\ seen = workers[w].seen /\ left = workers[w].left
         /\ level \in 1..Depth[o]
  BY <1>1, WorkerFacts
<1>3. PICK step \in {"create", "fail"} : Goto(w, step)
  BY DEF Load
<1>4. Takes(w, step, level, seen, left)
  BY <1>2, <1>3, Goes
<1>5. OnItsWay(step, level, seen, o)
  BY DEF OnItsWay
<1> QED BY <1>1, <1>2, <1>4, <1>5, PureMove, Counted DEF Load, Steps, Rescued

LEMMA StepCreateSession ==
    ASSUME OrdersInv, NEW w \in Workers, CreateSession(w)
    PROVE  OrdersInv'
<1>1. workers[w].at = "create"
  BY DEF CreateSession, At
<1>2. PICK o \in Orders, level \in Nat, seen \in SessionStatus \union {"none"}, left \in 0..MaxProposals :
         /\ o = Order(w) /\ level = workers[w].level /\ seen = workers[w].seen /\ left = workers[w].left
         /\ level \in 1..Depth[o]
         /\ \A l \in 1..Depth[o] : sessions[o][l] \in SessionStatus \union {"none"}
  BY <1>1, WorkerFacts
<1>3. ASSUME NEW status \in SessionStatus \union {"none"}, workers' = Created(w, status)
      PROVE  \E step \in {"start", "park"} : Takes(w, step, level, status, left)
  <2> DEFINE step == IF status = "queued" THEN "start" ELSE "park"
  <2>1. Takes(w, step, level, status, left)
    BY <1>2, <1>3 DEF Created, Takes, OrdersInv, TypeOK
  <2> QED BY <2>1
<1>4. \A step \in {"start", "park", "fail"}, status \in SessionStatus \union {"none"} :
         OnItsWay(step, level, status, o) /\ OnItsWay(step, level, status, o)'
  BY DEF OnItsWay
<1>5. UNCHANGED <<packs, orders, operators, spent, runs, proposals>>
  BY DEF CreateSession
<1>6. CASE /\ Existing(o, level) /\ workers' = Created(w, sessions[o][level])
           /\ UNCHANGED <<sessions, incidents>>
  <2>1. PICK step \in {"start", "park"} : Takes(w, step, level, sessions[o][level], left)
    BY <1>2, <1>3, <1>6
  <2> QED BY <1>1, <1>2, <1>4, <1>5, <1>6, <2>1, PureMove, Counted DEF Steps, Rescued
<1>7. CASE Goto(w, "fail") /\ UNCHANGED <<sessions, incidents>>
  BY <1>1, <1>2, <1>4, <1>5, <1>7, PureMove, Counted, Goes DEF Steps, Rescued
<1>8. CASE /\ ~Existing(o, level) /\ ParentActive(o, level) /\ Admission[o][level] /= "deny"
           /\ sessions' = [sessions EXCEPT ![o][level] = Admission[o][level]]
           /\ \/ workers' = Created(w, Admission[o][level]) /\ UNCHANGED incidents
              \/ Incident /\ Goto(w, "fail")
  <2>1. sessions[o][level] = "none" /\ Admission[o][level] \in SessionStatus
    BY <1>2, <1>8, ChainAssumption DEF Existing, SessionStatus, Active
  <2>2. PICK step \in {"start", "park", "fail"}, status \in SessionStatus \union {"none"} :
            Takes(w, step, level, status, left)
    <3>1. CASE workers' = Created(w, Admission[o][level])
      BY <1>3, <2>1, <3>1
    <3>2. CASE Goto(w, "fail")
      BY <1>2, <3>2, Goes
    <3> QED BY <1>8, <3>1, <3>2
  <2>3. incidents' \in 0..MaxIncidents
    BY <1>8, Counted
  <2>4. /\ step \in Steps \ {"idle"} /\ workers[w].at /= "idle" /\ workers[w].at \notin Rescued
    BY <1>1 DEF Steps, Rescued
  <2>5. OnItsWay(step, level, status, o)'
    BY <1>4
  <2>6. sessions' = [sessions EXCEPT ![o][level] = Admission[o][level]]
    BY <1>8
  <2> HIDE DEF Steps, Rescued
  <2> QED BY <1>2, <1>5, <2>1, <2>2, <2>3, <2>4, <2>5, <2>6, SessionMove
<1> QED BY <1>2, <1>6, <1>7, <1>8 DEF CreateSession

\* What is read for an update, and where the worker goes with it.
LEMMA Read ==
    ASSUME OrdersInv, NEW w \in Workers, workers[w].at /= "idle", NEW l, NEW next, NEW granted \in Steps, NEW refused \in Steps,
           l \in 1..Depth[Order(w)], ReadFor(w, l, next, granted, refused)
    PROVE  \E step \in Steps, seen \in SessionStatus \union {"none"} :
             /\ Takes(w, step, workers[w].level, seen, workers[w].left)
             /\ seen = sessions[Order(w)][l]
             /\ \/ step = granted /\ MayBecome(seen, next)
                \/ step = refused
<1> DEFINE seen == sessions[Order(w)][l]
           step == IF MayBecome(seen, next) THEN granted ELSE refused
<1>1. seen \in SessionStatus \union {"none"}
  BY WorkerFacts
<1>2. Takes(w, step, workers[w].level, seen, workers[w].left)
  <2>1. workers' = [workers EXCEPT ![w].seen = seen, ![w].at = step]
    BY DEF ReadFor
  <2> HIDE DEF seen, step
  <2> QED BY <2>1 DEF Takes, OrdersInv, TypeOK
<1>3. (step = granted /\ MayBecome(seen, next)) \/ step = refused
  OBVIOUS
<1> QED BY <1>1, <1>2, <1>3

LEMMA StepStartSession ==
    ASSUME OrdersInv, NEW w \in Workers, StartSession(w)
    PROVE  OrdersInv'
<1>1. workers[w].at = "start" /\ ReadFor(w, workers[w].level, "running", "started", "fail")
  BY DEF StartSession, At
<1>2. PICK o \in Orders, level \in Nat, seen \in SessionStatus \union {"none"}, left \in 0..MaxProposals :
         /\ o = Order(w) /\ level = workers[w].level /\ seen = workers[w].seen /\ left = workers[w].left
         /\ level \in 1..Depth[o] /\ OnItsWay(workers[w].at, level, seen, o) /\ Accounted(o)
  BY <1>1, WorkerFacts
<1>3. PICK step \in Steps, read \in SessionStatus \union {"none"} :
         /\ Takes(w, step, level, read, left) /\ read = sessions[o][level]
         /\ (step = "started" /\ MayBecome(read, "running")) \/ step = "fail"
  <2>1. "started" \in Steps /\ "fail" \in Steps /\ workers[w].at /= "idle"
    BY <1>1 DEF Steps
  <2>2. workers[w].level \in 1..Depth[Order(w)]
    BY <1>2
  <2> QED BY <1>1, <1>2, <2>1, <2>2, Read
<1>4. OnItsWay(step, level, read, o)
  <2>1. CASE step = "fail"
    BY <2>1 DEF OnItsWay
  <2>2. CASE step = "started" /\ read = "queued"
    <3>1. level = Depth[o] => ~Begun(o)
      BY <1>3, <2>2 DEF Begun
    <3>2. level = Depth[o] => runs[o] = 0
      BY <1>2, <3>1 DEF Accounted
    <3> QED BY <2>2, <3>2 DEF OnItsWay, Active
  <2> QED BY <1>3, <2>1, <2>2 DEF MayBecome
<1>5. UNCHANGED <<packs, orders, sessions, operators, spent, runs, proposals, incidents>>
  BY <1>1 DEF ReadFor
<1>6. step \in Steps \ {"idle"} /\ workers[w].at \notin Rescued
  BY <1>1, <1>3 DEF Rescued
<1> QED BY <1>1, <1>2, <1>3, <1>4, <1>5, <1>6, PureMove, Counted

\* Where an awaited write leaves the worker.
LEMMA AwaitedGoes ==
    ASSUME OrdersInv, NEW w \in Workers, NEW step, Awaited(w, step)
    PROVE  /\ incidents' \in 0..MaxIncidents
           /\ \E to \in {step, Rescue(workers[w].at)} :
                Takes(w, to, workers[w].level, workers[w].seen, workers[w].left)
BY Goes, Counted DEF Awaited

\* Where a worker goes when its level has been dealt with.
LEMMA Descends ==
    ASSUME OrdersInv, NEW w \in Workers, Descend(w)
    PROVE  Takes(w, IF Leaf(w) THEN "budget" ELSE "create",
                 IF Leaf(w) THEN workers[w].level ELSE workers[w].level + 1, workers[w].seen, workers[w].left)
BY DEF Descend, Takes, OrdersInv, TypeOK

LEMMA StepSessionStarted ==
    ASSUME OrdersInv, NEW w \in Workers, SessionStarted(w)
    PROVE  OrdersInv'
<1>1. /\ workers[w].at = "started" /\ workers[w].at \notin Rescued
      /\ WriteSession(w, workers[w].level, "running")
  BY DEF SessionStarted, At, Rescued
<1>2. PICK o \in Orders, level \in Nat, seen \in SessionStatus \union {"none"}, left \in 0..MaxProposals :
         /\ o = Order(w) /\ level = workers[w].level /\ seen = workers[w].seen /\ left = workers[w].left
         /\ level \in 1..Depth[o] /\ OnItsWay(workers[w].at, level, seen, o) /\ Accounted(o)
  BY <1>1, WorkerFacts
<1>3. /\ sessions' = [sessions EXCEPT ![o][level] = "running"]
      /\ UNCHANGED <<packs, orders, operators, spent, runs, proposals>>
  BY <1>1, <1>2 DEF WriteSession
<1>4. "running" \in SessionStatus /\ "running" /= "queued"
  BY DEF SessionStatus, Active
<1>5. level = Depth[o] => runs'[o] = 0 /\ Begun(o)'
  <2>1. sessions'[o][level] = "running"
    <3>1. TypeOK /\ "running" \in SessionStatus /\ "running" /= "queued"
      BY <1>4 DEF OrdersInv
    <3>2. sessions' = [sessions EXCEPT ![o][level] = "running"] /\ level \in 1..Depth[o]
      BY <1>2, <1>3
    <3>3. sessions[o][level] = "none" \/ "running" /= "queued"
      BY <3>1
    <3> QED BY <3>1, <3>2, <3>3, SessionWritten, ZenonT(40)
  <2> QED BY <1>1, <1>2, <1>3, <2>1 DEF OnItsWay, Begun
<1>6. PICK step \in Steps \ {"idle"}, to \in 1..Depth[o] :
         /\ Takes(w, step, to, seen, left)
         /\ OnItsWay(step, to, seen, o)'
         /\ incidents' \in 0..MaxIncidents
  <2>1. CASE level > 1 /\ Awaited(w, "close")
    <3>1. PICK step \in {"close", "fail"} : Takes(w, step, level, seen, left)
      BY <1>1, <1>2, <2>1, AwaitedGoes DEF Rescue
    <3>2. OnItsWay(step, level, seen, o)'
      BY <1>5, <2>1, <3>1 DEF OnItsWay
    <3> QED BY <1>2, <2>1, <3>1, <3>2, AwaitedGoes DEF Steps
  <2>2. CASE level = 1 /\ Descend(w) /\ UNCHANGED incidents
    <3> DEFINE step == IF level = Depth[o] THEN "budget" ELSE "create"
               to == IF level = Depth[o] THEN level ELSE level + 1
    <3>1. Takes(w, step, to, seen, left)
      BY <1>2, <2>2, Descends DEF Leaf
    <3>2. OnItsWay(step, to, seen, o)'
      BY <1>5 DEF OnItsWay
    <3>3. to \in 1..Depth[o] /\ step \in Steps \ {"idle"}
      BY <1>2, ChainAssumption DEF Steps
    <3> HIDE DEF step, to
    <3> QED BY <2>2, <3>1, <3>2, <3>3, Counted
  <2>3. CASE Incident /\ Goto(w, "fail")
    <3>1. Takes(w, "fail", level, seen, left)
      BY <1>2, <2>3, Goes
    <3>2. OnItsWay("fail", level, seen, o)'
      BY DEF OnItsWay
    <3> QED BY <1>2, <2>3, <3>1, <3>2, Counted DEF Steps
  <2> QED BY <1>2, <2>1, <2>2, <2>3 DEF SessionStarted
<1> QED BY <1>1, <1>2, <1>3, <1>4, <1>6, SessionMove

LEMMA StepCloseParent ==
    ASSUME OrdersInv, NEW w \in Workers, CloseParent(w)
    PROVE  OrdersInv'
<1>1. workers[w].at = "close" /\ ReadFor(w, workers[w].level - 1, "completed", "closed", "fail")
  BY DEF CloseParent, At
<1>2. PICK o \in Orders, level \in Nat, seen \in SessionStatus \union {"none"}, left \in 0..MaxProposals :
         /\ o = Order(w) /\ level = workers[w].level /\ seen = workers[w].seen /\ left = workers[w].left
         /\ level \in 1..Depth[o] /\ OnItsWay(workers[w].at, level, seen, o) /\ Accounted(o)
  BY <1>1, WorkerFacts
<1>3. level > 1 /\ level - 1 \in 1..Depth[o]
  BY <1>1, <1>2, ChainAssumption DEF OnItsWay
<1>4. PICK step \in Steps, read \in SessionStatus \union {"none"} :
         /\ Takes(w, step, level, read, left)
         /\ (step = "closed" /\ MayBecome(read, "completed")) \/ step = "fail"
  <2>1. "closed" \in Steps /\ "fail" \in Steps /\ workers[w].at /= "idle"
    BY <1>1 DEF Steps
  <2>2. workers[w].level - 1 \in 1..Depth[Order(w)]
    BY <1>2, <1>3
  <2> QED BY <1>1, <1>2, <2>1, <2>2, Read
<1>5. OnItsWay(step, level, read, o)
  BY <1>1, <1>2, <1>4 DEF OnItsWay, MayBecome, Active
<1>6. UNCHANGED <<packs, orders, sessions, operators, spent, runs, proposals, incidents>>
  BY <1>1 DEF ReadFor
<1>7. step \in Steps \ {"idle"} /\ workers[w].at \notin Rescued
  BY <1>1, <1>4 DEF Rescued
<1> QED BY <1>1, <1>2, <1>4, <1>5, <1>6, <1>7, PureMove, Counted

LEMMA StepParentClosed ==
    ASSUME OrdersInv, NEW w \in Workers, ParentClosed(w)
    PROVE  OrdersInv'
<1>1. /\ workers[w].at = "closed" /\ workers[w].at \notin Rescued
      /\ WriteSession(w, workers[w].level - 1, "completed")
  BY DEF ParentClosed, At, Rescued
<1>2. PICK o \in Orders, level \in Nat, seen \in SessionStatus \union {"none"}, left \in 0..MaxProposals :
         /\ o = Order(w) /\ level = workers[w].level /\ seen = workers[w].seen /\ left = workers[w].left
         /\ level \in 1..Depth[o] /\ OnItsWay(workers[w].at, level, seen, o) /\ Accounted(o)
  BY <1>1, WorkerFacts
<1>3. level > 1 /\ level - 1 \in 1..Depth[o]
  BY <1>1, <1>2, ChainAssumption DEF OnItsWay
<1>4. /\ sessions' = [sessions EXCEPT ![o][level - 1] = "completed"]
      /\ UNCHANGED <<packs, orders, operators, spent, runs, proposals>>
  BY <1>1, <1>2 DEF WriteSession
<1>5. "completed" \in SessionStatus /\ "completed" /= "queued"
  BY DEF SessionStatus
<1>6. level = Depth[o] => runs'[o] = 0 /\ Begun(o)'
  <2>1. Begun(o) => Begun(o)'
    BY <1>3, <1>4, <1>5, SessionWritten DEF OrdersInv
  <2> QED BY <1>1, <1>2, <1>4, <2>1 DEF OnItsWay
<1>7. PICK step \in Steps \ {"idle"}, to \in 1..Depth[o] :
         /\ Takes(w, step, to, seen, left)
         /\ OnItsWay(step, to, seen, o)'
         /\ incidents' \in 0..MaxIncidents
  <2>1. CASE Descend(w) /\ UNCHANGED incidents
    <3> DEFINE step == IF level = Depth[o] THEN "budget" ELSE "create"
               to == IF level = Depth[o] THEN level ELSE level + 1
    <3>1. Takes(w, step, to, seen, left)
      BY <1>2, <2>1, Descends DEF Leaf
    <3>2. OnItsWay(step, to, seen, o)'
      BY <1>6 DEF OnItsWay
    <3>3. to \in 1..Depth[o] /\ step \in Steps \ {"idle"}
      BY <1>2, ChainAssumption DEF Steps
    <3> HIDE DEF step, to
    <3> QED BY <2>1, <3>1, <3>2, <3>3, Counted
  <2>2. CASE Incident /\ Goto(w, "fail")
    <3>1. Takes(w, "fail", level, seen, left)
      BY <1>2, <2>2, Goes
    <3>2. OnItsWay("fail", level, seen, o)'
      BY DEF OnItsWay
    <3> QED BY <1>2, <2>2, <3>1, <3>2, Counted DEF Steps
  <2> QED BY <2>1, <2>2 DEF ParentClosed
<1> QED BY <1>1, <1>2, <1>3, <1>4, <1>5, <1>7, SessionMove

LEMMA StepCheckBudget ==
    ASSUME OrdersInv, NEW w \in Workers, CheckBudget(w)
    PROVE  OrdersInv'
<1>1. workers[w].at = "budget" /\ workers[w].at \notin Rescued
  BY DEF CheckBudget, At, Rescued
<1>2. PICK o \in Orders, level \in Nat, seen \in SessionStatus \union {"none"}, left \in 0..MaxProposals :
         /\ o = Order(w) /\ level = workers[w].level /\ seen = workers[w].seen /\ left = workers[w].left
         /\ level \in 1..Depth[o] /\ OnItsWay(workers[w].at, level, seen, o) /\ Accounted(o)
  BY <1>1, WorkerFacts
<1>3. PICK step \in {"call", "undo"} : Goto(w, step)
  BY DEF CheckBudget
<1>4. Takes(w, step, level, seen, left)
  BY <1>2, <1>3, Goes
<1>5. OnItsWay(step, level, seen, o)
  BY <1>1, <1>2 DEF OnItsWay
<1>6. step \in Steps \ {"idle"}
  BY DEF Steps
<1> QED BY <1>1, <1>2, <1>4, <1>5, <1>6, PureMove, Counted DEF CheckBudget

LEMMA StepAnswer ==
    ASSUME OrdersInv, NEW w \in Workers, Answer(w)
    PROVE  OrdersInv'
<1>1. /\ workers[w].at = "call" /\ workers[w].at \notin Rescued
      /\ UNCHANGED <<packs, orders, sessions, operators, proposals, incidents>>
  BY DEF Answer, At, Rescued
<1>2. PICK o \in Orders, level \in Nat, seen \in SessionStatus \union {"none"}, left \in 0..MaxProposals :
         /\ o = Order(w) /\ level = workers[w].level /\ seen = workers[w].seen /\ left = workers[w].left
         /\ level \in 1..Depth[o] /\ OnItsWay(workers[w].at, level, seen, o) /\ Accounted(o)
  BY <1>1, WorkerFacts
<1>3. TypeOK
  BY DEF OrdersInv
<1>4. CASE Goto(w, "undo") /\ UNCHANGED <<spent, runs>>
  <2>1. Takes(w, "undo", level, seen, left)
    BY <1>2, <1>4, Goes
  <2>2. OnItsWay("undo", level, seen, o)
    BY DEF OnItsWay
  <2>3. "undo" \in Steps \ {"idle"}
    BY DEF Steps
  <2> QED BY <1>1, <1>2, <1>4, <2>1, <2>2, <2>3, PureMove, Counted
<1>5. ASSUME NEW cost \in Costs, NEW kept \in 0..MaxProposals, NEW valid \in BOOLEAN,
             cost <= RunBudget, spent' = spent + cost, runs' = [runs EXCEPT ![Order(w)] = @ + 1],
             workers' = [workers EXCEPT ![w].left = kept, ![w].at = IF valid THEN "save" ELSE "undo"]
      PROVE  OrdersInv'
  <2>1. PICK step \in {"save", "undo"} : Takes(w, step, level, seen, kept)
    <3>1. PICK step \in {"save", "undo"} : step = IF valid THEN "save" ELSE "undo"
      OBVIOUS
    <3>2. Takes(w, step, level, seen, kept)
      BY <1>2, <1>3, <1>5, <3>1 DEF Takes, TypeOK
    <3> QED BY <3>2
  <2>2. step \in Steps \ {"idle"}
    BY DEF Steps
  <2>3. PICK new \in WorkerStates :
           /\ workers' = [workers EXCEPT ![w] = new]
           /\ new.batch = workers[w].batch /\ new.at = step /\ new.level = level
           /\ new.seen = seen /\ new.left = kept
    BY <1>2, <1>3, <2>1, <2>2, Taken
  <2>4. runs[o] = 0 /\ Begun(o) /\ proposals[o] = <<>>
    BY <1>1, <1>2 DEF OnItsWay, Accounted
  <2>5. /\ runs' \in [Orders -> Nat] /\ runs'[o] = 1
        /\ \A q \in Orders \ {o} : runs'[q] = runs[q]
    BY <1>2, <1>3, <1>5, <2>4, Types
  <2>6. spent' \in Nat
    BY SMTT(30), <1>3, <1>5, Types, BudgetAssumption
  <2>7. /\ orders' \in [Orders -> OrderRows] /\ sessions' \in [Orders -> Chains]
        /\ \A q \in Orders : sessions'[q] \in [1..Depth[q] -> SessionStatus \union {"none"}]
        /\ proposals' \in [Orders -> Seq(Written)]
    BY <1>1, <1>3, Types
  <2>8. \A q \in Orders : Begun(q)' <=> Begun(q)
    BY <1>1 DEF Begun
  <2>9. Accounted(o)'
    <3>1. proposals'[o] = <<>> /\ DOMAIN proposals'[o] = {}
      BY <1>1, <2>4
    <3> QED BY <2>4, <2>5, <2>8, <3>1 DEF Accounted
  <2>10. OnItsWay(new.at, new.level, new.seen, o)'
    BY <2>3, <2>5 DEF OnItsWay
  <2>11. incidents' \in 0..MaxIncidents
    BY <1>1, Counted
  <2> QED BY <1>1, <1>2, <2>2, <2>3, <2>5, <2>6, <2>7, <2>8, <2>9, <2>10, <2>11, Moved
<1> QED BY <1>4, <1>5 DEF Answer

LEMMA StepSaveProposal ==
    ASSUME OrdersInv, NEW w \in Workers, SaveProposal(w)
    PROVE  OrdersInv'
<1>1. /\ workers[w].at = "save" /\ workers[w].at \notin Rescued
      /\ UNCHANGED <<packs, orders, sessions, operators, spent, runs>>
  BY DEF SaveProposal, At, Rescued
<1>2. PICK o \in Orders, level \in Nat, seen \in SessionStatus \union {"none"}, left \in 0..MaxProposals :
         /\ o = Order(w) /\ level = workers[w].level /\ seen = workers[w].seen /\ left = workers[w].left
         /\ level \in 1..Depth[o] /\ OnItsWay(workers[w].at, level, seen, o) /\ Accounted(o)
  BY <1>1, WorkerFacts
<1>3. TypeOK
  BY DEF OrdersInv
<1>4. CASE Goto(w, "complete") /\ UNCHANGED <<proposals, incidents>>
  <2>1. Takes(w, "complete", level, seen, left)
    BY <1>2, <1>4, Goes
  <2>2. OnItsWay("complete", level, seen, o)
    BY DEF OnItsWay
  <2>3. "complete" \in Steps \ {"idle"}
    BY DEF Steps
  <2> QED BY <1>1, <1>2, <1>4, <2>1, <2>2, <2>3, PureMove, Counted
<1>5. CASE /\ workers[w].left > 0
           /\ proposals' = [proposals EXCEPT ![Order(w)] =
                              Append(@, [run |-> runs[Order(w)], status |-> "pending-approval"])]
           /\ \/ workers' = [workers EXCEPT ![w].left = @ - 1] /\ UNCHANGED incidents
              \/ Incident /\ Goto(w, "undo")
  <2>1. PICK step \in {"save", "undo"}, kept \in 0..MaxProposals :
            Takes(w, step, level, seen, kept) /\ incidents' \in 0..MaxIncidents
    <3>1. CASE workers' = [workers EXCEPT ![w].left = @ - 1] /\ UNCHANGED incidents
      <4>1. left - 1 \in 0..MaxProposals
        BY SMTT(30), <1>2, <1>5, BudgetAssumption
      <4>2. Takes(w, "save", level, seen, left - 1)
        <5>1. PICK fewer \in 0..MaxProposals : fewer = left - 1
          BY <4>1
        <5>2. workers' = [workers EXCEPT ![w].left = fewer]
          BY <1>2, <1>3, <3>1, <5>1 DEF TypeOK
        <5>3. Takes(w, "save", level, seen, fewer)
          <6>1. PICK was \in WorkerStates : was = workers[w]
            BY <1>3, Types
          <6>2. was.at = "save" /\ was.level = level /\ was.seen = seen
            BY <1>1, <1>2, <6>1
          <6>3. [was EXCEPT !.left = fewer] =
                  [was EXCEPT !.at = "save", !.level = level, !.seen = seen, !.left = fewer]
            BY <6>2 DEF WorkerStates
          <6> QED BY <5>2, <6>1, <6>3 DEF Takes
        <5> QED BY <5>1, <5>3
      <4> QED BY <3>1, <4>1, <4>2, Counted
    <3>2. CASE Incident /\ Goto(w, "undo")
      BY <1>2, <3>2, Goes, Counted
    <3> QED BY <1>5, <3>1, <3>2
  <2>2. step \in Steps \ {"idle"}
    BY DEF Steps
  <2>3. PICK new \in WorkerStates :
           /\ workers' = [workers EXCEPT ![w] = new]
           /\ new.batch = workers[w].batch /\ new.at = step /\ new.level = level
           /\ new.seen = seen /\ new.left = kept
    BY <1>2, <1>3, <2>1, <2>2, Taken
  <2>4. runs[o] = 1 /\ Begun(o) /\ runs \in [Orders -> Nat]
    BY <1>1, <1>2, <1>3, Types DEF OnItsWay, Accounted
  <2> DEFINE proposal == [run |-> runs[o], status |-> "pending-approval"]
             saved == Append(proposals[o], proposal)
  <2>5. proposals[o] \in Seq(Written) /\ proposal \in Written /\ proposal.run = runs[o]
    BY <1>3, <2>4, Types DEF Written
  <2>6. saved \in Seq(Written) /\ \A i \in DOMAIN saved : saved[i].run = runs[o]
    <3> DEFINE before == proposals[o]
    <3>1. \A i \in DOMAIN before : before[i].run = runs[o]
      BY <1>2 DEF Accounted
    <3>2. before \in Seq(Written)
      BY <2>5
    <3> HIDE DEF before, proposal
    <3>3. /\ Append(before, proposal) \in Seq(Written)
          /\ DOMAIN Append(before, proposal) = 1..(Len(before) + 1)
          /\ \A i \in 1..Len(before) : Append(before, proposal)[i] = before[i] /\ i \in DOMAIN before
          /\ Append(before, proposal)[Len(before) + 1] = proposal
          /\ Len(before) \in Nat
      BY <2>5, <3>2, AppendProperties, LenProperties
    <3>4. \A i \in 1..(Len(before) + 1) : Append(before, proposal)[i].run = runs[o]
      BY <2>5, <3>1, <3>3
    <3> QED BY <3>3, <3>4 DEF before
  <2>7. /\ proposals' = [proposals EXCEPT ![o] = saved]
    BY <1>2, <1>5
  <2> HIDE DEF saved, proposal
  <2>8. /\ proposals' \in [Orders -> Seq(Written)] /\ proposals'[o] = saved
        /\ \A q \in Orders \ {o} : proposals'[q] = proposals[q]
    BY <1>3, <2>6, <2>7, Types
  <2>9. /\ orders' \in [Orders -> OrderRows] /\ sessions' \in [Orders -> Chains]
        /\ \A q \in Orders : sessions'[q] \in [1..Depth[q] -> SessionStatus \union {"none"}]
        /\ runs' \in [Orders -> Nat] /\ spent' \in Nat
    BY <1>1, <1>3, Types
  <2>10. \A q \in Orders : Begun(q)' <=> Begun(q)
    BY <1>1 DEF Begun
  <2>11. Accounted(o)'
    BY <1>1, <2>4, <2>6, <2>8, <2>10 DEF Accounted
  <2>12. OnItsWay(new.at, new.level, new.seen, o)'
    BY <1>1, <2>3, <2>4 DEF OnItsWay
  <2> QED BY <1>1, <1>2, <2>1, <2>2, <2>3, <2>8, <2>9, <2>10, <2>11, <2>12, Moved
<1> QED BY <1>1, <1>4, <1>5 DEF SaveProposal

LEMMA StepCompleteLeaf ==
    ASSUME OrdersInv, NEW w \in Workers, CompleteLeaf(w) \/ UndoRun(w)
    PROVE  OrdersInv'
<1>1. /\ workers[w].at \in {"complete", "undo"}
      /\ \/ /\ ReadFor(w, workers[w].level, "completed", "completing", "undo")
            /\ workers[w].at = "complete"
         \/ ReadFor(w, workers[w].level, "failed", "undoing", "fail")
  BY DEF CompleteLeaf, UndoRun, At
<1>2. PICK o \in Orders, level \in Nat, seen \in SessionStatus \union {"none"}, left \in 0..MaxProposals :
         /\ o = Order(w) /\ level = workers[w].level /\ seen = workers[w].seen /\ left = workers[w].left
         /\ level \in 1..Depth[o] /\ OnItsWay(workers[w].at, level, seen, o) /\ Accounted(o)
  BY <1>1, WorkerFacts
<1>3. PICK step \in {"completing", "undo", "undoing", "fail"}, read \in SessionStatus \union {"none"} :
         /\ Takes(w, step, level, read, left)
         /\ step \in {"completing", "undoing"} => read \in Active
         /\ workers[w].at = "undo" => step \in Rescued
  <2>1. CASE ReadFor(w, workers[w].level, "completed", "completing", "undo") /\ workers[w].at = "complete"
    <3>1. "completing" \in Steps /\ "undo" \in Steps /\ workers[w].at /= "idle"
      BY <1>1 DEF Steps
    <3>2. workers[w].level \in 1..Depth[Order(w)]
      BY <1>2
    <3>3. PICK step \in Steps, read \in SessionStatus \union {"none"} :
             /\ Takes(w, step, level, read, left)
             /\ (step = "completing" /\ MayBecome(read, "completed")) \/ step = "undo"
      BY <1>2, <2>1, <3>1, <3>2, Read
    <3> QED BY <1>1, <2>1, <3>3 DEF MayBecome, Active
  <2>2. CASE ReadFor(w, workers[w].level, "failed", "undoing", "fail")
    <3>1. "undoing" \in Steps /\ "fail" \in Steps /\ workers[w].at /= "idle"
      BY <1>1 DEF Steps
    <3>2. workers[w].level \in 1..Depth[Order(w)]
      BY <1>2
    <3>3. PICK step \in Steps, read \in SessionStatus \union {"none"} :
             /\ Takes(w, step, level, read, left)
             /\ (step = "undoing" /\ MayBecome(read, "failed")) \/ step = "fail"
      BY <1>2, <2>2, <3>1, <3>2, Read
    <3> QED BY <3>3 DEF MayBecome, Rescued
  <2> QED BY <1>1, <2>1, <2>2
<1>4. OnItsWay(step, level, read, o)
  BY <1>3 DEF OnItsWay
<1>5. UNCHANGED <<packs, orders, sessions, operators, spent, runs, proposals, incidents>>
  BY <1>1 DEF ReadFor
<1>6. step \in Steps \ {"idle"} /\ (workers[w].at \in Rescued => step \in Rescued)
  BY <1>1, <1>3 DEF Rescued, Steps
<1> QED BY <1>1, <1>2, <1>3, <1>4, <1>5, <1>6, PureMove, Counted

LEMMA StepLeafCompleted ==
    ASSUME OrdersInv, NEW w \in Workers, LeafCompleted(w) \/ RunUndone(w)
    PROVE  OrdersInv'
<1>1. /\ workers[w].at \in {"completing", "undoing"}
      /\ \E next \in {"completed", "failed"} : WriteSession(w, workers[w].level, next)
  BY DEF LeafCompleted, RunUndone, At
<1>2. PICK o \in Orders, level \in Nat, seen \in SessionStatus \union {"none"}, left \in 0..MaxProposals :
         /\ o = Order(w) /\ level = workers[w].level /\ seen = workers[w].seen /\ left = workers[w].left
         /\ level \in 1..Depth[o] /\ OnItsWay(workers[w].at, level, seen, o) /\ Accounted(o)
  BY <1>1, WorkerFacts
<1>3. PICK next \in {"completed", "failed"} :
         /\ sessions' = [sessions EXCEPT ![o][level] = next]
         /\ UNCHANGED <<packs, orders, operators, spent, runs, proposals>>
  BY <1>1, <1>2 DEF WriteSession
<1>4. PICK step \in {"finish", "undo", "fail"} :
         /\ Takes(w, step, level, seen, left) /\ incidents' \in 0..MaxIncidents
         /\ workers[w].at = "undoing" => step \in Rescued
  <2>1. CASE LeafCompleted(w)
    BY <1>2, <2>1, AwaitedGoes DEF LeafCompleted, Rescue, At
  <2>2. CASE RunUndone(w)
    BY <1>2, <2>2, Goes, Counted DEF RunUndone, Rescued
  <2> QED BY <2>1, <2>2
<1>5. next \in SessionStatus /\ next /= "queued"
  BY DEF SessionStatus
<1>6. OnItsWay(step, level, seen, o)'
  BY DEF OnItsWay
<1>7. step \in Steps \ {"idle"} /\ (workers[w].at \in Rescued => step \in Rescued)
  BY <1>1, <1>4 DEF Rescued, Steps
<1> QED BY <1>1, <1>2, <1>3, <1>4, <1>5, <1>6, <1>7, SessionMove

LEMMA StepThrows ==
    ASSUME OrdersInv, NEW w \in Workers, Throws(w)
    PROVE  OrdersInv'
<1>1. workers[w].at \notin {"idle", "fail"} /\ Incident /\ Goto(w, Rescue(workers[w].at))
      /\ UNCHANGED <<packs, orders, sessions, operators, spent, runs, proposals>>
  BY DEF Throws
<1>2. PICK o \in Orders, level \in Nat, seen \in SessionStatus \union {"none"}, left \in 0..MaxProposals :
         /\ o = Order(w) /\ level = workers[w].level /\ seen = workers[w].seen /\ left = workers[w].left
         /\ level \in 1..Depth[o] /\ OnItsWay(workers[w].at, level, seen, o) /\ Accounted(o)
  BY <1>1, WorkerFacts
<1>3. PICK step \in {"undo", "fail"} : step = Rescue(workers[w].at)
  BY DEF Rescue
<1>4. Takes(w, step, level, seen, left)
  BY <1>1, <1>2, <1>3, Goes
<1>5. OnItsWay(step, level, seen, o)
  BY DEF OnItsWay
<1>6. step \in Steps \ {"idle"} /\ step \in Rescued
  BY DEF Rescued, Steps
<1> QED BY <1>1, <1>2, <1>4, <1>5, <1>6, PureMove, Counted

-----------------------------------------------------------------------------
(* Leaving an order, and leasing the next ones.                            *)

LEMMA IdleType == Idle \in WorkerStates /\ Idle.batch = <<>> /\ DOMAIN Idle.batch = {} /\ Idle.at = "idle"
BY BudgetAssumption DEF Idle, WorkerStates, Steps

\* A worker that is done with the head of its batch has the rest of it, or nothing.
LEMMA Leaves ==
    ASSUME TypeOK, NEW w \in Workers, workers[w].at /= "idle",
           TakeNext(w) \/ workers' = [workers EXCEPT ![w] = Idle]
    PROVE  /\ workers' \in [Workers -> WorkerStates]
           /\ \A v \in Workers \ {w} : workers'[v] = workers[v]
           /\ workers'[w].at \in {"idle", "load"}
           /\ workers'[w].at = "idle" => workers'[w] = Idle
           /\ workers'[w].at = "load" =>
                /\ workers'[w].batch /= <<>> /\ Head(workers'[w].batch) \in Orders
                /\ workers'[w].level = 1
           /\ \A i \in DOMAIN workers'[w].batch :
                i \in Nat /\ i + 1 \in DOMAIN workers[w].batch
                /\ i + 1 /= 1 /\ workers'[w].batch[i] = workers[w].batch[i + 1]
<1>1. workers \in [Workers -> WorkerStates]
  BY Types
<1>2. CASE workers' = [workers EXCEPT ![w] = Idle]
  <2>1. workers'[w] = Idle /\ \A v \in Workers \ {w} : workers'[v] = workers[v]
    BY <1>1, <1>2
  <2>2. workers' \in [Workers -> WorkerStates]
    BY <1>1, <1>2, IdleType
  <2> QED BY <2>1, <2>2, IdleType
<1>3. CASE TakeNext(w)
  <2> DEFINE batch == workers[w].batch
             rest == Tail(batch)
             next == [batch |-> rest, at |-> "load", level |-> 1, seen |-> "none", left |-> 0]
  <2>1. batch \in Seq(Orders) /\ batch /= <<>>
    BY OrderAtWork
  <2>2. /\ rest \in Seq(Orders) /\ Len(batch) \in Nat /\ Len(rest) = Len(batch) - 1
        /\ DOMAIN batch = 1..Len(batch) /\ DOMAIN rest = 1..Len(rest)
        /\ \A i \in 1..Len(rest) : rest[i] = batch[i + 1]
    <3> HIDE DEF batch
    <3> QED BY <2>1, HeadTailProperties, LenProperties
  <2>3. \A i \in DOMAIN rest : i \in Nat /\ i + 1 \in DOMAIN batch /\ i + 1 /= 1 /\ rest[i] = batch[i + 1]
    <3> HIDE DEF rest, batch
    <3> QED BY <2>2
  <2>4. workers' = [workers EXCEPT ![w] = IF rest = <<>> THEN Idle ELSE next]
    BY <1>3 DEF TakeNext, Idle
  <2>5. next \in WorkerStates
    BY <2>2, BudgetAssumption DEF WorkerStates, Steps
  <2>6. next.batch = rest /\ next.at = "load" /\ next.level = 1
    OBVIOUS
  <2>7. rest /= <<>> => Head(rest) \in Orders
    <3> HIDE DEF rest
    <3> QED BY <2>2
  <2>8. CASE rest = <<>>
    <3>1. workers' = [workers EXCEPT ![w] = Idle]
      BY <2>4, <2>8
    <3>2. workers'[w] = Idle /\ \A v \in Workers \ {w} : workers'[v] = workers[v]
      BY <1>1, <3>1
    <3>3. workers' \in [Workers -> WorkerStates]
      BY <1>1, <3>1, IdleType
    <3> QED BY <3>2, <3>3, IdleType
  <2>9. CASE rest /= <<>>
    <3> HIDE DEF next
    <3>1. workers' = [workers EXCEPT ![w] = next]
      BY <2>4, <2>9
    <3>2. workers'[w] = next /\ \A v \in Workers \ {w} : workers'[v] = workers[v]
      BY <1>1, <3>1
    <3>3. workers' \in [Workers -> WorkerStates]
      BY <1>1, <2>5, <3>1
    <3> HIDE DEF rest
    <3> QED BY <2>3, <2>6, <2>7, <2>9, <3>2, <3>3
  <2> QED BY <2>8, <2>9
<1> QED BY <1>2, <1>3

LEMMA Left ==
    ASSUME OrdersInv, NEW w \in Workers, workers[w].at /= "idle",
           TakeNext(w) \/ workers' = [workers EXCEPT ![w] = Idle],
           NEW o \in Orders, o = Order(w),
           orders' \in [Orders -> OrderRows], \A q \in Orders \ {o} : orders'[q] = orders[q],
           orders'[o].status \in {"none", "queued", "failed"} => orders'[o].attempts < MaxAttempts,
           UNCHANGED <<packs, sessions, operators, spent, runs, proposals>>,
           incidents' \in 0..MaxIncidents
    PROVE  OrdersInv'
<1>1. TypeOK /\ HolderInv /\ AnsweredInv
  BY DEF OrdersInv
<1>2. /\ workers' \in [Workers -> WorkerStates]
      /\ \A v \in Workers \ {w} : workers'[v] = workers[v]
      /\ workers'[w].at \in {"idle", "load"}
      /\ workers'[w].at = "idle" => workers'[w] = Idle
      /\ workers'[w].at = "load" =>
           /\ workers'[w].batch /= <<>> /\ Head(workers'[w].batch) \in Orders
           /\ workers'[w].level = 1
      /\ \A i \in DOMAIN workers'[w].batch :
           i \in Nat /\ i + 1 \in DOMAIN workers[w].batch
           /\ i + 1 /= 1 /\ workers'[w].batch[i] = workers[w].batch[i + 1]
  BY <1>1, Leaves
<1>3. TypeOK'
  <2>1. \A v \in Workers :
           IF workers'[v].at = "idle" THEN workers'[v] = Idle
           ELSE workers'[v].batch /= <<>> /\ workers'[v].level \in 1..Depth[Head(workers'[v].batch)]
    BY ZenonT(40), <1>1, <1>2, DepthType DEF TypeOK
  <2> QED BY <1>1, <1>2, <2>1 DEF TypeOK, OrderRows, WorkerStates
<1>4. o = workers[w].batch[1] /\ 1 \in DOMAIN workers[w].batch
  BY <1>1, OrderAtWork
<1>5. \A v \in Workers : \A i \in DOMAIN workers'[v].batch :
         \E j \in DOMAIN workers[v].batch :
             /\ workers'[v].batch[i] = workers[v].batch[j]
             /\ v = w => j = i + 1 /\ j /= 1 /\ i \in Nat
             /\ v /= w => j = i /\ workers'[v] = workers[v]
  <2> SUFFICES ASSUME NEW v \in Workers, NEW i \in DOMAIN workers'[v].batch
               PROVE  \E j \in DOMAIN workers[v].batch :
                        /\ workers'[v].batch[i] = workers[v].batch[j]
                        /\ v = w => j = i + 1 /\ j /= 1 /\ i \in Nat
                        /\ v /= w => j = i /\ workers'[v] = workers[v]
    OBVIOUS
  <2>1. CASE v = w
    BY <1>2, <2>1
  <2>2. CASE v /= w
    BY <1>2, <2>2
  <2> QED BY <2>1, <2>2
<1>6. ASSUME NEW v \in Workers
      PROVE  Holds(v)'
  <2> SUFFICES ASSUME NEW i \in DOMAIN workers'[v].batch
               PROVE  \/ orders'[workers'[v].batch[i]].status = "processing"
                      \/ /\ i = 1 /\ workers'[v].at \in Rescued
                         /\ orders'[workers'[v].batch[i]].status \in Settling
    BY DEF Holds
  <2>1. PICK j \in DOMAIN workers[v].batch :
           /\ workers'[v].batch[i] = workers[v].batch[j]
           /\ v = w => j = i + 1 /\ j /= 1 /\ i \in Nat
           /\ v /= w => j = i /\ workers'[v] = workers[v]
    BY <1>5
  <2>2. workers[v].batch[j] \in Orders \ {o}
    BY <1>1, <1>4, <2>1, InBatch DEF HolderInv, Apart
  <2>3. \/ orders[workers[v].batch[j]].status = "processing"
        \/ j = 1 /\ workers[v].at \in Rescued /\ orders[workers[v].batch[j]].status \in Settling
    BY <1>1 DEF HolderInv, Holds
  <2> QED BY <2>1, <2>2, <2>3
<1>7. Apart'
  <2> SUFFICES ASSUME NEW u \in Workers, NEW v \in Workers,
                      NEW i \in DOMAIN workers'[u].batch, NEW j \in DOMAIN workers'[v].batch,
                      workers'[u].batch[i] = workers'[v].batch[j]
               PROVE  u = v /\ i = j
    BY DEF Apart
  <2>1. PICK k \in DOMAIN workers[u].batch :
           /\ workers'[u].batch[i] = workers[u].batch[k]
           /\ u = w => k = i + 1 /\ k /= 1 /\ i \in Nat
           /\ u /= w => k = i /\ workers'[u] = workers[u]
    BY <1>5
  <2>2. PICK l \in DOMAIN workers[v].batch :
           /\ workers'[v].batch[j] = workers[v].batch[l]
           /\ v = w => l = j + 1 /\ l /= 1 /\ j \in Nat
           /\ v /= w => l = j /\ workers'[v] = workers[v]
    BY <1>5
  <2>3. u = v /\ k = l
    <3>1. workers[u].batch[k] = workers[v].batch[l]
      BY <2>1, <2>2
    <3>2. Apart
      BY <1>1 DEF HolderInv
    <3> QED BY <3>1, <3>2 DEF Apart
  <2> QED BY <2>1, <2>2, <2>3
<1>8. \A q \in Orders : orders'[q].status \in {"none", "queued", "failed"} =>
         orders'[q].attempts < MaxAttempts
  BY <1>1 DEF HolderInv
<1>9. AnsweredInv'
  <2>1. \A q \in Orders : Accounted(q)'
    BY <1>1 DEF AnsweredInv, Accounted, Begun
  <2>2. ASSUME NEW v \in Workers, workers'[v].at /= "idle"
        PROVE  OnItsWay(workers[v].at, workers[v].level, workers[v].seen, Order(v))'
    <3>1. CASE v = w
      BY <1>2, <2>2, <3>1 DEF OnItsWay
    <3>2. CASE v /= w
      <4>1. workers'[v] = workers[v] /\ Order(v)' = Order(v) /\ workers[v].at /= "idle"
        BY <1>2, <2>2, <3>2 DEF Order
      <4> QED BY <1>1, <4>1 DEF AnsweredInv, OnItsWay, Begun
    <3> QED BY <3>1, <3>2
  <2> QED BY <2>1, <2>2 DEF AnsweredInv
<1> QED BY <1>3, <1>6, <1>7, <1>8, <1>9 DEF OrdersInv, HolderInv

\* The order is settled, and the worker goes on or loses the answer.
LEMMA StepSettle ==
    ASSUME OrdersInv, NEW w \in Workers, Park(w) \/ FinishOrder(w)
    PROVE  OrdersInv'
<1>1. workers[w].at \in {"park", "finish"} /\ workers[w].at \notin Rescued
      /\ UNCHANGED <<packs, sessions, operators, spent, runs, proposals>>
  BY DEF Park, FinishOrder, At, Rescued
<1>2. PICK o \in Orders, level \in Nat, seen \in SessionStatus \union {"none"}, left \in 0..MaxProposals :
         /\ o = Order(w) /\ level = workers[w].level /\ seen = workers[w].seen /\ left = workers[w].left
         /\ level \in 1..Depth[o] /\ Accounted(o)
  BY <1>1, WorkerFacts
<1>3. TypeOK /\ HolderInv
  BY DEF OrdersInv
<1>4. PICK status \in {"waiting-evidence", "waiting-approval", "completed"} :
         orders' = [orders EXCEPT ![o].status = status]
  BY <1>2 DEF Park, FinishOrder
<1>5. /\ orders' \in [Orders -> OrderRows] /\ orders'[o].status = status
      /\ \A q \in Orders \ {o} : orders'[q] = orders[q]
  <2>1. orders \in [Orders -> OrderRows] /\ status \in OrderStatus
    BY <1>3, Types DEF OrderStatus
  <2> QED BY <1>4, <2>1 DEF OrderRows
<1>6. CASE TakeNext(w) /\ UNCHANGED incidents
  <2>1. orders'[o].status \notin {"none", "queued", "failed"} /\ incidents' \in 0..MaxIncidents
    BY <1>5, <1>6, Counted
  <2> QED BY <1>1, <1>2, <1>5, <1>6, <2>1, Left
<1>7. CASE Incident /\ \E step \in {"fail", "undo"} : Goto(w, step)
  <2>1. PICK step \in {"fail", "undo"} : Takes(w, step, level, seen, left)
    BY <1>2, <1>7, Goes
  <2>2. PICK new \in WorkerStates :
           /\ workers' = [workers EXCEPT ![w] = new]
           /\ new.batch = workers[w].batch /\ new.at = step /\ new.level = level
           /\ new.seen = seen /\ new.left = left
    <3>1. step \in Steps
      BY DEF Steps
    <3> QED BY <1>2, <1>3, <2>1, <3>1, Taken
  <2>3. /\ sessions' \in [Orders -> Chains] /\ spent' \in Nat
        /\ \A q \in Orders : sessions'[q] \in [1..Depth[q] -> SessionStatus \union {"none"}]
        /\ runs' \in [Orders -> Nat] /\ proposals' \in [Orders -> Seq(Written)]
    BY <1>1, <1>3, Types
  <2>4. \A q \in Orders : Begun(q)' <=> Begun(q)
    BY <1>1 DEF Begun
  <2>5. Accounted(o)' /\ OnItsWay(new.at, new.level, new.seen, o)'
    BY <1>1, <1>2, <2>2, <2>4 DEF Accounted, OnItsWay
  <2>6. incidents' \in 0..MaxIncidents
    BY <1>7, Counted
  <2>7. orders'[o].status \in Settling /\ new.at \in Rescued /\ new.at /= "idle"
    BY <1>5, <2>2 DEF Settling, Rescued
  <2> QED BY <1>1, <1>2, <1>5, <2>2, <2>3, <2>4, <2>5, <2>6, <2>7, Moved
<1> QED BY <1>6, <1>7 DEF Park, FinishOrder

LEMMA StepFailOrder ==
    ASSUME OrdersInv, NEW w \in Workers, FailOrder(w)
    PROVE  OrdersInv'
<1>1. workers[w].at = "fail" /\ TakeNext(w)
      /\ UNCHANGED <<packs, sessions, operators, spent, runs, proposals, incidents>>
  BY DEF FailOrder, At
<1>2. PICK o \in Orders : o = Order(w)
  BY <1>1, WorkerFacts
<1>3. orders \in [Orders -> OrderRows]
  BY Types DEF OrdersInv
<1>4. PICK status \in {"dead", "failed"} :
         /\ orders' = [orders EXCEPT ![o].status = status, ![o].due = FALSE]
         /\ status = "failed" => ~(orders[o].attempts >= MaxAttempts)
  BY <1>2 DEF FailOrder
<1>5. /\ orders' \in [Orders -> OrderRows] /\ \A q \in Orders \ {o} : orders'[q] = orders[q]
      /\ orders'[o].status = status /\ orders'[o].attempts = orders[o].attempts
      /\ orders[o].attempts \in 0..MaxAttempts
  <2>1. status \in OrderStatus
    BY DEF OrderStatus
  <2> QED BY <1>3, <1>4, <2>1 DEF OrderRows
<1>6. orders'[o].status \in {"none", "queued", "failed"} => orders'[o].attempts < MaxAttempts
  BY <1>4, <1>5, BudgetAssumption
<1> QED BY <1>1, <1>2, <1>5, <1>6, Left, Counted

LEMMA StepAbandon ==
    ASSUME OrdersInv, NEW w \in Workers, Abandon(w)
    PROVE  OrdersInv'
<1>1. /\ workers[w].at /= "idle" /\ workers' = [workers EXCEPT ![w] = Idle]
      /\ UNCHANGED <<packs, orders, sessions, operators, spent, runs, proposals>> /\ Incident
  BY DEF Abandon, At
<1>2. PICK o \in Orders : o = Order(w)
  BY <1>1, WorkerFacts
<1>3. orders' \in [Orders -> OrderRows] /\ \A q \in Orders \ {o} : orders'[q] = orders[q]
  BY <1>1, Types DEF OrdersInv
<1>4. orders'[o].status \in {"none", "queued", "failed"} => orders'[o].attempts < MaxAttempts
  BY <1>1 DEF OrdersInv, HolderInv
<1> QED BY <1>1, <1>2, <1>3, <1>4, Left, Counted

\* What is leased is in no batch, and goes into one batch only.
LEMMA StepLease ==
    ASSUME OrdersInv, NEW w \in Workers, Lease(w)
    PROVE  OrdersInv'
<1> DEFINE ready == {o \in Orders : Leasable(o)}
           size == IF Cardinality(ready) < BatchSize THEN Cardinality(ready) ELSE BatchSize
<1>1. /\ workers[w].at = "idle" /\ TypeOK /\ HolderInv /\ AnsweredInv
      /\ UNCHANGED <<packs, sessions, operators, spent, runs, proposals, incidents>>
  BY DEF Lease, At, OrdersInv
<1>2. size \in Nat /\ 1 \in 1..size
  <2>1. IsFiniteSet(ready)
    BY FiniteAssumption, FS_Subset
  <2>2. Cardinality(ready) \in Nat /\ size > 0
    BY <2>1, FS_CardinalityType DEF Lease
  <2> QED BY <2>2, BudgetAssumption
<1>3. PICK batch \in [1..size -> ready] :
         /\ \A i, j \in 1..size : batch[i] = batch[j] => i = j
         /\ orders' = [o \in Orders |->
              IF \E i \in 1..size : batch[i] = o
              THEN [orders[o] EXCEPT !.status = "processing", !.attempts = @ + 1]
              ELSE orders[o]]
         /\ workers' = [workers EXCEPT ![w].batch = batch, ![w].at = "load"]
  BY DEF Lease
<1>4. /\ \A o \in ready : o \in Orders /\ orders[o].status \in {"queued", "failed"}
      /\ ready \subseteq Orders
  BY DEF Leasable
<1> HIDE DEF ready, size
<1>5. /\ batch \in Seq(Orders) /\ batch /= <<>> /\ DOMAIN batch = 1..size
      /\ Head(batch) = batch[1] /\ Head(batch) \in Orders
      /\ \A i \in DOMAIN batch : batch[i] \in Orders /\ orders[batch[i]].status \in {"queued", "failed"}
  <2>1. batch \in [1..size -> Orders]
    BY <1>3, <1>4
  <2>2. batch \in Seq(Orders) /\ DOMAIN batch = 1..size
    BY <1>2, <2>1, SeqDef
  <2>3. batch /= <<>>
    BY <1>2, <2>2
  <2>4. Head(batch) = batch[1] /\ Head(batch) \in Orders
    <3>1. batch \in Seq(Orders) /\ batch /= <<>>
      BY <2>2, <2>3
    <3>2. Head(batch) \in Orders
      BY <3>1, HeadTailProperties
    <3> QED BY <3>2
  <2>5. \A i \in 1..size : batch[i] \in ready
    BY <1>3
  <2> QED BY <1>4, <2>2, <2>3, <2>4, <2>5
<1> DEFINE new == [Idle EXCEPT !.batch = batch, !.at = "load"]
<1>6. /\ workers' = [workers EXCEPT ![w] = new] /\ new \in WorkerStates
      /\ new.batch = batch /\ new.at = "load" /\ new.level = 1
  <2>1. workers[w] = Idle
    BY <1>1 DEF TypeOK
  <2>2. Idle \in WorkerStates /\ Idle.level = 1
    BY IdleType DEF Idle
  <2>3. workers' = [workers EXCEPT ![w] = [workers[w] EXCEPT !.batch = batch, !.at = "load"]]
    BY <1>3
  <2>4. new \in WorkerStates /\ new.batch = batch /\ new.at = "load" /\ new.level = 1
    BY <1>5, <2>2 DEF WorkerStates, Steps
  <2> QED BY <2>1, <2>3, <2>4
<1> HIDE DEF new
<1>7. /\ workers' \in [Workers -> WorkerStates] /\ workers'[w] = new
      /\ \A v \in Workers \ {w} : workers'[v] = workers[v]
  BY <1>1, <1>6, Types
<1>8. \A i \in DOMAIN batch : orders[batch[i]].attempts < MaxAttempts
  BY <1>1, <1>5 DEF HolderInv
<1>9. ASSUME NEW o \in Orders
      PROVE  /\ orders'[o] \in OrderRows
             /\ \/ orders'[o] = orders[o]
                \/ orders'[o].status = "processing" /\ \E i \in DOMAIN batch : batch[i] = o
             /\ (\E i \in DOMAIN batch : batch[i] = o) => orders'[o].status = "processing"
  <2> DEFINE leased == [orders[o] EXCEPT !.status = "processing", !.attempts = @ + 1]
  <2>1. orders[o] \in OrderRows
    BY <1>1, Types
  <2>2. CASE \E i \in DOMAIN batch : batch[i] = o
    <3>1. orders'[o] = leased
      BY <1>3, <1>5, <2>2
    <3>2. orders[o].attempts \in 0..MaxAttempts /\ orders[o].attempts < MaxAttempts
      BY <1>8, <2>1, <2>2 DEF OrderRows
    <3>3. orders[o].attempts + 1 \in 0..MaxAttempts
      BY <3>2, BudgetAssumption
    <3>4. leased \in OrderRows /\ leased.status = "processing"
      BY <2>1, <3>3 DEF OrderRows, OrderStatus
    <3> HIDE DEF leased
    <3> QED BY <2>2, <3>1, <3>4
  <2>3. CASE ~\E i \in DOMAIN batch : batch[i] = o
    <3>1. orders'[o] = orders[o]
      BY <1>3, <1>5, <2>3
    <3> QED BY <2>1, <2>3, <3>1
  <2> QED BY <2>2, <2>3
<1>10. orders' \in [Orders -> OrderRows]
  <2>1. DOMAIN orders' = Orders /\ orders' = [o \in Orders |-> orders'[o]]
    BY <1>3
  <2> QED BY <1>9, <2>1
<1>11. TypeOK'
  <2>1. \A v \in Workers :
           IF workers'[v].at = "idle" THEN workers'[v] = Idle
           ELSE workers'[v].batch /= <<>> /\ workers'[v].level \in 1..Depth[Head(workers'[v].batch)]
    BY <1>1, <1>5, <1>6, <1>7, DepthType DEF TypeOK
  <2> QED BY <1>1, <1>7, <1>10, <2>1 DEF TypeOK, OrderRows, WorkerStates
<1>12. ASSUME NEW v \in Workers \ {w}, NEW i \in DOMAIN workers[v].batch
       PROVE  /\ workers[v].batch[i] \in Orders
              /\ \A j \in DOMAIN batch : batch[j] /= workers[v].batch[i]
              /\ orders'[workers[v].batch[i]] = orders[workers[v].batch[i]]
  <2>1. workers[v].batch[i] \in Orders
    BY <1>1, InBatch
  <2>2. orders[workers[v].batch[i]].status \notin {"queued", "failed"}
    BY <1>1 DEF HolderInv, Holds, Settling
  <2>3. \A j \in DOMAIN batch : batch[j] /= workers[v].batch[i]
    BY <1>5, <2>2
  <2> QED BY <1>9, <2>1, <2>3
<1>13. ASSUME NEW v \in Workers
       PROVE  Holds(v)'
  <2>1. CASE v = w
    BY <1>5, <1>6, <1>7, <1>9, <2>1 DEF Holds
  <2>2. CASE v /= w
    <3>1. workers'[v] = workers[v]
      BY <1>7, <2>2
    <3>2. \A i \in DOMAIN workers[v].batch :
             orders'[workers[v].batch[i]] = orders[workers[v].batch[i]]
      BY <1>12, <2>2
    <3> QED BY <1>1, <3>1, <3>2 DEF HolderInv, Holds
  <2> QED BY <2>1, <2>2
<1>14. Apart'
  <2> SUFFICES ASSUME NEW u \in Workers, NEW v \in Workers,
                      NEW i \in DOMAIN workers'[u].batch, NEW j \in DOMAIN workers'[v].batch,
                      workers'[u].batch[i] = workers'[v].batch[j]
               PROVE  u = v /\ i = j
    BY DEF Apart
  <2>a. workers'[w].batch = batch
    BY <1>6, <1>7
  <2>1. CASE u = w /\ v = w
    <3>1. i \in 1..size /\ j \in 1..size /\ batch[i] = batch[j]
      BY <1>5, <2>a, <2>1
    <3> QED BY <1>3, <2>1, <3>1
  <2>2. CASE u = w /\ v /= w
    <3>1. i \in DOMAIN batch /\ j \in DOMAIN workers[v].batch /\ batch[i] = workers[v].batch[j]
      BY <1>7, <2>a, <2>2
    <3>2. v \in Workers \ {w}
      BY <2>2
    <3> QED BY <1>12, <3>1, <3>2
  <2>3. CASE u /= w /\ v = w
    <3>1. j \in DOMAIN batch /\ i \in DOMAIN workers[u].batch /\ batch[j] = workers[u].batch[i]
      BY <1>7, <2>a, <2>3
    <3>2. u \in Workers \ {w}
      BY <2>3
    <3> QED BY <1>12, <3>1, <3>2
  <2>4. CASE u /= w /\ v /= w
    <3>1. workers'[u] = workers[u] /\ workers'[v] = workers[v]
      BY <1>7, <2>4
    <3> QED BY <1>1, <3>1 DEF HolderInv, Apart
  <2> QED BY <2>1, <2>2, <2>3, <2>4
<1>15. \A o \in Orders : orders'[o].status \in {"none", "queued", "failed"} =>
          orders'[o].attempts < MaxAttempts
  BY <1>1, <1>9 DEF HolderInv
<1>16. AnsweredInv'
  <2>1. \A q \in Orders : Accounted(q)'
    BY <1>1 DEF AnsweredInv, Accounted, Begun
  <2>2. ASSUME NEW v \in Workers, workers'[v].at /= "idle"
        PROVE  OnItsWay(workers[v].at, workers[v].level, workers[v].seen, Order(v))'
    <3>1. CASE v = w
      BY <1>6, <1>7, <3>1 DEF OnItsWay
    <3>2. CASE v /= w
      <4>1. workers'[v] = workers[v] /\ Order(v)' = Order(v) /\ workers[v].at /= "idle"
        BY <1>7, <2>2, <3>2 DEF Order
      <4> QED BY <1>1, <4>1 DEF AnsweredInv, OnItsWay, Begun
    <3> QED BY <3>1, <3>2
  <2> QED BY <2>1, <2>2 DEF AnsweredInv
<1> QED BY <1>11, <1>13, <1>14, <1>15, <1>16 DEF OrdersInv, HolderInv

-----------------------------------------------------------------------------
(* The steps of everybody else.                                            *)

OperatorStates ==
    [op: {"none", "call"}, seen: {"none", "running"}] \union
    [op: {"running", "completed", "failed"}, seen: Active, order: Orders, level: Nat]

LEMMA Elsewhere ==
    ASSUME OrdersInv, UNCHANGED <<workers, runs>>,
           packs' \in [Orders -> {"none", "incomplete", "usable", "expired"}],
           operators' \in [Operators -> OperatorStates],
           \A c \in Operators : operators'[c].op \notin {"none", "call"} =>
             operators'[c].level \in 1..Depth[operators'[c].order],
           spent' \in Nat, incidents' \in 0..MaxIncidents,
           orders' \in [Orders -> OrderRows],
           \A q \in Orders : /\ orders'[q].attempts = orders[q].attempts
                             /\ \/ orders'[q].status = orders[q].status
                                \/ orders[q].status = "none",
           sessions' \in [Orders -> Chains],
           \A q \in Orders : sessions'[q] \in [1..Depth[q] -> SessionStatus \union {"none"}],
           \A q \in Orders : Begun(q) => Begun(q)',
           proposals' \in [Orders -> Seq(Written)], \A q \in Orders : Accounted(q)'
    PROVE  OrdersInv'
<1>1. TypeOK /\ HolderInv /\ AnsweredInv
  BY DEF OrdersInv
<1>2. TypeOK'
  BY <1>1 DEF TypeOK, OperatorStates, OrderRows, Chains, Written
<1>3. ASSUME NEW v \in Workers, NEW i \in DOMAIN workers[v].batch
      PROVE  orders'[workers[v].batch[i]].status = orders[workers[v].batch[i]].status
  <2>1. workers[v].batch[i] \in Orders
    BY <1>1, InBatch
  <2>2. orders[workers[v].batch[i]].status /= "none"
    BY <1>1 DEF HolderInv, Holds, Settling
  <2> QED BY <2>1, <2>2
<1>4. ASSUME NEW v \in Workers
      PROVE  Holds(v)'
  <2>1. Holds(v)
    BY <1>1 DEF HolderInv
  <2> QED BY ZenonT(40), <1>3, <2>1 DEF Holds
<1>a. Apart'
  BY <1>1 DEF HolderInv, Apart
<1>5. \A q \in Orders : orders'[q].status \in {"none", "queued", "failed"} =>
         orders'[q].attempts < MaxAttempts
  BY <1>1 DEF HolderInv
<1>6. ASSUME NEW v \in Workers, workers[v].at /= "idle"
      PROVE  OnItsWay(workers[v].at, workers[v].level, workers[v].seen, Order(v))'
  <2>1. Order(v) \in Orders /\ Order(v)' = Order(v)
    BY <1>1, <1>6, OrderAtWork DEF Order
  <2> QED BY <1>1, <1>6, <2>1 DEF AnsweredInv, OnItsWay
<1>7. AnsweredInv'
  BY <1>6 DEF AnsweredInv
<1> QED BY <1>2, <1>4, <1>a, <1>5, <1>7 DEF OrdersInv, HolderInv

LEMMA Others ==
    ASSUME OrdersInv
    PROVE  /\ operators \in [Operators -> OperatorStates] /\ orders \in [Orders -> OrderRows]
           /\ \A c \in Operators : operators[c].op \notin {"none", "call"} =>
                operators[c].level \in 1..Depth[operators[c].order]
           /\ packs \in [Orders -> {"none", "incomplete", "usable", "expired"}]
           /\ sessions \in [Orders -> Chains] /\ proposals \in [Orders -> Seq(Written)]
           /\ \A o \in Orders : sessions[o] \in [1..Depth[o] -> SessionStatus \union {"none"}]
           /\ spent \in Nat /\ incidents \in 0..MaxIncidents
           /\ \A o \in Orders : Accounted(o)
BY Types DEF OrdersInv, TypeOK, AnsweredInv, OperatorStates

LEMMA StepEvidence ==
    ASSUME OrdersInv, NEW o \in Orders, BuildPack(o) \/ PackExpires(o)
    PROVE  OrdersInv'
<1>1. PICK pack \in {"incomplete", "usable", "expired"} : packs' = [packs EXCEPT ![o] = pack]
  BY DEF BuildPack, PackExpires
<1>2. packs' \in [Orders -> {"none", "incomplete", "usable", "expired"}]
  BY <1>1, Others
<1>3. UNCHANGED <<orders, sessions, workers, operators, spent, runs, proposals, incidents>>
  BY DEF BuildPack, PackExpires
<1>4. \A q \in Orders : (Begun(q) => Begun(q)') /\ Accounted(q)'
  BY <1>3, Others DEF Begun, Accounted
<1> QED BY <1>2, <1>3, <1>4, Others, Elsewhere

LEMMA StepEnqueue ==
    ASSUME OrdersInv, NEW o \in Orders, Enqueue(o)
    PROVE  OrdersInv'
<1>1. /\ UNCHANGED <<packs, sessions, workers, operators, spent, runs, proposals, incidents>>
      /\ orders[o].status = "none"
  BY DEF Enqueue
<1>2. PICK status \in {"waiting-evidence", "queued", "skipped"} :
         orders' = [orders EXCEPT ![o].status = status]
  <2>1. PICK wakes \in BOOLEAN :
           orders' = [orders EXCEPT ![o].status =
                        CASE ~PackSuffices[o] -> "waiting-evidence"
                          [] PackSuffices[o] /\ wakes -> "queued"
                          [] OTHER -> "skipped"]
    BY DEF Enqueue
  <2>2. CASE ~PackSuffices[o]
    BY <2>1, <2>2
  <2>3. CASE PackSuffices[o] /\ wakes
    BY <2>1, <2>3
  <2>4. CASE PackSuffices[o] /\ ~wakes
    BY <2>1, <2>4
  <2> QED BY <2>2, <2>3, <2>4
<1>3. /\ orders' \in [Orders -> OrderRows]
      /\ \A q \in Orders : /\ orders'[q].attempts = orders[q].attempts
                           /\ q /= o => orders'[q].status = orders[q].status
  <2>1. orders \in [Orders -> OrderRows] /\ status \in OrderStatus
    BY Others DEF OrderStatus
  <2> QED BY <1>2, <2>1 DEF OrderRows
<1>4. \A q \in Orders : (Begun(q) => Begun(q)') /\ Accounted(q)'
  BY <1>1, Others DEF Begun, Accounted
<1> QED BY <1>1, <1>3, <1>4, Others, Elsewhere

LEMMA StepBackoff ==
    ASSUME OrdersInv, NEW o \in Orders, BackoffElapses(o)
    PROVE  OrdersInv'
<1>1. /\ UNCHANGED <<packs, sessions, workers, operators, spent, runs, proposals, incidents>>
      /\ orders' = [orders EXCEPT ![o].due = TRUE]
  BY DEF BackoffElapses
<1>2. /\ orders' \in [Orders -> OrderRows]
      /\ \A q \in Orders : orders'[q].attempts = orders[q].attempts /\ orders'[q].status = orders[q].status
  BY ZenonT(40), <1>1, Others DEF OrderRows
<1>3. \A q \in Orders : (Begun(q) => Begun(q)') /\ Accounted(q)'
  BY <1>1, Others DEF Begun, Accounted
<1> QED BY <1>1, <1>2, <1>3, Others, Elsewhere

LEMMA StepDecideProposal ==
    ASSUME OrdersInv, NEW o \in Orders, DecideProposal(o)
    PROVE  OrdersInv'
<1>1. UNCHANGED <<packs, orders, sessions, workers, operators, spent, runs, incidents>>
  BY DEF DecideProposal
<1>2. PICK i \in DOMAIN proposals[o], status \in {"approved", "rejected", "superseded"} :
         proposals' = [proposals EXCEPT ![o][i].status = status]
  BY DEF DecideProposal
<1> DEFINE before == proposals[o]
           decided == [before[i] EXCEPT !.status = status]
           after == [before EXCEPT ![i] = decided]
<1>3. before \in Seq(Written) /\ i \in DOMAIN before
  BY <1>2, Others
<1>4. before[i] \in Written
  <2> HIDE DEF before
  <2> QED BY <1>3
<1>5. decided \in Written /\ decided.run = before[i].run
  BY <1>4 DEF Written
<1>6. proposals' = [proposals EXCEPT ![o] = after]
  BY <1>2
<1>7. /\ after \in Seq(Written) /\ DOMAIN after = DOMAIN before
      /\ \A j \in DOMAIN after : after[j].run = before[j].run
  <2> HIDE DEF before, decided
  <2>1. after \in Seq(Written) /\ DOMAIN after = DOMAIN before
    BY <1>3, <1>5, ExceptSeq
  <2> QED BY <1>5, <2>1
<1> HIDE DEF after, decided
<1>8. /\ proposals' \in [Orders -> Seq(Written)] /\ proposals'[o] = after
      /\ \A q \in Orders \ {o} : proposals'[q] = proposals[q]
  BY <1>6, <1>7, Others
<1>9. ASSUME NEW q \in Orders
      PROVE  Accounted(q)'
  <2>1. CASE q = o
    <3>1. Accounted(o)
      BY Others
    <3>2. proposals[o] = <<>> => proposals'[o] = <<>>
      BY <1>3
    <3>3. \A j \in DOMAIN proposals'[o] : proposals'[o][j].run = runs[o]
      BY <1>7, <1>8, <3>1 DEF Accounted
    <3> QED BY <1>1, <2>1, <3>1, <3>2, <3>3 DEF Accounted, Begun
  <2>2. CASE q /= o
    BY <1>1, <1>8, <2>2, Others DEF Accounted, Begun
  <2> QED BY <2>1, <2>2
<1>10. \A q \in Orders : (Begun(q) => Begun(q)')
  BY <1>1 DEF Begun
<1> QED BY <1>1, <1>8, <1>9, <1>10, Others, Elsewhere

LEMMA StepOperator ==
    ASSUME OrdersInv, NEW c \in Operators,
           OperatorReads(c) \/ OperatorWrites(c) \/ ShadowRun(c) \/ ShadowAnswer(c)
    PROVE  OrdersInv'
<1>1. UNCHANGED <<packs, orders, workers, runs, proposals, incidents>>
  BY DEF OperatorReads, OperatorWrites, ShadowRun, ShadowAnswer
<1>2. PICK request \in OperatorStates :
         /\ operators' = [operators EXCEPT ![c] = request]
         /\ request.op \notin {"none", "call"} => request.level \in 1..Depth[request.order]
  <2>1. CASE OperatorReads(c)
    <3>1. PICK o \in Orders : \E l \in 1..Depth[o] : \E next \in SessionStatus :
             /\ Request(sessions[o][l], next)
             /\ operators' = [operators EXCEPT ![c] =
                                [op |-> next, seen |-> sessions[o][l], order |-> o, level |-> l]]
      BY <2>1 DEF OperatorReads
    <3>2. PICK l \in 1..Depth[o], next \in SessionStatus :
             /\ Request(sessions[o][l], next)
             /\ operators' = [operators EXCEPT ![c] =
                                [op |-> next, seen |-> sessions[o][l], order |-> o, level |-> l]]
      BY <3>1
    <3>3. next \in {"running", "completed", "failed"} /\ sessions[o][l] \in Active /\ l \in Nat
      BY <3>2, ChainAssumption DEF Request, Active
    <3> DEFINE request == [op |-> next, seen |-> sessions[o][l], order |-> o, level |-> l]
    <3>4. request \in OperatorStates /\ request.level = l /\ request.order = o
      BY <3>3 DEF OperatorStates
    <3> QED BY <3>2, <3>4
  <2>2. CASE OperatorWrites(c) \/ ShadowAnswer(c)
    <3>1. operators' = [operators EXCEPT ![c] = Free]
      BY <2>2 DEF OperatorWrites, ShadowAnswer
    <3>2. Free \in OperatorStates /\ Free.op = "none"
      BY DEF Free, OperatorStates
    <3> QED BY <3>1, <3>2
  <2>3. CASE ShadowRun(c)
    <3> DEFINE request == [op |-> "call", seen |-> "running"]
    <3>1. operators' = [operators EXCEPT ![c] = request]
      BY <2>3 DEF ShadowRun
    <3>2. request \in OperatorStates /\ request.op = "call"
      BY DEF OperatorStates
    <3> QED BY <3>1, <3>2
  <2> QED BY <2>1, <2>2, <2>3
<1>3. /\ operators' \in [Operators -> OperatorStates]
      /\ \A d \in Operators : operators'[d].op \notin {"none", "call"} =>
           operators'[d].level \in 1..Depth[operators'[d].order]
  BY <1>2, Others
<1>4. spent' \in Nat
  BY Others, BudgetAssumption DEF OperatorReads, OperatorWrites, ShadowRun, ShadowAnswer
<1>5. /\ sessions' \in [Orders -> Chains]
      /\ \A q \in Orders : sessions'[q] \in [1..Depth[q] -> SessionStatus \union {"none"}]
      /\ \A q \in Orders : Begun(q) => Begun(q)'
  <2>1. CASE UNCHANGED sessions
    BY <2>1, Others DEF Begun
  <2>2. CASE OperatorWrites(c)
    <3>1. operators[c] \in OperatorStates /\ operators[c].op \notin {"none", "call"}
      BY <2>2, Others DEF OperatorWrites
    <3>2. PICK o \in Orders, next \in {"running", "completed", "failed"}, l \in Nat :
             o = operators[c].order /\ next = operators[c].op /\ l = operators[c].level
      BY <3>1 DEF OperatorStates
    <3>3. l \in 1..Depth[o] /\ next \in SessionStatus /\ next /= "queued"
      BY <3>1, <3>2, Others DEF SessionStatus, Active
    <3>4. sessions' = [sessions EXCEPT ![o][l] = next]
      BY <2>2, <3>2 DEF OperatorWrites
    <3>5. TypeOK
      BY DEF OrdersInv
    <3> QED BY <3>3, <3>4, <3>5, SessionWritten
  <2> QED BY <2>1, <2>2 DEF OperatorReads, ShadowRun, ShadowAnswer
<1>6. \A q \in Orders : Accounted(q)'
  BY <1>1, <1>5, Others DEF Accounted
<1> QED BY <1>1, <1>3, <1>4, <1>5, <1>6, Others, Elsewhere

LEMMA StepOrders ==
    ASSUME OrdersInv, Next
    PROVE  OrdersInv'
<1>1. CASE \E o \in Orders : BuildPack(o) \/ PackExpires(o) \/ Enqueue(o) \/ BackoffElapses(o)
                             \/ DecideProposal(o)
  BY <1>1, StepEvidence, StepEnqueue, StepBackoff, StepDecideProposal
<1>2. CASE \E c \in Operators : OperatorReads(c) \/ OperatorWrites(c) \/ ShadowRun(c) \/ ShadowAnswer(c)
  BY <1>2, StepOperator
<1>3. ASSUME NEW w \in Workers, Process(w)
      PROVE  OrdersInv'
  BY <1>3, StepLoad, StepCreateSession, StepSettle, StepStartSession, StepSessionStarted,
     StepCloseParent, StepParentClosed, StepCheckBudget, StepAnswer, StepSaveProposal,
     StepCompleteLeaf, StepLeafCompleted, StepFailOrder DEF Process
<1>4. CASE \E w \in Workers : Lease(w) \/ Process(w) \/ Throws(w) \/ Abandon(w)
  BY <1>3, <1>4, StepLease, StepThrows, StepAbandon
<1> QED BY <1>1, <1>2, <1>4 DEF Next

-----------------------------------------------------------------------------
(* The daily budget.                                                       *)

LEMMA Times ==
    ASSUME NEW b \in Nat, NEW k \in Nat, NEW m \in Nat, k <= m
    PROVE  k * b \in Nat /\ m * b \in Nat /\ k * b <= m * b
<1>1. PICK d \in Nat : m = k + d
  <2>1. m - k \in Nat /\ m = k + (m - k)
    OBVIOUS
  <2> QED BY <2>1
<1>2. (k + d) * b = k * b + d * b
  OBVIOUS
<1>3. k * b \in Nat /\ d * b \in Nat /\ (k + d) * b \in Nat
  OBVIOUS
<1> QED BY <1>1, <1>2, <1>3

LEMMA CallsAreFinite ==
    /\ IsFiniteSet(Calling) /\ Cardinality(Calling) \in Nat /\ Cardinality(Calling) <= Cardinality(Workers)
    /\ IsFiniteSet(Asking) /\ Cardinality(Asking) \in Nat /\ Cardinality(Asking) <= Cardinality(Operators)
    /\ Cardinality(Workers) \in Nat /\ Cardinality(Operators) \in Nat /\ Cardinality(Orders) \in Nat
    /\ Calls \in Nat /\ Callers \in Nat
<1>1. Calling \in SUBSET Workers /\ Asking \in SUBSET Operators
  BY DEF Calling, Asking
<1>2. /\ IsFiniteSet(Calling) /\ Cardinality(Calling) <= Cardinality(Workers)
      /\ IsFiniteSet(Asking) /\ Cardinality(Asking) <= Cardinality(Operators)
  BY <1>1, FiniteAssumption, FS_Subset
<1>3. /\ Cardinality(Calling) \in Nat /\ Cardinality(Asking) \in Nat
      /\ Cardinality(Workers) \in Nat /\ Cardinality(Operators) \in Nat /\ Cardinality(Orders) \in Nat
  BY <1>2, FiniteAssumption, FS_CardinalityType
<1> QED BY <1>2, <1>3 DEF Calls, Callers

\* The workers that call hold different orders.
LEMMA CallsBounded ==
    ASSUME OrdersInv
    PROVE  Calls <= Callers
<1> DEFINE held == [w \in Calling |-> Order(w)]
<1>1. ASSUME NEW w \in Calling
      PROVE  w \in Workers /\ Order(w) \in Orders /\ Order(w) = workers[w].batch[1]
             /\ 1 \in DOMAIN workers[w].batch
  BY OrderAtWork DEF Calling, OrdersInv
<1>2. \A v, w \in Calling : Order(v) = Order(w) => v = w
  BY <1>1 DEF OrdersInv, HolderInv, Apart
<1>3. held \in Injection(Calling, Orders)
  BY <1>1, <1>2 DEF Injection, IsInjective
<1>4. Cardinality(Calling) <= Cardinality(Orders)
  <2> HIDE DEF held
  <2> QED BY <1>3, FiniteAssumption, FS_Injection
<1> QED BY <1>4, CallsAreFinite DEF Calls, Callers

LEMMA SpendKept ==
    ASSUME TypeOK, SpendInv, UNCHANGED spent, Calling' \subseteq Calling, Asking' \subseteq Asking
    PROVE  SpendInv'
<1>1. CASE spent = 0 /\ Calling = {} /\ Asking = {}
  BY <1>1 DEF SpendInv
<1>2. CASE spent + Calls * RunBudget <= DailyBudget - Estimate + Callers * RunBudget
  <2>1. PICK calling, asking : calling = Calling' /\ asking = Asking'
    OBVIOUS
  <2>2. /\ Cardinality(calling) \in Nat /\ Cardinality(calling) <= Cardinality(Calling)
        /\ Cardinality(asking) \in Nat /\ Cardinality(asking) <= Cardinality(Asking)
    <3>1. calling \in SUBSET Calling /\ asking \in SUBSET Asking
      BY <2>1
    <3> QED BY <3>1, CallsAreFinite, FS_Subset, FS_CardinalityType
  <2>3. PICK calls \in Nat : calls = Calls' /\ calls <= Calls
    BY <2>1, <2>2, CallsAreFinite DEF Calls
  <2>4. calls * RunBudget <= Calls * RunBudget /\ calls * RunBudget \in Nat /\ Calls * RunBudget \in Nat
    BY <2>3, CallsAreFinite, Times, BudgetAssumption
  <2>5. Callers * RunBudget \in Nat
    BY CallsAreFinite, Times, BudgetAssumption
  <2>6. spent' + Calls' * RunBudget <= DailyBudget - Estimate + Callers * RunBudget
    <3> DEFINE before == Calls * RunBudget
               after == calls * RunBudget
               bound == Callers * RunBudget
    <3>1. before \in Nat /\ after \in Nat /\ bound \in Nat /\ after <= before
      BY <2>4, <2>5
    <3>2. spent + before <= DailyBudget - Estimate + bound
      BY <1>2
    <3> HIDE DEF before, after, bound
    <3>3. spent + after <= DailyBudget - Estimate + bound
      BY <3>1, <3>2, BudgetAssumption DEF TypeOK
    <3> QED BY <2>3, <3>3 DEF after, bound
  <2> QED BY <2>6 DEF SpendInv
<1> QED BY <1>1, <1>2 DEF SpendInv

\* A call that begins was admitted against the recorded total.
LEMMA SpendAdmitted ==
    ASSUME TypeOK, OrdersInv', WithinBudget, UNCHANGED spent
    PROVE  SpendInv'
<1>1. PICK calls \in Nat : calls = Calls' /\ calls <= Callers
  <2>1. (Calls <= Callers)' /\ (Calls \in Nat)'
    BY CallsBounded, CallsAreFinite, PTL
  <2> QED BY <2>1 DEF Callers
<1>2. calls * RunBudget <= Callers * RunBudget /\ calls * RunBudget \in Nat /\ Callers * RunBudget \in Nat
  BY <1>1, CallsAreFinite, Times, BudgetAssumption
<1>3. spent' + Calls' * RunBudget <= DailyBudget - Estimate + Callers * RunBudget
  <2> DEFINE after == calls * RunBudget
             bound == Callers * RunBudget
  <2>1. after \in Nat /\ bound \in Nat /\ after <= bound
    BY <1>2
  <2> HIDE DEF after, bound
  <2>2. spent + after <= DailyBudget - Estimate + bound
    BY <2>1, BudgetAssumption DEF TypeOK, WithinBudget
  <2> QED BY <1>1, <2>2 DEF after, bound
<1> QED BY <1>3 DEF SpendInv

\* A call that ends costs no more than was kept for it.
LEMMA SpendPaid ==
    ASSUME TypeOK, SpendInv, NEW cost \in Nat, cost <= RunBudget, spent' = spent + cost,
           Calls' = Calls - 1, Calling /= {} \/ Asking /= {}
    PROVE  SpendInv'
<1>1. spent + Calls * RunBudget <= DailyBudget - Estimate + Callers * RunBudget
  BY DEF SpendInv
<1>2. Calls * RunBudget = (Calls - 1) * RunBudget + RunBudget
  BY CallsAreFinite, BudgetAssumption
<1>3. spent' + Calls' * RunBudget <= DailyBudget - Estimate + Callers * RunBudget
  <2> DEFINE after == (Calls - 1) * RunBudget
             bound == Callers * RunBudget
  <2>1. after \in Int /\ bound \in Int
    BY CallsAreFinite, BudgetAssumption
  <2>2. spent + (after + RunBudget) <= DailyBudget - Estimate + bound
    BY <1>1, <1>2
  <2> HIDE DEF after, bound
  <2>3. spent + cost + after <= DailyBudget - Estimate + bound
    BY <2>1, <2>2, BudgetAssumption DEF TypeOK
  <2> QED BY <2>3 DEF after, bound
<1> QED BY <1>3 DEF SpendInv

LEMMA StepSpend ==
    ASSUME OrdersInv, OrdersInv', SpendInv, Next
    PROVE  SpendInv'
<1>1. TypeOK
  BY DEF OrdersInv
<1>2. CASE \E o \in Orders : BuildPack(o) \/ PackExpires(o) \/ Enqueue(o) \/ BackoffElapses(o)
                             \/ DecideProposal(o)
  <2>1. UNCHANGED <<workers, operators, spent>>
    BY <1>2 DEF BuildPack, PackExpires, Enqueue, BackoffElapses, DecideProposal
  <2>2. Calling' \subseteq Calling /\ Asking' \subseteq Asking
    BY <2>1 DEF Calling, Asking
  <2> QED BY <1>1, <2>1, <2>2, SpendKept
<1>3. ASSUME NEW w \in Workers, Lease(w) \/ Process(w) \/ Throws(w) \/ Abandon(w)
      PROVE  SpendInv'
  <2>1. CASE CheckBudget(w)
    <3>1. UNCHANGED <<operators, spent>> /\ Goto(w, IF WithinBudget THEN "call" ELSE "undo")
      BY <2>1 DEF CheckBudget
    <3>2. CASE WithinBudget
      BY <1>1, <3>1, <3>2, SpendAdmitted
    <3>3. CASE ~WithinBudget
      <4>1. Calling' \subseteq Calling /\ Asking' \subseteq Asking
        BY <1>1, <3>1, <3>3 DEF Calling, Asking, Goto, TypeOK
      <4> QED BY <1>1, <3>1, <4>1, SpendKept
    <3> QED BY <3>2, <3>3
  <2>2. CASE Answer(w)
    <3>1. workers[w].at = "call" /\ UNCHANGED operators
      BY <2>2 DEF Answer, At
    <3>2. CASE Goto(w, "undo") /\ UNCHANGED spent
      <4>1. Calling' \subseteq Calling /\ Asking' \subseteq Asking
        BY <1>1, <3>1, <3>2 DEF Calling, Asking, Goto, TypeOK
      <4> QED BY <1>1, <3>2, <4>1, SpendKept
    <3>3. ASSUME NEW cost \in Costs, NEW left \in 0..MaxProposals, NEW valid \in BOOLEAN,
                 cost <= RunBudget, spent' = spent + cost,
                 workers' = [workers EXCEPT ![w].left = left, ![w].at = IF valid THEN "save" ELSE "undo"]
          PROVE  SpendInv'
      <4>1. PICK step \in {"save", "undo"} :
               workers' = [workers EXCEPT ![w].left = left, ![w].at = step]
        BY <3>3
      <4>2. /\ workers'[w].at = step /\ \A v \in Workers \ {w} : workers'[v] = workers[v]
        BY <1>1, <4>1 DEF TypeOK
      <4>3. Calling' = Calling \ {w} /\ w \in Calling /\ Asking' = Asking
        BY <3>1, <4>2 DEF Calling, Asking
      <4>4. Cardinality(Calling \ {w}) = Cardinality(Calling) - 1
        BY <4>3, CallsAreFinite, FS_RemoveElement
      <4>5. Calls' = Calls - 1
        BY <4>3, <4>4, CallsAreFinite DEF Calls
      <4>6. cost \in Nat /\ Calling /= {}
        BY <4>3, BudgetAssumption
      <4> QED BY <1>1, <3>3, <4>5, <4>6, SpendPaid
    <3> QED BY <2>2, <3>2, <3>3 DEF Answer
  <2>3. CASE ~CheckBudget(w) /\ ~Answer(w)
    <3>1. UNCHANGED <<operators, spent>>
      BY <1>3, <2>3 DEF Lease, Process, Load, CreateSession, Park, StartSession, SessionStarted,
         CloseParent, ParentClosed, SaveProposal, CompleteLeaf, LeafCompleted, FinishOrder, UndoRun,
         RunUndone, FailOrder, Throws, Abandon, ReadFor, WriteSession
    <3>2. \A v \in Workers \ {w} : workers'[v] = workers[v]
      <4>1. workers \in [Workers -> WorkerStates]
        BY <1>1, Types
      <4>2. CASE Lease(w)
        BY <4>1, <4>2 DEF Lease
      <4>3. CASE Load(w) \/ Throws(w) \/ Abandon(w) \/ StartSession(w) \/ CloseParent(w)
                 \/ CompleteLeaf(w) \/ UndoRun(w) \/ RunUndone(w)
        BY <4>1, <4>3 DEF Load, Throws, Abandon, StartSession, CloseParent, CompleteLeaf, UndoRun,
           RunUndone, Goto, ReadFor
      <4>4. CASE CreateSession(w)
        BY <4>1, <4>4 DEF CreateSession, Created, Goto
      <4>5. CASE Park(w) \/ FinishOrder(w) \/ FailOrder(w)
        BY <4>1, <4>5 DEF Park, FinishOrder, FailOrder, TakeNext, Goto
      <4>6. CASE SessionStarted(w) \/ ParentClosed(w) \/ LeafCompleted(w)
        BY <4>1, <4>6 DEF SessionStarted, ParentClosed, LeafCompleted, Awaited, Descend, Goto
      <4>7. CASE SaveProposal(w)
        BY <4>1, <4>7 DEF SaveProposal, Goto
      <4> QED BY <1>3, <2>3, <4>2, <4>3, <4>4, <4>5, <4>6, <4>7 DEF Process
    <3>3. workers'[w].at /= "call"
      <4>1. workers \in [Workers -> WorkerStates]
        BY <1>1, Types
      <4>2. CASE Lease(w)
        <5>1. PICK batch : workers' = [workers EXCEPT ![w].batch = batch, ![w].at = "load"]
          BY <4>2 DEF Lease
        <5> QED BY <4>1, <5>1 DEF WorkerStates
      <4>3. CASE Load(w) \/ Throws(w) \/ Abandon(w) \/ StartSession(w) \/ CloseParent(w)
                 \/ CompleteLeaf(w) \/ UndoRun(w) \/ RunUndone(w)
        BY <4>1, <4>3 DEF Load, Throws, Abandon, StartSession, CloseParent, CompleteLeaf, UndoRun,
           RunUndone, Goto, ReadFor, Rescue, Idle, WorkerStates
      <4>4. CASE CreateSession(w)
        BY <4>1, <4>4 DEF CreateSession, Created, Goto, WorkerStates
      <4>5. CASE Park(w) \/ FinishOrder(w) \/ FailOrder(w)
        <5>1. TakeNext(w) \/ Goto(w, "fail") \/ Goto(w, "undo")
          BY <4>5 DEF Park, FinishOrder, FailOrder
        <5>2. workers[w].at /= "idle"
          BY <4>5 DEF Park, FinishOrder, FailOrder, At
        <5> QED BY <1>1, <4>1, <5>1, <5>2, Leaves DEF Goto, WorkerStates
      <4>6. CASE SessionStarted(w) \/ ParentClosed(w) \/ LeafCompleted(w)
        BY <4>1, <4>6 DEF SessionStarted, ParentClosed, LeafCompleted, Awaited, Descend, Goto, At,
           Rescue, WorkerStates
      <4>7. CASE SaveProposal(w)
        BY <4>1, <4>7 DEF SaveProposal, At, Goto, WorkerStates
      <4> QED BY <1>3, <2>3, <4>2, <4>3, <4>4, <4>5, <4>6, <4>7 DEF Process
    <3>4. Calling' \subseteq Calling /\ Asking' \subseteq Asking
      BY <3>1, <3>2, <3>3 DEF Calling, Asking
    <3> QED BY <1>1, <3>1, <3>4, SpendKept
  <2> QED BY <2>1, <2>2, <2>3
<1>4. ASSUME NEW c \in Operators,
             OperatorReads(c) \/ OperatorWrites(c) \/ ShadowRun(c) \/ ShadowAnswer(c)
      PROVE  SpendInv'
  <2>1. UNCHANGED workers /\ operators \in [Operators -> OperatorStates]
    BY <1>4, Others DEF OperatorReads, OperatorWrites, ShadowRun, ShadowAnswer
  <2>2. CASE OperatorReads(c) \/ OperatorWrites(c)
    <3>1. UNCHANGED spent
      BY <2>2 DEF OperatorReads, OperatorWrites
    <3>2. \A d \in Operators \ {c} : operators'[d] = operators[d]
      BY <2>1, <2>2 DEF OperatorReads, OperatorWrites
    <3>3. operators'[c].op /= "call"
      BY <2>1, <2>2 DEF OperatorReads, OperatorWrites, Free, Request
    <3>4. Calling' \subseteq Calling /\ Asking' \subseteq Asking
      BY <2>1, <3>2, <3>3 DEF Calling, Asking
    <3> QED BY <1>1, <3>1, <3>4, SpendKept
  <2>3. CASE ShadowRun(c)
    BY <1>1, <2>3, SpendAdmitted DEF ShadowRun
  <2>4. CASE ShadowAnswer(c)
    <3>1. /\ operators[c].op = "call" /\ operators' = [operators EXCEPT ![c] = Free]
          /\ \/ \E cost \in Costs : cost <= RunBudget /\ spent' = spent + cost
             \/ UNCHANGED spent
      BY <2>4 DEF ShadowAnswer
    <3>2. Calling' = Calling /\ Asking' = Asking \ {c} /\ c \in Asking
      BY <2>1, <3>1 DEF Calling, Asking, Free
    <3>3. CASE UNCHANGED spent
      BY <1>1, <3>2, <3>3, SpendKept
    <3>4. ASSUME NEW cost \in Costs, cost <= RunBudget, spent' = spent + cost
          PROVE  SpendInv'
      <4>1. Cardinality(Asking \ {c}) = Cardinality(Asking) - 1
        BY <3>2, CallsAreFinite, FS_RemoveElement
      <4>2. Calls' = Calls - 1
        BY <3>2, <4>1, CallsAreFinite DEF Calls
      <4>3. cost \in Nat /\ Asking /= {}
        BY <3>2, BudgetAssumption
      <4> QED BY <1>1, <3>4, <4>2, <4>3, SpendPaid
    <3> QED BY <3>1, <3>3, <3>4
  <2> QED BY <1>4, <2>2, <2>3, <2>4
<1> QED BY <1>2, <1>3, <1>4 DEF Next

-----------------------------------------------------------------------------
(* The theorems.                                                           *)

LEMMA WorkOrdersInvariant == Spec => [](OrdersInv /\ SpendInv)
<1>1. Init => OrdersInv /\ SpendInv
  BY InitOrders
<1>2. OrdersInv /\ SpendInv /\ [Next]_vars => OrdersInv' /\ SpendInv'
  <2> SUFFICES ASSUME OrdersInv, SpendInv, [Next]_vars
               PROVE  OrdersInv' /\ SpendInv'
    OBVIOUS
  <2>1. CASE Next
    BY <2>1, StepOrders, StepSpend
  <2>2. CASE UNCHANGED vars
    <3>1. UNCHANGED <<packs, orders, sessions, workers, operators, spent, runs, proposals, incidents>>
      BY <2>2 DEF vars
    <3>2. \A q \in Orders : (Begun(q) => Begun(q)') /\ Accounted(q)'
      BY <3>1, Others DEF Begun, Accounted
    <3>3. OrdersInv'
      BY <3>1, <3>2, Others, Elsewhere
    <3>4. Calling' \subseteq Calling /\ Asking' \subseteq Asking /\ TypeOK
      BY <3>1 DEF Calling, Asking, OrdersInv
    <3> QED BY <3>1, <3>3, <3>4, SpendKept
  <2> QED BY <2>1, <2>2
<1> QED BY <1>1, <1>2, PTL DEF Spec

\* Types: every status, step and level is one the tables and the worker know, and a worker
\* that is at work has an order and a level of its chain of command.
THEOREM TypeCorrect == Spec => []TypeOK
BY WorkOrdersInvariant, PTL DEF OrdersInv

\* leaseWorkOrders never hands out an order that a worker still has in its batch: an order
\* is in the batch of at most one worker, and is processing until that worker settles it.
THEOREM OneWorkerHolds == Spec => []OneHolder
<1>1. OrdersInv => OneHolder
  <2> SUFFICES ASSUME OrdersInv, NEW o \in Orders
               PROVE  /\ \A v, w \in Workers : Handled(v, o) /\ Handled(w, o) => v = w
                      /\ \A w \in Workers :
                           Handled(w, o) /\ ~At(w, "undo") /\ ~At(w, "undoing") /\ ~At(w, "fail")
                             => orders[o].status = "processing"
    BY DEF OneHolder
  <2>1. \A v, w \in Workers : Handled(v, o) /\ Handled(w, o) => v = w
    BY DEF OrdersInv, HolderInv, Apart, Handled
  <2>2. \A w \in Workers : Handled(w, o) /\ ~At(w, "undo") /\ ~At(w, "undoing") /\ ~At(w, "fail")
                             => orders[o].status = "processing"
    BY DEF OrdersInv, HolderInv, Holds, Handled, At, Rescued
  <2> QED BY <2>1, <2>2
<1> QED BY <1>1, WorkOrdersInvariant, PTL

\* Retries, lost answers and crashes included, a work order is answered by the model at
\* most once: a leaf session that has been started is never started again for another run.
THEOREM AnsweredAtMostOnce == Spec => []AnsweredOnce
<1>1. OrdersInv => AnsweredOnce
  BY DEF OrdersInv, AnsweredInv, Accounted, AnsweredOnce
<1> QED BY <1>1, WorkOrdersInvariant, PTL

\* The check of the daily budget reads a total that concurrent calls have not been added to;
\* what they spend beyond it is bounded by what as many callers as there are may cost.
THEOREM OverspendIsBounded == Spec => []SpendBounded
<1>1. OrdersInv /\ SpendInv => SpendBounded
  <2> SUFFICES ASSUME OrdersInv, SpendInv, spent > 0
               PROVE  spent <= DailyBudget - Estimate + Callers * RunBudget
    BY DEF SpendBounded
  <2>1. spent \in Nat /\ spent + Calls * RunBudget <= DailyBudget - Estimate + Callers * RunBudget
    BY DEF SpendInv, OrdersInv, TypeOK
  <2>2. Calls * RunBudget \in Nat /\ Callers * RunBudget \in Nat
    BY CallsAreFinite, Times, BudgetAssumption
  <2> DEFINE open == Calls * RunBudget
             bound == Callers * RunBudget
  <2>3. open \in Nat /\ bound \in Nat /\ spent + open <= DailyBudget - Estimate + bound
    BY <2>1, <2>2
  <2> HIDE DEF open, bound
  <2>4. spent <= DailyBudget - Estimate + bound
    BY <2>1, <2>3, BudgetAssumption
  <2> QED BY <2>4 DEF bound
<1> QED BY <1>1, WorkOrdersInvariant, PTL

\* A write of a session by the worker: it is of the worker's order, on what it has read.
LEMMA WorkerWrites ==
    ASSUME OrdersInv, NEW w \in Workers, NEW o \in Orders, NEW l \in 1..Depth[o],
           workers[w].at \in {"started", "closed", "completing", "undoing"},
           NEW m, NEW next, WriteSession(w, m, next), sessions'[o][l] /= sessions[o][l]
    PROVE  Writers(o, l) \intersect Active /= {}
<1>1. OnItsWay(workers[w].at, workers[w].level, workers[w].seen, Order(w)) /\ Order(w) \in Orders
  BY OrderAtWork DEF OrdersInv, AnsweredInv
<1>2. workers[w].seen \in Active
  BY <1>1 DEF OnItsWay
<1>3. Order(w) = o
  BY <1>1 DEF WriteSession, OrdersInv, TypeOK
<1>4. workers[w].seen \in Writers(o, l)
  BY <1>3 DEF Writers
<1> QED BY <1>2, <1>4

\* Session updates rewrite the record they have read: a session that is completed or failed
\* changes only at a writer who read it while it was still active.
THEOREM ReopenedByOverlapOnly == Spec => ReopenedOnlyByOverlap
<1> DEFINE Overlap ==
      \A o \in Orders : \A l \in 1..Depth[o] :
         sessions[o][l] \in {"completed", "failed"} /\ sessions'[o][l] /= sessions[o][l]
             => Writers(o, l) \intersect Active /= {}
<1>1. OrdersInv /\ [Next]_vars => [Overlap]_vars
  <2> SUFFICES ASSUME OrdersInv, Next, NEW o \in Orders, NEW l \in 1..Depth[o],
                      sessions[o][l] \in {"completed", "failed"},
                      sessions'[o][l] /= sessions[o][l]
               PROVE  Writers(o, l) \intersect Active /= {}
    OBVIOUS
  <2>1. CASE \E q \in Orders : BuildPack(q) \/ PackExpires(q) \/ Enqueue(q) \/ BackoffElapses(q)
                               \/ DecideProposal(q)
    BY <2>1 DEF BuildPack, PackExpires, Enqueue, BackoffElapses, DecideProposal
  <2>2. ASSUME NEW w \in Workers, Lease(w) \/ Process(w) \/ Throws(w) \/ Abandon(w)
        PROVE  Writers(o, l) \intersect Active /= {}
    <3>1. CASE SessionStarted(w) \/ ParentClosed(w) \/ LeafCompleted(w) \/ RunUndone(w)
      BY <3>1, WorkerWrites DEF SessionStarted, ParentClosed, LeafCompleted, RunUndone, At
    <3>2. CASE CreateSession(w)
      <4>1. sessions[Order(w)][workers[w].level] = "none"
            /\ sessions' = [sessions EXCEPT ![Order(w)][workers[w].level] =
                              Admission[Order(w)][workers[w].level]]
        BY <3>2 DEF CreateSession, Existing
      <4>2. sessions[o] \in [1..Depth[o] -> SessionStatus \union {"none"}] /\ sessions \in [Orders -> Chains]
        BY Others
      <4>3. sessions'[o][l] = sessions[o][l]
        BY <4>1, <4>2
      <4> QED BY <4>3
    <3>3. CASE UNCHANGED sessions
      BY <3>3
    <3> QED BY <2>2, <3>1, <3>2, <3>3
        DEF Lease, Process, Load, Park, StartSession, CloseParent, CheckBudget, Answer, SaveProposal,
        CompleteLeaf, FinishOrder, UndoRun, FailOrder, Throws, Abandon, ReadFor
  <2>3. ASSUME NEW c \in Operators,
               OperatorReads(c) \/ OperatorWrites(c) \/ ShadowRun(c) \/ ShadowAnswer(c)
        PROVE  Writers(o, l) \intersect Active /= {}
    <3>1. OperatorWrites(c)
      BY <2>3 DEF OperatorReads, ShadowRun, ShadowAnswer
    <3>2. operators[c].op \notin {"none", "call"}
          /\ sessions' = [sessions EXCEPT ![operators[c].order][operators[c].level] = operators[c].op]
      BY <3>1 DEF OperatorWrites
    <3>3. operators[c].order = o /\ operators[c].level = l
      <4>1. sessions[o] \in [1..Depth[o] -> SessionStatus \union {"none"}] /\ sessions \in [Orders -> Chains]
        BY Others
      <4> QED BY <3>2, <4>1
    <3>4. operators[c].seen \in Active
      BY <3>2, Others DEF OperatorStates
    <3>5. operators[c].seen \in Writers(o, l)
      BY <3>2, <3>3 DEF Writers
    <3> QED BY <3>4, <3>5
  <2> QED BY <2>1, <2>2, <2>3 DEF Next
<1> QED BY <1>1, WorkOrdersInvariant, PTL DEF Spec, ReopenedOnlyByOverlap
=============================================================================
