---------------------------- MODULE OutboxProofs ----------------------------
(***************************************************************************)
(* Theorems about Outbox, for every set of events and workers, whether     *)
(* their names differ or not, every batch size, every maximum of attempts  *)
(* and any number of faults, outrun leases and requeues.                   *)
(***************************************************************************)
EXTENDS Outbox, TLAPS

-----------------------------------------------------------------------------
(* Types.                                                                  *)

TableOK ==
    /\ state     \in [Events -> OutboxStatus]
    /\ attempts  \in [Events -> Nat]
    /\ lockedBy  \in [Events -> Names \cup {Nobody}]
    /\ live      \in [Events -> BOOLEAN]
    /\ due       \in [Events -> BOOLEAN]
    /\ \A e \in Events : state[e] = "processing" <=> lockedBy[e] # Nobody

LogOK ==
    /\ created   \in Seq(Events)
    /\ delivered \in SUBSET Events

WorkOK ==
    /\ batch     \in [Workers -> SUBSET Events]
    /\ hand      \in [Workers -> Events \cup {Nobody}]
    /\ outcome   \in [Workers -> {"none", "ok", "error"}]
    /\ \A w \in Workers : /\ outcome[w] = "none" <=> hand[w] = Nobody
                          /\ hand[w] # Nobody => hand[w] \in batch[w]

BoundsOK == faults \in Nat /\ slow \in Nat /\ requeues \in Nat

LEMMA TypeParts == TypeOK <=> TableOK /\ LogOK /\ WorkOK /\ BoundsOK
BY DEF TypeOK, TableOK, LogOK, WorkOK, BoundsOK

LEMMA NameIsSomebody == \A w \in Workers : NameOf[w] \in Names /\ NameOf[w] # Nobody
BY WorkersAssumption DEF Names

LEMMA CandidatesAreEvents ==
    ASSUME created \in Seq(Events)
    PROVE  Candidates \subseteq Events
<1>1. \A i \in DOMAIN created : created[i] \in Events
  OBVIOUS
<1> QED BY <1>1 DEF Candidates

\* The ways of changing one row.
LEMMA ReleaseType ==
    ASSUME TableOK, NEW e \in Events, NEW s \in OutboxStatus \ {"processing"},
           Release(e, s),
           attempts' \in [Events -> Nat], due' \in [Events -> BOOLEAN]
    PROVE  TableOK'
BY DEF TableOK, Release

LEMMA RowMarkedType ==
    ASSUME TableOK, NEW e \in Events, RowProcessed(e) \/ RowFailed(e)
    PROVE  TableOK'
<1>1. attempts' \in [Events -> Nat] /\ due' \in [Events -> BOOLEAN]
  BY DEF TableOK, RowProcessed, RowFailed
<1>2. Release(e, "processed") \/ Release(e, "dead") \/ Release(e, "pending")
  BY DEF RowProcessed, RowFailed
<1> QED BY <1>1, <1>2, ReleaseType DEF OutboxStatus

\* The ways of changing a worker's variables.
LEMMA TookType ==
    ASSUME WorkOK, NEW w \in Workers, NEW e \in batch[w], NEW how \in {"ok", "error"},
           Took(w, e, how), UNCHANGED batch
    PROVE  WorkOK'
<1>1. e \in Events /\ e # Nobody
  BY EventsAssumption DEF WorkOK
<1> QED BY <1>1 DEF WorkOK, Took

LEMMA EmptyHandType ==
    ASSUME WorkOK, NEW w \in Workers, Settle(w) \/ Abandon(w)
    PROVE  WorkOK'
BY DEF WorkOK, Settle, Abandon

LEMMA HandIsEvent ==
    ASSUME WorkOK, NEW w \in Workers, outcome[w] # "none"
    PROVE  hand[w] \in Events
BY DEF WorkOK

LEMMA TypeInit == Init => TypeOK
<1> SUFFICES ASSUME Init PROVE TypeOK
  OBVIOUS
<1>1. created \in Seq(Events)
  BY DEF Init
<1> QED BY <1>1, BoundsAssumption DEF Init, TypeOK, OutboxStatus

LEMMA TypeStep == TypeOK /\ [Next]_vars => TypeOK'
<1> SUFFICES ASSUME TypeOK, [Next]_vars PROVE TypeOK'
  OBVIOUS
<1>0. TableOK /\ LogOK /\ WorkOK /\ BoundsOK
  BY TypeParts
<1> DEFINE Goal == TableOK' /\ LogOK' /\ WorkOK' /\ BoundsOK'
<1> SUFFICES Goal
  BY DEF TypeOK, TableOK, LogOK, WorkOK, BoundsOK
<1>1. ASSUME NEW e \in Events, Enqueue(e) PROVE Goal
  <2>1. created' \in Seq(Events)
    <3>1. created \in Seq(Events) /\ created' = Append(created, e)
      BY <1>0, <1>1 DEF Enqueue, LogOK
    <3> QED BY <3>1
  <2>2. TableOK'
    BY <1>0, <1>1 DEF Enqueue, TableOK, OutboxStatus
  <2> QED BY <1>0, <1>1, <2>1, <2>2 DEF Enqueue, LogOK, WorkOK, BoundsOK, work, bounds
<1>2. ASSUME NEW w \in Workers, Claim(w) PROVE Goal
  <2>1. Candidates \subseteq Events
    BY <1>0, CandidatesAreEvents DEF LogOK
  <2>2. TableOK'
    <3>1. state' \in [Events -> OutboxStatus] /\ attempts' \in [Events -> Nat]
      BY <1>0, <1>2 DEF Claim, TableOK, OutboxStatus
    <3>2. lockedBy' \in [Events -> Names \cup {Nobody}]
      BY <1>0, <1>2, NameIsSomebody DEF Claim, TableOK
    <3>3. live' \in [Events -> BOOLEAN] /\ due' \in [Events -> BOOLEAN]
      BY <1>0, <1>2 DEF Claim, TableOK
    <3>4. \A e \in Events : state'[e] = "processing" <=> lockedBy'[e] # Nobody
      BY <1>0, <1>2, NameIsSomebody DEF Claim, TableOK
    <3> QED BY <3>1, <3>2, <3>3, <3>4 DEF TableOK
  <2>3. hand[w] = Nobody
    BY <1>0, <1>2 DEF Claim, Idle, WorkOK
  <2>4. WorkOK'
    BY <1>0, <1>2, <2>1, <2>3 DEF Claim, WorkOK
  <2> QED BY <1>0, <1>2, <2>2, <2>4 DEF Claim, LogOK, BoundsOK, bounds
<1>3. ASSUME NEW w \in Workers, NEW e \in Events,
             HandlerSucceeds(w, e) \/ HandlerThrows(w, e) \/ HandlerLosesAck(w, e)
      PROVE Goal
  <2>1. WorkOK'
    <3>1. e \in batch[w] /\ UNCHANGED batch /\ (Took(w, e, "ok") \/ Took(w, e, "error"))
      BY <1>3 DEF HandlerSucceeds, HandlerThrows, HandlerLosesAck
    <3> QED BY <1>0, <3>1, TookType
  <2>2. TableOK'
    <3>1. UNCHANGED table
      BY <1>3 DEF HandlerSucceeds, HandlerThrows, HandlerLosesAck
    <3> QED BY <1>0, <3>1 DEF table, TableOK
  <2>4. LogOK'
    BY <1>0, <1>3 DEF HandlerSucceeds, HandlerThrows, HandlerLosesAck, LogOK
  <2>3. BoundsOK'
    BY <1>0, <1>3 DEF HandlerSucceeds, HandlerThrows, HandlerLosesAck, Fault, bounds, BoundsOK
  <2> QED BY <2>1, <2>2, <2>3, <2>4
<1>4. ASSUME NEW w \in Workers,
             MarkProcessed(w) \/ MarkProcessedThrows(w) \/ MarkFailed(w) \/ MarkFailedThrows(w)
      PROVE Goal
  <2>1. hand[w] \in Events
    BY <1>0, <1>4, HandIsEvent
    DEF MarkProcessed, MarkProcessedThrows, MarkFailed, MarkFailedThrows
  <2>2. TableOK'
    <3>1. UNCHANGED table \/ RowProcessed(hand[w]) \/ RowFailed(hand[w])
      BY <1>4 DEF MarkProcessed, MarkProcessedThrows, MarkFailed, MarkFailedThrows
    <3>2. CASE UNCHANGED table
      BY <1>0, <3>2 DEF table, TableOK
    <3> QED BY <1>0, <2>1, <3>1, <3>2, RowMarkedType
  <2>3. WorkOK'
    <3>1. \/ Settle(w) \/ Abandon(w)
          \/ /\ outcome[w] = "ok" /\ outcome' = [outcome EXCEPT ![w] = "error"]
             /\ UNCHANGED <<batch, hand>>
      BY <1>4 DEF MarkProcessed, MarkProcessedThrows, MarkFailed, MarkFailedThrows
    <3> QED BY <1>0, <3>1, EmptyHandType DEF WorkOK
  <2>4. LogOK'
    BY <1>0, <1>4 DEF MarkProcessed, MarkProcessedThrows, MarkFailed, MarkFailedThrows, LogOK
  <2>5. BoundsOK'
    <3>1. UNCHANGED bounds \/ Fault
      BY <1>4 DEF MarkProcessed, MarkProcessedThrows, MarkFailed, MarkFailedThrows
    <3> QED BY <1>0, <3>1 DEF Fault, bounds, BoundsOK
  <2> QED BY <2>2, <2>3, <2>4, <2>5
<1>5. ASSUME NEW w \in Workers, Crash(w) PROVE Goal
  BY <1>0, <1>5, EmptyHandType DEF Crash, Fault, table, TableOK, LogOK, BoundsOK
<1>6. ASSUME NEW e \in Events, LeaseExpires(e) \/ LeaseOutrun(e) PROVE Goal
  <2>1. Expire(e)
    BY <1>6 DEF LeaseExpires, LeaseOutrun
  <2>2. TableOK'
    BY <1>0, <2>1 DEF Expire, TableOK
  <2>3. LogOK' /\ WorkOK'
    BY <1>0, <2>1 DEF Expire, LogOK, WorkOK, work
  <2>4. BoundsOK'
    BY <1>0, <1>6 DEF LeaseExpires, LeaseOutrun, BoundsOK, bounds
  <2> QED BY <2>2, <2>3, <2>4
<1>7. ASSUME NEW e \in Events, BackoffElapses(e) PROVE Goal
  BY <1>0, <1>7 DEF BackoffElapses, TableOK, LogOK, WorkOK, BoundsOK, work, bounds
<1>8. ASSUME NEW e \in Events, RequeueDead(e) PROVE Goal
  <2>1. TableOK'
    BY <1>0, <1>8, ReleaseType DEF RequeueDead, TableOK, OutboxStatus
  <2> QED BY <1>0, <1>8, <2>1 DEF RequeueDead, LogOK, WorkOK, BoundsOK, work
<1>9. CASE UNCHANGED vars
  BY <1>0, <1>9 DEF vars, table, work, bounds, TableOK, LogOK, WorkOK, BoundsOK
<1> QED
  BY <1>1, <1>2, <1>3, <1>4, <1>5, <1>6, <1>7, <1>8, <1>9 DEF Next, Process, Loop

\* Every reachable state is well typed; a row is locked exactly while it is
\* being processed, and a worker marks only what it has claimed.
THEOREM TypeCorrect == Spec => []TypeOK
BY TypeInit, TypeStep, PTL DEF Spec

-----------------------------------------------------------------------------
(* Nothing is lost on the way to the delivery log.                         *)

\* What a worker is about to mark as processed has been delivered.
HandedMeansDelivered == \A w \in Workers : outcome[w] = "ok" => hand[w] \in delivered

DeliveryInv == TypeOK /\ HandedMeansDelivered /\ ProcessedMeansDelivered

LEMMA DeliveryStep == DeliveryInv /\ [Next]_vars => DeliveryInv'
<1> SUFFICES ASSUME DeliveryInv, [Next]_vars
             PROVE  HandedMeansDelivered' /\ ProcessedMeansDelivered'
  BY TypeStep DEF DeliveryInv
<1>0. TypeOK
  BY DEF DeliveryInv
\* Steps after which no worker is about to mark anything new, and no row is
\* newly processed.
<1>1. ASSUME delivered \subseteq delivered',
             \A e \in Events : state'[e] = "processed" => state[e] = "processed",
             \A w \in Workers : outcome'[w] = "ok" => outcome[w] = "ok" /\ hand'[w] = hand[w]
      PROVE  HandedMeansDelivered' /\ ProcessedMeansDelivered'
  BY <1>1 DEF DeliveryInv, HandedMeansDelivered, ProcessedMeansDelivered
<1>2. ASSUME NEW e \in Events,
             \/ Enqueue(e) \/ LeaseExpires(e) \/ LeaseOutrun(e)
             \/ BackoffElapses(e) \/ RequeueDead(e)
      PROVE  HandedMeansDelivered' /\ ProcessedMeansDelivered'
  BY <1>0, <1>1, <1>2
  DEF Enqueue, LeaseExpires, LeaseOutrun, Expire, BackoffElapses, RequeueDead, Release,
      TypeOK, work
<1>3. ASSUME NEW w \in Workers, Claim(w)
      PROVE  HandedMeansDelivered' /\ ProcessedMeansDelivered'
  BY <1>0, <1>1, <1>3 DEF Claim, TypeOK
<1>4. ASSUME NEW w \in Workers, Crash(w)
      PROVE  HandedMeansDelivered' /\ ProcessedMeansDelivered'
  BY <1>0, <1>1, <1>4 DEF Crash, Abandon, table, TypeOK
<1>5. ASSUME NEW w \in Workers, NEW e \in Events, HandlerThrows(w, e) \/ HandlerLosesAck(w, e)
      PROVE  HandedMeansDelivered' /\ ProcessedMeansDelivered'
  <2>1. delivered \subseteq delivered' /\ UNCHANGED table
    BY <1>5 DEF HandlerThrows, HandlerLosesAck
  <2>2. \A v \in Workers : outcome'[v] = "ok" => outcome[v] = "ok" /\ hand'[v] = hand[v]
    BY <1>0, <1>5 DEF HandlerThrows, HandlerLosesAck, Took, TypeOK
  <2> QED BY <1>1, <2>1, <2>2 DEF table
<1>6. ASSUME NEW w \in Workers, NEW e \in Events, HandlerSucceeds(w, e)
      PROVE  HandedMeansDelivered' /\ ProcessedMeansDelivered'
  <2>1. delivered' = delivered \cup {e} /\ UNCHANGED table /\ Took(w, e, "ok")
    BY <1>6 DEF HandlerSucceeds
  <2>2. HandedMeansDelivered'
    BY <1>0, <2>1 DEF Took, TypeOK, DeliveryInv, HandedMeansDelivered
  <2>3. ProcessedMeansDelivered'
    BY <2>1 DEF DeliveryInv, ProcessedMeansDelivered, table
  <2> QED BY <2>2, <2>3
<1>7. ASSUME NEW w \in Workers,
             MarkProcessed(w) \/ MarkProcessedThrows(w) \/ MarkFailed(w) \/ MarkFailedThrows(w)
      PROVE  HandedMeansDelivered' /\ ProcessedMeansDelivered'
  <2>1. UNCHANGED delivered
    BY <1>7 DEF MarkProcessed, MarkProcessedThrows, MarkFailed, MarkFailedThrows
  <2>2. \/ UNCHANGED table
        \/ outcome[w] = "ok" /\ RowProcessed(hand[w])
        \/ RowFailed(hand[w])
    BY <1>7 DEF MarkProcessed, MarkProcessedThrows, MarkFailed, MarkFailedThrows
  <2>3. \A e \in Events : state'[e] = "processed" =>
            state[e] = "processed" \/ (outcome[w] = "ok" /\ e = hand[w])
    BY <1>0, <2>2 DEF RowProcessed, RowFailed, Release, table, TypeOK
  <2>4. ProcessedMeansDelivered'
    BY <2>1, <2>3 DEF DeliveryInv, HandedMeansDelivered, ProcessedMeansDelivered
  <2>5. \A v \in Workers : outcome'[v] = "ok" => outcome[v] = "ok" /\ hand'[v] = hand[v]
    BY <1>0, <1>7
    DEF MarkProcessed, MarkProcessedThrows, MarkFailed, MarkFailedThrows, Settle, Abandon, TypeOK
  <2>6. HandedMeansDelivered'
    BY <2>1, <2>5 DEF DeliveryInv, HandedMeansDelivered
  <2> QED BY <2>4, <2>6
<1>8. CASE UNCHANGED vars
  BY <1>1, <1>8 DEF vars, table, work
<1> QED BY <1>2, <1>3, <1>4, <1>5, <1>6, <1>7, <1>8 DEF Next, Process, Loop

\* Whatever a worker marks as processed is in the delivery log, even after it
\* has lost the lease, and even if two processes share a name.
THEOREM NothingLost == Spec => []ProcessedMeansDelivered
<1>1. Init => DeliveryInv
  BY TypeInit
  DEF Init, DeliveryInv, HandedMeansDelivered, ProcessedMeansDelivered
<1>2. DeliveryInv => ProcessedMeansDelivered
  BY DEF DeliveryInv
<1> QED BY <1>1, <1>2, DeliveryStep, PTL DEF Spec

-----------------------------------------------------------------------------
(* Attempts and dead letters.                                              *)

\* How a step may change the row of one event.
RowStep(e) ==
    \/ state'[e] = state[e] /\ attempts'[e] = attempts[e]
    \/ state[e] = "absent" /\ state'[e] = "pending" /\ attempts'[e] = attempts[e]
    \/ /\ state[e] \in {"pending", "processing"} /\ state'[e] = "processing"
       /\ attempts'[e] = attempts[e] + 1
    \/ /\ state[e] = "processing" /\ attempts'[e] = attempts[e]
       /\ \/ state'[e] = "processed"
          \/ state'[e] = "dead" /\ attempts[e] >= MaxAttempts
          \/ state'[e] = "pending" /\ attempts[e] < MaxAttempts
    \/ state[e] = "dead" /\ state'[e] = "pending" /\ attempts'[e] = 0

LEMMA RowSteps == TypeOK /\ [Next]_vars => \A e \in Events : RowStep(e)
<1> SUFFICES ASSUME TypeOK, [Next]_vars, NEW e \in Events PROVE RowStep(e)
  OBVIOUS
<1>1. ASSUME UNCHANGED <<state, attempts>> PROVE RowStep(e)
  BY <1>1 DEF RowStep
<1>2. ASSUME NEW d \in Events,
             Enqueue(d) \/ RequeueDead(d)
      PROVE  RowStep(e)
  BY <1>2 DEF Enqueue, RequeueDead, Release, RowStep, TypeOK
<1>3. ASSUME NEW d \in Events,
             LeaseExpires(d) \/ LeaseOutrun(d) \/ BackoffElapses(d)
      PROVE  RowStep(e)
  BY <1>1, <1>3 DEF LeaseExpires, LeaseOutrun, Expire, BackoffElapses
<1>4. ASSUME NEW w \in Workers, Claim(w) PROVE RowStep(e)
  <2>1. \A d \in Candidates : state[d] \in {"pending", "processing"}
    BY DEF Candidates, Claimable
  <2> QED BY <1>4, <2>1 DEF Claim, RowStep
<1>5. ASSUME NEW w \in Workers, Crash(w) PROVE RowStep(e)
  BY <1>1, <1>5 DEF Crash, table
<1>6. ASSUME NEW w \in Workers, NEW d \in Events,
             HandlerSucceeds(w, d) \/ HandlerThrows(w, d) \/ HandlerLosesAck(w, d)
      PROVE  RowStep(e)
  BY <1>1, <1>6 DEF HandlerSucceeds, HandlerThrows, HandlerLosesAck, table
<1>7. ASSUME NEW w \in Workers,
             MarkProcessed(w) \/ MarkProcessedThrows(w) \/ MarkFailed(w) \/ MarkFailedThrows(w)
      PROVE  RowStep(e)
  <2>1. \/ UNCHANGED table
        \/ Holds(w, hand[w]) /\ (RowProcessed(hand[w]) \/ RowFailed(hand[w]))
    BY <1>7 DEF MarkProcessed, MarkProcessedThrows, MarkFailed, MarkFailedThrows
  <2>2. CASE UNCHANGED table
    BY <1>1, <2>2 DEF table
  <2>3. CASE Holds(w, hand[w]) /\ RowProcessed(hand[w])
    BY <2>3 DEF Holds, RowProcessed, Release, RowStep, TypeOK
  <2>4. CASE Holds(w, hand[w]) /\ RowFailed(hand[w])
    <3>1. state[hand[w]] = "processing" /\ UNCHANGED attempts
      BY <2>4 DEF Holds, RowFailed
    <3>2. \/ /\ state' = [state EXCEPT ![hand[w]] = "dead"]
             /\ attempts[hand[w]] >= MaxAttempts
          \/ /\ state' = [state EXCEPT ![hand[w]] = "pending"]
             /\ ~(attempts[hand[w]] >= MaxAttempts)
      BY <2>4 DEF RowFailed, Release
    <3>3. CASE e = hand[w]
      BY <3>1, <3>2, <3>3, LimitAssumption DEF RowStep, TypeOK
    <3>4. CASE e # hand[w]
      BY <3>1, <3>2, <3>4 DEF RowStep, TypeOK
    <3> QED BY <3>3, <3>4
  <2> QED BY <2>1, <2>2, <2>3, <2>4
<1>8. CASE UNCHANGED vars
  BY <1>1, <1>8 DEF vars, table
<1> QED BY <1>2, <1>3, <1>4, <1>5, <1>6, <1>7, <1>8 DEF Next, Process, Loop

\* A row that is absent has never been claimed.
AttemptsInv ==
    /\ TypeOK
    /\ AttemptsDecide
    /\ \A e \in Events : state[e] = "absent" => attempts[e] = 0

\* A dead letter has used up its attempts, a pending event has some left.
THEOREM DeadOnlyAfterMaxAttempts == Spec => []AttemptsDecide
<1>1. Init => AttemptsInv
  BY TypeInit DEF Init, AttemptsInv, AttemptsDecide
<1>2. AttemptsInv /\ [Next]_vars => AttemptsInv'
  <2> SUFFICES ASSUME AttemptsInv, [Next]_vars PROVE AttemptsInv'
    OBVIOUS
  <2>1. TypeOK' /\ \A e \in Events : RowStep(e)
    BY TypeStep, RowSteps DEF AttemptsInv
  <2>2. \A e \in Events : state'[e] = "absent" => attempts'[e] = 0
    BY <2>1 DEF AttemptsInv, RowStep
  <2>3. AttemptsDecide'
    <3> SUFFICES ASSUME NEW e \in Events
                 PROVE  /\ state'[e] = "dead" => attempts'[e] >= MaxAttempts
                        /\ state'[e] = "pending" => attempts'[e] < MaxAttempts
      BY DEF AttemptsDecide
    <3>1. /\ state[e] = "dead" => attempts[e] >= MaxAttempts
          /\ state[e] = "pending" => attempts[e] < MaxAttempts
          /\ state[e] = "absent" => attempts[e] = 0
          /\ 0 < MaxAttempts
      BY LimitAssumption DEF AttemptsInv, AttemptsDecide
    <3>2. RowStep(e)
      BY <2>1
    <3> QED BY <3>1, <3>2 DEF RowStep
  <2> QED BY <2>1, <2>2, <2>3 DEF AttemptsInv
<1>3. AttemptsInv => AttemptsDecide
  BY DEF AttemptsInv
<1> QED BY <1>1, <1>2, <1>3, PTL DEF Spec

\* A processed event stays processed; a dead one comes back only as new.
THEOREM SettledStays == Spec => SettledUntilRequeued
<1> DEFINE Keep == \A e \in Events :
               /\ state[e] = "processed" => state'[e] = "processed"
               /\ state[e] = "dead" /\ state'[e] # "dead" =>
                      state'[e] = "pending" /\ attempts'[e] = 0
<1>1. TypeOK /\ [Next]_vars => [Keep]_vars
  BY RowSteps DEF RowStep
<1> QED BY <1>1, TypeCorrect, PTL DEF Spec, SettledUntilRequeued

-----------------------------------------------------------------------------
(* The outbox implements the ledger.                                       *)

\* What a worker has in its batch has a row.
BatchesHaveRows == \A w \in Workers : \A e \in batch[w] : state[e] # "absent"

LedgerInv == DeliveryInv /\ BatchesHaveRows

LEMMA BatchesStep == LedgerInv /\ [Next]_vars => LedgerInv'
<1> SUFFICES ASSUME LedgerInv, [Next]_vars PROVE BatchesHaveRows'
  BY DeliveryStep DEF LedgerInv
<1>0. TypeOK /\ \A e \in Events : RowStep(e)
  BY RowSteps DEF LedgerInv, DeliveryInv
<1>1. \A e \in Events : state[e] # "absent" => state'[e] # "absent"
  BY <1>0 DEF RowStep
<1>2. ASSUME \A w \in Workers : batch'[w] \subseteq batch[w]
      PROVE  BatchesHaveRows'
  BY <1>0, <1>1, <1>2 DEF LedgerInv, BatchesHaveRows, TypeOK
<1>3. ASSUME NEW w \in Workers, Claim(w)
      PROVE  BatchesHaveRows'
  <2>1. \A e \in Candidates : e \in Events /\ state[e] # "absent"
    <3>1. Candidates \subseteq Events
      BY <1>0, CandidatesAreEvents DEF TypeOK
    <3> QED BY <3>1 DEF Candidates, Claimable
  <2>2. \A v \in Workers : \A e \in batch'[v] : e \in Candidates \/ e \in batch[v]
    BY <1>0, <1>3 DEF Claim, TypeOK
  <2> QED BY <1>0, <1>1, <2>1, <2>2 DEF LedgerInv, BatchesHaveRows, TypeOK
<1>4. ASSUME NEW w \in Workers, Loop(w) \/ Crash(w) \/ \E e \in Events : HandlerLosesAck(w, e)
      PROVE  \A v \in Workers : batch'[v] \subseteq batch[v]
  <2>1. UNCHANGED batch \/ Settle(w) \/ Abandon(w)
    BY <1>4 DEF Loop, HandlerSucceeds, HandlerThrows, HandlerLosesAck, MarkProcessed,
                MarkProcessedThrows, MarkFailed, MarkFailedThrows, Crash
  <2>2. batch \in [Workers -> SUBSET Events]
    BY <1>0 DEF TypeOK
  <2> QED BY <2>1, <2>2 DEF Settle, Abandon
<1>5. ASSUME NEW e \in Events,
             \/ Enqueue(e) \/ LeaseExpires(e) \/ LeaseOutrun(e)
             \/ BackoffElapses(e) \/ RequeueDead(e)
      PROVE  UNCHANGED batch
  BY <1>5 DEF Enqueue, LeaseExpires, LeaseOutrun, Expire, BackoffElapses, RequeueDead, work
<1>6. CASE UNCHANGED vars
  BY <1>2, <1>6 DEF vars, work
<1> QED BY <1>2, <1>3, <1>4, <1>5, <1>6 DEF Next, Process

LEMMA Stages ==
    /\ StageOf("absent") = "absent" /\ StageOf("pending") = "open" /\ StageOf("processing") = "open"
    /\ StageOf("processed") = "settled" /\ StageOf("dead") = "given up"
BY DEF StageOf

\* A row that goes from pending to processing or back is open before and after.
LEMMA StageKept ==
    ASSUME \A e \in Events : \/ state'[e] = state[e]
                             \/ {state[e], state'[e]} \subseteq {"pending", "processing"}
    PROVE  UNCHANGED Stage
<1>1. ASSUME NEW e \in Events PROVE StageOf(state'[e]) = StageOf(state[e])
  <2>1. CASE {state[e], state'[e]} \subseteq {"pending", "processing"}
    <3>1. StageOf(state[e]) = "open" /\ StageOf(state'[e]) = "open"
      BY <2>1, Stages
    <3> QED BY <3>1
  <2>2. CASE state'[e] = state[e]
    BY <2>2
  <2> QED BY <2>1, <2>2
<1> QED BY <1>1 DEF Stage

LEMMA LedgerStep == LedgerInv /\ [Next]_vars => [Ledger!Next]_(Ledger!ledger)
<1> SUFFICES ASSUME LedgerInv, [Next]_vars
             PROVE  Ledger!Next \/ UNCHANGED <<Stage, delivered>>
  BY DEF Ledger!ledger
<1>0. TypeOK
  BY DEF LedgerInv, DeliveryInv
<1>1. ASSUME NEW e \in Events, NEW s \in {"pending", "processed", "dead"},
             state' = [state EXCEPT ![e] = s], UNCHANGED delivered,
             \/ state[e] = "absent" /\ s = "pending"
             \/ state[e] = "dead" /\ s = "pending"
             \/ state[e] = "processing" /\ (s = "processed" => e \in delivered)
      PROVE  Ledger!Next \/ UNCHANGED <<Stage, delivered>>
  <2>1. \A d \in Events : d # e => Stage'[d] = Stage[d]
    BY <1>0, <1>1 DEF Stage, TypeOK
  <2>2. state'[e] = s
    BY <1>0, <1>1 DEF TypeOK
  <2>3. ASSUME NEW from, NEW next, Stage[e] = from, Stage'[e] = next
        PROVE  Ledger!Moves({e}, from, next)
    <3>1. Stage' = [d \in Events |-> IF d \in {e} THEN next ELSE Stage[d]]
      BY <2>1, <2>3 DEF Stage
    <3> QED BY <1>1, <2>3, <3>1 DEF Ledger!Moves
  <2>4. CASE state[e] = "absent"
    <3>1. Stage[e] = "absent" /\ Stage'[e] = "open"
      BY <1>1, <2>2, <2>4, Stages DEF Stage
    <3>2. Ledger!Post(e)
      BY <2>3, <3>1 DEF Ledger!Post
    <3> QED BY <3>2 DEF Ledger!Next
  <2>5. CASE state[e] = "dead"
    <3>1. Stage[e] = "given up" /\ Stage'[e] = "open"
      BY <1>1, <2>2, <2>5, Stages DEF Stage
    <3>2. Ledger!Reopen(e)
      BY <2>3, <3>1 DEF Ledger!Reopen
    <3> QED BY <3>2 DEF Ledger!Next
  <2>6. CASE state[e] = "processing" /\ s = "processed"
    <3>1. Stage[e] = "open" /\ Stage'[e] = "settled"
      BY <2>2, <2>6, Stages DEF Stage
    <3>2. Ledger!Settle({e})
      BY <1>1, <2>3, <2>6, <3>1 DEF Ledger!Settle
    <3> QED BY <3>2 DEF Ledger!Next
  <2>7. CASE state[e] = "processing" /\ s = "dead"
    <3>1. Stage[e] = "open" /\ Stage'[e] = "given up"
      BY <2>2, <2>7, Stages DEF Stage
    <3>2. Ledger!GiveUp(e)
      BY <2>3, <3>1 DEF Ledger!GiveUp
    <3> QED BY <3>2 DEF Ledger!Next
  <2>8. CASE state[e] = "processing" /\ s = "pending"
    BY <1>0, <1>1, <2>8, StageKept DEF TypeOK
  <2> QED BY <1>1, <2>4, <2>5, <2>6, <2>7, <2>8
<1>2. ASSUME NEW e \in Events, Enqueue(e) \/ RequeueDead(e)
      PROVE  Ledger!Next \/ UNCHANGED <<Stage, delivered>>
  BY <1>1, <1>2 DEF Enqueue, RequeueDead, Release
<1>3. ASSUME NEW w \in Workers, Claim(w)
      PROVE  UNCHANGED <<Stage, delivered>>
  <2>1. \A e \in Candidates : state[e] \in {"pending", "processing"}
    BY DEF Candidates, Claimable
  <2>2. \A e \in Events : \/ state'[e] = state[e]
                          \/ {state[e], state'[e]} \subseteq {"pending", "processing"}
    BY <1>3, <2>1 DEF Claim
  <2> QED BY <1>3, <2>2, StageKept DEF Claim
<1>4. ASSUME NEW w \in Workers, NEW e \in Events,
             HandlerSucceeds(w, e) \/ HandlerThrows(w, e) \/ HandlerLosesAck(w, e)
      PROVE  Ledger!Next \/ UNCHANGED <<Stage, delivered>>
  <2>1. UNCHANGED state /\ e \in batch[w]
    BY <1>4 DEF HandlerSucceeds, HandlerThrows, HandlerLosesAck, table
  <2>2. UNCHANGED Stage
    BY <2>1, StageKept
  <2>3. CASE UNCHANGED delivered
    BY <2>2, <2>3
  <2>4. CASE delivered' = delivered \cup {e}
    <3>1. state[e] # "absent"
      BY <2>1 DEF LedgerInv, BatchesHaveRows
    <3>2. Stage[e] # "absent"
      BY <1>0, <3>1, Stages DEF Stage, TypeOK, OutboxStatus
    <3>3. {e} \in SUBSET Ledger!Posted /\ Ledger!Work({e})
      BY <2>2, <2>4, <3>2 DEF Ledger!Posted, Ledger!Work
    <3> QED BY <3>3 DEF Ledger!Next
  <2> QED BY <1>4, <2>3, <2>4 DEF HandlerSucceeds, HandlerThrows, HandlerLosesAck
<1>5. ASSUME NEW w \in Workers,
             MarkProcessed(w) \/ MarkProcessedThrows(w) \/ MarkFailed(w) \/ MarkFailedThrows(w)
      PROVE  Ledger!Next \/ UNCHANGED <<Stage, delivered>>
  <2>1. UNCHANGED delivered /\ hand[w] \in Events
    BY <1>0, <1>5, HandIsEvent DEF MarkProcessed, MarkProcessedThrows, MarkFailed,
                                   MarkFailedThrows, TypeOK, WorkOK
  <2>2. \/ UNCHANGED state
        \/ Holds(w, hand[w]) /\ RowProcessed(hand[w]) /\ outcome[w] = "ok"
        \/ Holds(w, hand[w]) /\ RowFailed(hand[w])
    BY <1>5 DEF MarkProcessed, MarkProcessedThrows, MarkFailed, MarkFailedThrows, table
  <2>3. outcome[w] = "ok" => hand[w] \in delivered
    BY DEF LedgerInv, DeliveryInv, HandedMeansDelivered
  <2>4. CASE UNCHANGED state
    BY <2>1, <2>4, StageKept
  <2>5. ASSUME Holds(w, hand[w]), (RowProcessed(hand[w]) /\ outcome[w] = "ok") \/ RowFailed(hand[w])
        PROVE  Ledger!Next \/ UNCHANGED <<Stage, delivered>>
    BY <1>1, <2>1, <2>3, <2>5 DEF Holds, RowProcessed, RowFailed, Release
  <2> QED BY <2>2, <2>4, <2>5
<1>6. ASSUME UNCHANGED <<state, delivered>>
      PROVE  UNCHANGED <<Stage, delivered>>
  BY <1>6, StageKept
<1>7. ASSUME NEW e \in Events, LeaseExpires(e) \/ LeaseOutrun(e) \/ BackoffElapses(e)
      PROVE  UNCHANGED <<state, delivered>>
  BY <1>7 DEF LeaseExpires, LeaseOutrun, Expire, BackoffElapses
<1>8. ASSUME NEW w \in Workers, Crash(w) PROVE UNCHANGED <<state, delivered>>
  BY <1>8 DEF Crash, table
<1>9. CASE UNCHANGED vars
  BY <1>6, <1>9 DEF vars, table
<1> QED BY <1>2, <1>3, <1>4, <1>5, <1>6, <1>7, <1>8, <1>9 DEF Next, Process, Loop

\* Every behaviour of workers, leases, faults and replays is one the ledger
\* allows: what was processed had been delivered and is not handed out again.
THEOREM ImplementsLedger == Spec => LedgerSpec
<1>1. Init => LedgerInv
  <2> SUFFICES ASSUME Init PROVE LedgerInv
    OBVIOUS
  <2>1. TypeOK
    BY TypeInit
  <2> QED BY <2>1 DEF Init, LedgerInv, DeliveryInv, HandedMeansDelivered,
                      ProcessedMeansDelivered, BatchesHaveRows
<1>2. Init => Ledger!Init
  <2> SUFFICES ASSUME Init PROVE Ledger!Init
    OBVIOUS
  <2>1. \A e \in Events : StageOf(state[e]) = "absent"
    BY Stages DEF Init
  <2>2. Stage = [e \in Events |-> "absent"]
    BY <2>1 DEF Stage
  <2> QED BY <2>2 DEF Init, Ledger!Init
<1> QED BY <1>1, <1>2, BatchesStep, LedgerStep, PTL DEF Spec, LedgerSpec, Ledger!Spec

=============================================================================
