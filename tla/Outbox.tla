------------------------------- MODULE Outbox -------------------------------
(***************************************************************************)
(* The transactional outbox: the rows of transactional_outbox as           *)
(* PostgresOutboxRepository changes them, the loop of OutboxProcessor in   *)
(* each worker process, the delivery log its handler writes, and the       *)
(* operator who requeues dead letters.                                     *)
(*                                                                         *)
(* Time appears as two events.  A lease expires (in the eyes of the worker *)
(* that claims next, whose clock need not agree with the holder's), and a  *)
(* backoff elapses.                                                        *)
(***************************************************************************)
EXTENDS Naturals, Sequences, FiniteSets

CONSTANTS
    Events,        \* ids of outbox events
    Poison,        \* those whose handler throws whenever it runs
    Workers,       \* worker processes
    NameOf,        \* workerId of each: OUTBOX_WORKER_ID and the process id
    Nobody,        \* locked_by IS NULL; no event in hand
    Limit,         \* OUTBOX_BATCH_SIZE
    MaxAttempts,   \* OUTBOX_MAX_ATTEMPTS
    MaxFaults,     \* bound: crashes, failed and unacknowledged statements
    MaxSlow,       \* bound: leases that expire while their holder is at work
    MaxRequeues    \* bound: operator replays

ASSUME EventsAssumption  == Poison \subseteq Events /\ Nobody \notin Events
ASSUME WorkersAssumption == Nobody \notin {NameOf[w] : w \in Workers}
ASSUME LimitAssumption   == Limit \in Nat \ {0} /\ MaxAttempts \in Nat \ {0}
ASSUME BoundsAssumption  == MaxFaults \in Nat /\ MaxSlow \in Nat /\ MaxRequeues \in Nat

VARIABLES
    \* --- transactional_outbox and action_lifecycle_delivery_log ---------
    state,      \* status of each row; "absent" when there is none
    attempts,
    lockedBy,
    live,       \* locked_until is in the future
    due,        \* available_at is in the past
    created,    \* the events in the order of created_at
    delivered,  \* the events in the delivery log
    \* --- the workers ----------------------------------------------------
    batch,      \* events each worker has claimed and not settled yet
    hand,       \* the one whose handler has run, or Nobody
    outcome,    \* how it ran
    \* --- bounds -----------------------------------------------------------
    faults, slow, requeues

table  == <<state, attempts, lockedBy, live, due>>
work   == <<batch, hand, outcome>>
bounds == <<faults, slow, requeues>>
vars   == <<table, created, delivered, work, bounds>>

OutboxStatus == {"absent", "pending", "processing", "processed", "dead"}
Names        == {NameOf[w] : w \in Workers}

TypeOK ==
    /\ state     \in [Events -> OutboxStatus]
    /\ attempts  \in [Events -> Nat]
    /\ lockedBy  \in [Events -> Names \cup {Nobody}]
    /\ live      \in [Events -> BOOLEAN]
    /\ due       \in [Events -> BOOLEAN]
    /\ created   \in Seq(Events)
    /\ delivered \in SUBSET Events
    /\ batch     \in [Workers -> SUBSET Events]
    /\ hand      \in [Workers -> Events \cup {Nobody}]
    /\ outcome   \in [Workers -> {"none", "ok", "error"}]
    /\ faults \in Nat /\ slow \in Nat /\ requeues \in Nat
    /\ \A e \in Events : state[e] = "processing" <=> lockedBy[e] # Nobody
    /\ \A w \in Workers : /\ outcome[w] = "none" <=> hand[w] = Nobody
                          /\ hand[w] # Nobody => hand[w] \in batch[w]

Init ==
    /\ state     = [e \in Events |-> "absent"]
    /\ attempts  = [e \in Events |-> 0]
    /\ lockedBy  = [e \in Events |-> Nobody]
    /\ live      = [e \in Events |-> FALSE]
    /\ due       = [e \in Events |-> FALSE]
    /\ created   = <<>>
    /\ delivered = {}
    /\ batch     = [w \in Workers |-> {}]
    /\ hand      = [w \in Workers |-> Nobody]
    /\ outcome   = [w \in Workers |-> "none"]
    /\ faults = MaxFaults /\ slow = MaxSlow /\ requeues = MaxRequeues

Fault == faults > 0 /\ faults' = faults - 1 /\ UNCHANGED <<slow, requeues>>

-----------------------------------------------------------------------------
(* The table.                                                              *)

\* Written by the transaction of whoever owns the aggregate; the unique
\* idempotency key makes a second insert do nothing.
Enqueue(e) ==
    /\ state[e] = "absent"
    /\ state'   = [state EXCEPT ![e] = "pending"]
    /\ due'     = [due EXCEPT ![e] = TRUE]
    /\ created' = Append(created, e)
    /\ UNCHANGED <<attempts, lockedBy, live, delivered, work, bounds>>

\* FAULTY variant of Claimable: an expired lease is not taken over.
ClaimablePending(e) == due[e] /\ state[e] = "pending"

Claimable(e) ==
    /\ due[e]
    /\ state[e] = "pending" \/ (state[e] = "processing" /\ ~live[e])

\* The Limit oldest claimable events.
Candidates ==
    LET Waiting == {i \in DOMAIN created : Claimable(created[i])}
    IN  {created[i] : i \in {j \in Waiting :
                                Cardinality({k \in Waiting : k < j}) < Limit}}

\* What both marks and the requeue do to the lock of a row.
Release(e, s) ==
    /\ state'    = [state EXCEPT ![e] = s]
    /\ lockedBy' = [lockedBy EXCEPT ![e] = Nobody]
    /\ live'     = [live EXCEPT ![e] = FALSE]

\* FAULTY variant of Holds: the marks look for the id alone.
HoldsById(w, e) == state[e] # "absent"

Holds(w, e) == state[e] = "processing" /\ lockedBy[e] = NameOf[w]

RowProcessed(e) == Release(e, "processed") /\ UNCHANGED <<attempts, due>>

\* markFailed decides by the attempts in the row, not by the caller's copy.
RowFailed(e) ==
    IF attempts[e] >= MaxAttempts
    THEN Release(e, "dead") /\ UNCHANGED <<attempts, due>>
    ELSE Release(e, "pending") /\ due' = [due EXCEPT ![e] = FALSE] /\ UNCHANGED attempts

-----------------------------------------------------------------------------
(* The loop of a worker.                                                   *)

Idle(w) == batch[w] = {}

Claim(w) ==
    /\ Idle(w)
    /\ Candidates # {}
    /\ state'    = [e \in Events |-> IF e \in Candidates THEN "processing" ELSE state[e]]
    /\ attempts' = [e \in Events |-> IF e \in Candidates THEN attempts[e] + 1 ELSE attempts[e]]
    /\ lockedBy' = [e \in Events |-> IF e \in Candidates THEN NameOf[w] ELSE lockedBy[e]]
    /\ live'     = [e \in Events |-> IF e \in Candidates THEN TRUE ELSE live[e]]
    /\ batch'    = [batch EXCEPT ![w] = Candidates]
    /\ UNCHANGED <<due, created, delivered, hand, outcome, bounds>>

Took(w, e, how) ==
    /\ hand'    = [hand EXCEPT ![w] = e]
    /\ outcome' = [outcome EXCEPT ![w] = how]

\* The loop goes on with the rest of the batch.
Settle(w) ==
    /\ batch'   = [batch EXCEPT ![w] = @ \ {hand[w]}]
    /\ hand'    = [hand EXCEPT ![w] = Nobody]
    /\ outcome' = [outcome EXCEPT ![w] = "none"]

\* runOnce throws, or the process dies: the rest of the batch is abandoned,
\* locked until its lease expires.
Abandon(w) ==
    /\ batch'   = [batch EXCEPT ![w] = {}]
    /\ hand'    = [hand EXCEPT ![w] = Nobody]
    /\ outcome' = [outcome EXCEPT ![w] = "none"]

\* RETURNING gives the batch in no particular order.  The handler inserts into
\* the delivery log, once per event.
HandlerSucceeds(w, e) ==
    /\ hand[w] = Nobody /\ e \in batch[w] \ Poison
    /\ Took(w, e, "ok")
    /\ delivered' = delivered \cup {e}
    /\ UNCHANGED <<table, created, batch, bounds>>

\* FAULTY variant of HandlerThrows: a fire-and-forget handler whose rejection
\* nobody awaits.
HandlerNotAwaited(w, e) ==
    /\ hand[w] = Nobody /\ e \in batch[w]
    /\ Took(w, e, "ok")
    /\ UNCHANGED <<table, created, delivered, batch, bounds>>

\* No handler is registered, the payload conflicts with the delivery on
\* record, or the insert failed.
HandlerThrows(w, e) ==
    /\ hand[w] = Nobody /\ e \in batch[w]
    /\ Took(w, e, "error")
    /\ UNCHANGED <<table, created, delivered, batch, bounds>>

\* The insert went through and its acknowledgement was lost.
HandlerLosesAck(w, e) ==
    /\ hand[w] = Nobody /\ e \in batch[w] \ Poison
    /\ Fault
    /\ Took(w, e, "error")
    /\ delivered' = delivered \cup {e}
    /\ UNCHANGED <<table, created, batch>>

MarkProcessed(w) ==
    /\ outcome[w] = "ok"
    /\ Holds(w, hand[w])
    /\ RowProcessed(hand[w])
    /\ Settle(w)
    /\ UNCHANGED <<created, delivered, bounds>>

\* markProcessed throws: "lease lost", or a failed statement; the catch clause
\* goes on to markFailed.
MarkProcessedThrows(w) ==
    /\ outcome[w] = "ok"
    /\ outcome' = [outcome EXCEPT ![w] = "error"]
    /\ \/ ~Holds(w, hand[w]) /\ UNCHANGED <<table, bounds>>
       \/ Fault /\ UNCHANGED table
       \/ Fault /\ Holds(w, hand[w]) /\ RowProcessed(hand[w])
    /\ UNCHANGED <<created, delivered, batch, hand>>

MarkFailed(w) ==
    /\ outcome[w] = "error"
    /\ Holds(w, hand[w])
    /\ RowFailed(hand[w])
    /\ Settle(w)
    /\ UNCHANGED <<created, delivered, bounds>>

\* markFailed throws inside the catch clause, and so does runOnce.
MarkFailedThrows(w) ==
    /\ outcome[w] = "error"
    /\ Abandon(w)
    /\ \/ ~Holds(w, hand[w]) /\ UNCHANGED <<table, bounds>>
       \/ Fault /\ UNCHANGED table
       \/ Fault /\ Holds(w, hand[w]) /\ RowFailed(hand[w])
    /\ UNCHANGED <<created, delivered>>

Crash(w) ==
    /\ ~Idle(w)
    /\ Fault
    /\ Abandon(w)
    /\ UNCHANGED <<table, created, delivered>>

-----------------------------------------------------------------------------
(* Time and the operator.                                                  *)

AtWork(e) == \E w \in Workers : e \in batch[w] /\ lockedBy[e] = NameOf[w]

Expire(e) ==
    /\ state[e] = "processing" /\ live[e]
    /\ live' = [live EXCEPT ![e] = FALSE]
    /\ UNCHANGED <<state, attempts, lockedBy, due, created, delivered, work>>

\* The lease of an abandoned event ...
LeaseExpires(e) == Expire(e) /\ ~AtWork(e) /\ UNCHANGED bounds

\* ... and one that its holder, late in a long batch, has not settled in time.
LeaseOutrun(e) ==
    Expire(e) /\ AtWork(e) /\ slow > 0 /\ slow' = slow - 1 /\ UNCHANGED <<faults, requeues>>

BackoffElapses(e) ==
    /\ state[e] = "pending" /\ ~due[e]
    /\ due' = [due EXCEPT ![e] = TRUE]
    /\ UNCHANGED <<state, attempts, lockedBy, live, created, delivered, work, bounds>>

RequeueDead(e) ==
    /\ state[e] = "dead"
    /\ requeues > 0 /\ requeues' = requeues - 1
    /\ Release(e, "pending")
    /\ attempts' = [attempts EXCEPT ![e] = 0]
    /\ due'      = [due EXCEPT ![e] = TRUE]
    /\ UNCHANGED <<created, delivered, work, faults, slow>>

-----------------------------------------------------------------------------

\* What the loop of a worker owes once it has claimed.
Loop(w) ==
    \/ \E e \in Events : HandlerSucceeds(w, e) \/ HandlerThrows(w, e)
    \/ MarkProcessed(w) \/ MarkProcessedThrows(w)
    \/ MarkFailed(w) \/ MarkFailedThrows(w)

Process ==
    \/ \E w \in Workers : Claim(w) \/ Loop(w) \/ Crash(w)
    \/ \E w \in Workers, e \in Events : HandlerLosesAck(w, e)
    \/ \E e \in Events :
           LeaseExpires(e) \/ LeaseOutrun(e) \/ BackoffElapses(e) \/ RequeueDead(e)

Next == Process \/ \E e \in Events : Enqueue(e)

Spec == Init /\ [][Next]_vars

\* A worker polls and its loop goes on until it throws or crashes; clocks move.
\* Nothing is owed by the operator, by faults, or by a handler's luck.
Fairness ==
    /\ \A w \in Workers : WF_vars(Claim(w)) /\ WF_vars(Loop(w))
    /\ \A e \in Events : WF_vars(LeaseExpires(e)) /\ WF_vars(BackoffElapses(e))

FairSpec == Spec /\ Fairness

-----------------------------------------------------------------------------
(* What the outbox promises.                                               *)

\* Nothing is marked processed that is not in the delivery log, whoever claimed
\* it, lost its lease, or crashed on the way.
ProcessedMeansDelivered ==
    \A e \in Events : state[e] = "processed" => e \in delivered

StageOf(status) ==
    CASE status = "absent" -> "absent"
      [] status \in {"pending", "processing"} -> "open"
      [] status = "processed" -> "settled"
      [] status = "dead" -> "given up"
Stage == [e \in Events |-> StageOf(state[e])]

\* The outbox implements the ledger of TaskLedger: an event that was processed is never
\* handed out again, whoever lost its lease and comes back.
Ledger == INSTANCE TaskLedger WITH Tasks <- Events, stage <- Stage, worked <- delivered
LedgerSpec == Ledger!Spec

\* A dead letter has used up all its attempts since it was last requeued, and a
\* pending event has some left.
AttemptsDecide ==
    \A e \in Events :
        /\ state[e] = "dead" => attempts[e] >= MaxAttempts
        /\ state[e] = "pending" => attempts[e] < MaxAttempts

\* A processed event is never processed again, and a dead one comes back only
\* with its attempts reset.
SettledUntilRequeued ==
    [][\A e \in Events :
           /\ state[e] = "processed" => state'[e] = "processed"
           /\ state[e] = "dead" /\ state'[e] # "dead" =>
                  state'[e] = "pending" /\ attempts'[e] = 0]_vars

\* "Procesar eventos de negocio sin perderlos": every event is settled in the end.
EveryEventSettles ==
    \A e \in Events : state[e] = "pending" ~> state[e] \in {"processed", "dead"}
=============================================================================
