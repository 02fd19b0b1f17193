-------------------------- MODULE SpecialistDaemons --------------------------
(***************************************************************************)
(* The specialist daemons of one account.  A scheduler leases the daemons  *)
(* that are due; for each it reads the signals, freezes an evidence pack,  *)
(* records a work order and stores the hash of the signals, so that the    *)
(* same signals do not wake the agent again.  The signals and the pack are *)
(* two reads of what the marketplace says, which goes on changing, and the *)
(* state is saved whole, whoever holds the lease by then.                  *)
(*                                                                         *)
(* The idempotency key of an order covers the times of its pack, so every  *)
(* order is a new one.  All daemons are enabled, as ensureStates makes     *)
(* them and nothing changes; the limit of a lease is never reached.        *)
(***************************************************************************)
EXTENDS Incidents, Sequences, FiniteSets

CONSTANTS
    Daemons,       \* the daemons of the account
    Schedulers,    \* worker processes
    Signals,       \* what the documents of a daemon's subject may be
    Worth,         \* Worth[s]: urgency times impact times confidence, summed over s
    OrderCost,     \* estimatedCostMicrosUsd of a daemon
    AgentSuffices  \* AgentSuffices[d]: the pack has every kind d's agent requires

NoSignals == "none"
ASSUME DaemonsAssumption ==
    /\ IsFiniteSet(Daemons)
    /\ NoSignals \notin Signals
    /\ Worth \in [Signals \union {NoSignals} -> Nat] /\ OrderCost \in Nat
    /\ AgentSuffices \in [Daemons -> BOOLEAN]

VARIABLES
    evidence,      \* the documents of each daemon's subject now; none when a kind is missing
    daemons,       \* specialist_daemon_states: next_run_at has come, lease, hash, last status
    schedulers,    \* where each scheduler is, its batch, and what it has read
    dailyOrders    \* the signals that orders of each daemon were recorded for

daemonVars == <<evidence, daemons, schedulers, dailyOrders>>

Readings == Signals \union {NoSignals}
NeverRun == "unread"
Outcomes == {"never", "queued", "skipped", "waiting-evidence", "failed"}
Asleep == [at |-> "idle", batch |-> <<>>, signals |-> NoSignals, status |-> "never"]

DaemonsTypeOK ==
    /\ evidence \in [Daemons -> Readings]
    /\ daemons \in [Daemons -> [due: BOOLEAN, lease: {"none", "live", "over"},
                                previous: Readings \union {NeverRun}, last: Outcomes]]
    /\ dailyOrders \in [Daemons -> SUBSET Readings]
    /\ schedulers \in [Schedulers ->
         [at: {"idle", "read", "pack", "enqueue", "save", "log", "fail"},
          batch: Seq([daemon: Daemons, previous: Readings \union {NeverRun}]),
          signals: Readings, status: Outcomes]]
    /\ \A w \in Schedulers : schedulers[w].at = "idle" <=> schedulers[w].batch = <<>>

DaemonsInit ==
    /\ evidence = [d \in Daemons |-> NoSignals]
    /\ daemons = [d \in Daemons |->
                    [due |-> TRUE, lease |-> "none", previous |-> NeverRun, last |-> "never"]]
    /\ schedulers = [w \in Schedulers |-> Asleep]
    /\ dailyOrders = [d \in Daemons |-> {}]

-----------------------------------------------------------------------------
SchedulerAt(w, step) == schedulers[w].at = step
Current(w) == Head(schedulers[w].batch).daemon
Remembered(w) == Head(schedulers[w].batch).previous
SchedulerTo(w, step) == schedulers' = [schedulers EXCEPT ![w].at = step]

NextDaemon(w) ==
    LET rest == Tail(schedulers[w].batch)
    IN schedulers' = [schedulers EXCEPT ![w] =
                        IF rest = <<>> THEN Asleep ELSE [Asleep EXCEPT !.at = "read", !.batch = rest]]

\* The account's evidence changes, expires or is synchronised.
EvidenceChanges(d) ==
    /\ \E reading \in Readings \ {evidence[d]} : evidence' = [evidence EXCEPT ![d] = reading]
    /\ UNCHANGED <<daemons, schedulers, dailyOrders, incidents>>

Due(d) == daemons[d].due /\ daemons[d].lease \in {"none", "over"}

LeaseDaemons(w) ==
    /\ SchedulerAt(w, "idle")
    /\ LET ready == {d \in Daemons : Due(d)}
       IN /\ ready /= {}
          /\ \E batch \in [1..Cardinality(ready) -> ready] :
               /\ \A i, j \in DOMAIN batch : batch[i] = batch[j] => i = j
               /\ schedulers' = [schedulers EXCEPT ![w] =
                    [Asleep EXCEPT !.at = "read",
                       !.batch = [i \in DOMAIN batch |->
                          [daemon |-> batch[i], previous |-> daemons[batch[i]].previous]]]]
          /\ daemons' = [d \in Daemons |->
               IF d \in ready THEN [daemons[d] EXCEPT !.lease = "live"] ELSE daemons[d]]
    /\ UNCHANGED <<evidence, dailyOrders, incidents>>

ReadSignals(w) ==
    /\ SchedulerAt(w, "read")
    /\ schedulers' = [schedulers EXCEPT ![w].signals = evidence[Current(w)], ![w].at = "pack"]
    /\ UNCHANGED <<evidence, daemons, dailyOrders, incidents>>

\* The pack is a second read; without every required kind the daemon waits.
BuildDaemonPack(w) ==
    /\ SchedulerAt(w, "pack")
    /\ schedulers' = [schedulers EXCEPT
         ![w].at = IF evidence[Current(w)] = NoSignals THEN "save" ELSE "enqueue",
         ![w].status = "waiting-evidence"]
    /\ UNCHANGED <<evidence, daemons, dailyOrders, incidents>>

Unchanged(signals, previous) == signals = previous

OrderStatusFor(d, signals, previous) ==
    IF ~AgentSuffices[d] THEN "waiting-evidence"
    ELSE IF ~Unchanged(signals, previous) /\ Worth[signals] > OrderCost THEN "queued" ELSE "skipped"

\* The order is recorded whatever its status; one that is not queued is a skip.
EnqueueOrder(w) ==
    LET d == Current(w)
        signals == schedulers[w].signals
        status == OrderStatusFor(d, signals, Remembered(w))
    IN /\ SchedulerAt(w, "enqueue")
       /\ dailyOrders' = [dailyOrders EXCEPT ![d] = @ \union {signals}]
       /\ \/ /\ schedulers' = [schedulers EXCEPT ![w].at = "save",
                  ![w].status = IF status = "queued" THEN "queued" ELSE "skipped"]
             /\ UNCHANGED incidents
          \/ Incident /\ SchedulerTo(w, "fail")
       /\ UNCHANGED <<evidence, daemons>>

\* FAULTY variant of HashAfter: the hash is stored without an order too.
HashAlways(w) == schedulers[w].signals
\* The hash that is saved: of the signals, when there is an order for them.
HashAfter(w) ==
    IF schedulers[w].status = "waiting-evidence" THEN Remembered(w) ELSE schedulers[w].signals

Saved(w, hash, status) ==
    daemons' = [daemons EXCEPT ![Current(w)] =
                  [due |-> FALSE, lease |-> "none", previous |-> hash, last |-> status]]

\* completeState: the state, then the run.
CompleteState(w) ==
    /\ SchedulerAt(w, "save")
    /\ Saved(w, HashAfter(w), schedulers[w].status)
    /\ \/ SchedulerTo(w, "log") /\ UNCHANGED incidents
       \/ Incident /\ SchedulerTo(w, "fail")
    /\ UNCHANGED <<evidence, dailyOrders>>

SaveRun(w) ==
    /\ SchedulerAt(w, "log")
    /\ NextDaemon(w)
    /\ UNCHANGED <<evidence, daemons, dailyOrders, incidents>>

\* recordFailure saves the state as it was leased, with the hash of before; if it cannot
\* save the run as well, the rest of the batch is left.
RecordFailure(w) ==
    /\ SchedulerAt(w, "fail")
    /\ Saved(w, Remembered(w), "failed")
    /\ \/ NextDaemon(w) /\ UNCHANGED incidents
       \/ Incident /\ schedulers' = [schedulers EXCEPT ![w] = Asleep]
    /\ UNCHANGED <<evidence, dailyOrders>>

\* A read or a write that throws before it has changed anything.
SchedulerThrows(w) ==
    /\ schedulers[w].at \notin {"idle", "fail"}
    /\ Incident
    /\ SchedulerTo(w, "fail")
    /\ UNCHANGED <<evidence, daemons, dailyOrders>>

\* The process dies, or recordFailure throws at once: the batch stays leased.
SchedulerLost(w) ==
    /\ ~SchedulerAt(w, "idle")
    /\ Incident
    /\ schedulers' = [schedulers EXCEPT ![w] = Asleep]
    /\ UNCHANGED <<evidence, daemons, dailyOrders>>

RunBy(w, d) == \E i \in DOMAIN schedulers[w].batch : schedulers[w].batch[i].daemon = d
Unattended(d) == \A w \in Schedulers : ~RunBy(w, d)

DaemonLeaseEnds(d) ==
    /\ daemons[d].lease = "live"
    /\ daemons' = [daemons EXCEPT ![d].lease = "over"]
    /\ IF Unattended(d) THEN UNCHANGED incidents ELSE Incident
    /\ UNCHANGED <<evidence, schedulers, dailyOrders>>

IntervalPasses(d) ==
    /\ ~daemons[d].due
    /\ daemons' = [daemons EXCEPT ![d].due = TRUE]
    /\ UNCHANGED <<evidence, schedulers, dailyOrders, incidents>>

-----------------------------------------------------------------------------
SchedulerStep(w) ==
    \/ LeaseDaemons(w) \/ ReadSignals(w) \/ BuildDaemonPack(w) \/ EnqueueOrder(w)
    \/ CompleteState(w) \/ SaveRun(w) \/ RecordFailure(w)

DaemonsNext ==
    \/ \E d \in Daemons : EvidenceChanges(d) \/ DaemonLeaseEnds(d) \/ IntervalPasses(d)
    \/ \E w \in Schedulers : SchedulerStep(w) \/ SchedulerThrows(w) \/ SchedulerLost(w)

\* The time of a daemon: its interval, and the lease of a scheduler that is gone.
DaemonTime(d) == IntervalPasses(d) \/ (Unattended(d) /\ DaemonLeaseEnds(d))

-----------------------------------------------------------------------------
(* Properties.                                                             *)

\* Signals are remembered as seen only when an order was recorded for them: late
\* schedulers, lost answers and failures between the two writes may forget that signals
\* were seen, and never mark as seen what no order carries.
SeenOnlyIfOrdered ==
    \A d \in Daemons : daemons[d].previous /= NeverRun => daemons[d].previous \in dailyOrders[d]

=============================================================================
