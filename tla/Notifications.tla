---------------------------- MODULE Notifications ----------------------------
(***************************************************************************)
(* The inbox of MercadoLibre notifications and the read model they keep    *)
(* up to date, for one account: the webhook that enqueues a notification,  *)
(* MercadoLibreNotificationProcessor in each worker process, the           *)
(* synchronisations of MercadoLibreService that it calls, and the operator *)
(* who requeues dead letters.                                              *)
(*                                                                         *)
(* The remote data and the tables of the read model come in parts; a part  *)
(* is as old as the number of changes it has seen.  A synchronisation      *)
(* reads all parts of a family, then replaces them all, each in a          *)
(* transaction of its own; Promise.all reports the first failure and does  *)
(* not wait for the other replacement.                                     *)
(***************************************************************************)
EXTENDS Naturals, FiniteSets

CONSTANTS
    Notices,      \* ids of notifications
    Parts,        \* claims, questions, orders, reputation, listings
    PartOf,       \* the part whose change a notification tells of
    FamilyOf,     \* the family of each part: familyForTopic
    Workers,      \* worker processes
    Nobody,       \* lease_owner IS NULL; no family in hand
    Limit,        \* MELI_NOTIFICATION_BATCH_SIZE
    MaxAttempts,  \* MELI_NOTIFICATION_MAX_ATTEMPTS
    MaxIncidents  \* bound: crashes, failed statements, leases that expire while
                  \* their holder is at work, and replays by the operator

Families == {FamilyOf[p] : p \in Parts}

ASSUME PartsAssumption   == PartOf \in [Notices -> Parts] /\ Nobody \notin Families
ASSUME WorkersAssumption == Nobody \notin Workers
ASSUME LimitAssumption   == Limit \in Nat \ {0} /\ MaxAttempts \in Nat \ {0}
ASSUME BoundAssumption   == MaxIncidents \in Nat

VARIABLES
    \* --- mercadolibre_notifications ---------------------------------------
    state, attempts, owner,
    live,      \* lease_until is in the future
    due,       \* available_at is in the past
    \* --- the remote data and the read model --------------------------------
    remote,    \* changes made to each part
    view,      \* changes each part of the read model shows
    stray,     \* replacements whose synchronisation has already thrown
    \* --- the workers -------------------------------------------------------
    batch,     \* <<notification, attempts at the lease>> still to be handled
    phase,
    family,    \* the group in hand
    have,      \* <<part, changes>> read and not replaced yet
    \* --- history and bound ---------------------------------------------------
    tells,     \* the change each notification tells of
    best,      \* the newest that each part of the read model has ever shown
    incidents

inbox  == <<state, attempts, owner, live, due>>
data   == <<remote, view, stray, tells, best>>
work   == <<batch, phase, family, have>>
vars   == <<inbox, data, work, incidents>>

Status == {"absent", "pending", "processing", "processed", "dead"}
Phase  == {"idle", "read", "replace", "mark", "fail"}

TypeOK ==
    /\ state    \in [Notices -> Status]
    /\ attempts \in [Notices -> Nat]
    /\ owner    \in [Notices -> Workers \cup {Nobody}]
    /\ live     \in [Notices -> BOOLEAN]
    /\ due      \in [Notices -> BOOLEAN]
    /\ remote   \in [Parts -> Nat]
    /\ view     \in [Parts -> Nat]
    /\ stray    \in SUBSET (Parts \X Nat)
    /\ batch    \in [Workers -> SUBSET (Notices \X Nat)]
    /\ phase    \in [Workers -> Phase]
    /\ family   \in [Workers -> Families \cup {Nobody}]
    /\ have     \in [Workers -> SUBSET (Parts \X Nat)]
    /\ tells    \in [Notices -> Nat]
    /\ best     \in [Parts -> Nat]
    /\ incidents \in Nat
    /\ \A n \in Notices : state[n] = "processing" <=> owner[n] # Nobody
    /\ \A s \in Workers : phase[s] = "idle" <=> family[s] = Nobody
    /\ \A s \in Workers : phase[s] # "replace" => have[s] = {}
    /\ \A p \in Parts : view[p] <= best[p] /\ best[p] <= remote[p]

Init ==
    /\ state    = [n \in Notices |-> "absent"]
    /\ attempts = [n \in Notices |-> 0]
    /\ owner    = [n \in Notices |-> Nobody]
    /\ live     = [n \in Notices |-> FALSE]
    /\ due      = [n \in Notices |-> FALSE]
    /\ remote   = [p \in Parts |-> 0]
    /\ view     = [p \in Parts |-> 0]
    /\ stray    = {}
    /\ batch    = [w \in Workers |-> {}]
    /\ phase    = [s \in Workers |-> "idle"]
    /\ family   = [s \in Workers |-> Nobody]
    /\ have     = [s \in Workers |-> {}]
    /\ tells    = [n \in Notices |-> 0]
    /\ best     = [p \in Parts |-> 0]
    /\ incidents = MaxIncidents

Incident == incidents > 0 /\ incidents' = incidents - 1

-----------------------------------------------------------------------------
(* The inbox.                                                              *)

\* Something changes at MercadoLibre and its notification arrives; a second
\* delivery of it meets its idempotency key and changes nothing.
Ingest(n) ==
    /\ state[n] = "absent"
    /\ state'  = [state EXCEPT ![n] = "pending"]
    /\ due'    = [due EXCEPT ![n] = TRUE]
    /\ remote' = [remote EXCEPT ![PartOf[n]] = @ + 1]
    /\ tells'  = [tells EXCEPT ![n] = remote'[PartOf[n]]]
    /\ UNCHANGED <<attempts, owner, live, view, stray, best, work, incidents>>

\* FAULTY variant of Leasable: a notification that was leased is left alone.
LeasablePending(n) == due[n] /\ state[n] = "pending"

Leasable(n) ==
    due[n] /\ (state[n] = "pending" \/ (state[n] = "processing" /\ ~live[n]))

\* FAULTY variant of Holds: the marks look for the id alone.
HoldsById(w, n) == state[n] # "absent"

Holds(w, n) == state[n] = "processing" /\ owner[n] = w

Members(w) == {b[1] : b \in batch[w]}
Group(w)   == {b \in batch[w] : FamilyOf[PartOf[b[1]]] = family[w]}

\* FOR UPDATE SKIP LOCKED LIMIT: at most Limit of them.  received_at comes from
\* the sender, so any of them may be the oldest.
LeaseBatch(w) ==
    /\ phase[w] = "idle" /\ batch[w] = {}
    /\ \E some \in SUBSET {n \in Notices : Leasable(n)} :
         /\ some # {} /\ Cardinality(some) <= Limit
         /\ Cardinality(some) < Limit => \A n \in Notices : Leasable(n) => n \in some
         /\ state'    = [n \in Notices |-> IF n \in some THEN "processing" ELSE state[n]]
         /\ attempts' = [n \in Notices |-> attempts[n] + IF n \in some THEN 1 ELSE 0]
         /\ owner'    = [n \in Notices |-> IF n \in some THEN w ELSE owner[n]]
         /\ live'     = [n \in Notices |-> live[n] \/ n \in some]
         /\ batch'    = [batch EXCEPT ![w] = {<<n, attempts'[n]>> : n \in some}]
    /\ UNCHANGED <<due, data, phase, family, have, incidents>>

\* What the marks do to the lease of a row.
Unlock(ns, status) ==
    /\ state' = [n \in Notices |-> IF n \in ns THEN status ELSE state[n]]
    /\ owner' = [n \in Notices |-> IF n \in ns THEN Nobody ELSE owner[n]]
    /\ live'  = [n \in Notices |-> live[n] /\ n \notin ns]
    /\ UNCHANGED attempts

RequeueDead(n) ==
    /\ state[n] = "dead"
    /\ Incident
    /\ state'    = [state EXCEPT ![n] = "pending"]
    /\ attempts' = [attempts EXCEPT ![n] = 0]
    /\ due'      = [due EXCEPT ![n] = TRUE]
    /\ UNCHANGED <<owner, live, data, work>>

-----------------------------------------------------------------------------
(* A synchronisation.                                                      *)

\* The synchronisation of w is over; what comes next is `place`.
EndSync(w, place) ==
    /\ phase' = [phase EXCEPT ![w] = place]
    /\ have'  = [have EXCEPT ![w] = {}]
    /\ UNCHANGED family

StartGroup(w) ==
    /\ phase[w] = "idle" /\ batch[w] # {}
    /\ phase' = [phase EXCEPT ![w] = "read"]
    /\ \E n \in Members(w) : family' = [family EXCEPT ![w] = FamilyOf[PartOf[n]]]
    /\ UNCHANGED <<inbox, data, batch, have, incidents>>

\* No property compares two parts, so both may as well be read at once.
ReadRemote(w) ==
    /\ phase[w] = "read"
    /\ phase' = [phase EXCEPT ![w] = "replace"]
    /\ have'  = [have EXCEPT ![w] =
                     {<<p, remote[p]>> : p \in {q \in Parts : FamilyOf[q] = family[w]}}]
    /\ UNCHANGED <<inbox, data, batch, family, incidents>>

Show(p, v) ==
    /\ view' = [view EXCEPT ![p] = v]
    /\ best' = [best EXCEPT ![p] = IF v > @ THEN v ELSE @]
    /\ UNCHANGED <<remote, tells>>

\* One of the replace transactions.
Replace(w, p, v) ==
    /\ <<p, v>> \in have[w]
    /\ Show(p, v)
    /\ have' = [have EXCEPT ![w] = @ \ {<<p, v>>}]
    /\ UNCHANGED <<inbox, stray, batch, phase, family, incidents>>

SyncReturns(w) ==
    /\ phase[w] = "replace" /\ have[w] = {}
    /\ EndSync(w, "mark")
    /\ UNCHANGED <<inbox, data, batch, incidents>>

\* FAULTY variant of SyncThrows: a failed part is logged and passed over.
SyncThrowsPassedOver(w) ==
    /\ phase[w] \in {"read", "replace"}
    /\ EndSync(w, "mark")
    /\ UNCHANGED <<inbox, data, batch, incidents>>

\* No valid access token, a remote call that failed, or one of the replacements,
\* while others may still be on their way.
SyncThrows(w) ==
    /\ phase[w] \in {"read", "replace"}
    /\ \E left \in SUBSET have[w] :
         /\ left # {} => left # have[w]
         /\ stray' = stray \cup left
    /\ EndSync(w, "fail")
    /\ UNCHANGED <<inbox, remote, view, tells, best, batch, incidents>>

StrayReplaces(p, v) ==
    /\ <<p, v>> \in stray
    /\ stray' = stray \ {<<p, v>>}
    /\ \/ Show(p, v)
       \/ UNCHANGED <<view, best, remote, tells>>
    /\ UNCHANGED <<inbox, work, incidents>>

-----------------------------------------------------------------------------
(* The processor.                                                          *)

Settle(w, done) ==
    /\ batch'  = [batch EXCEPT ![w] = @ \ done]
    /\ phase'  = [phase EXCEPT ![w] = IF done = Group(w) THEN "idle" ELSE @]
    /\ family' = [family EXCEPT ![w] = IF done = Group(w) THEN Nobody ELSE @]
    /\ UNCHANGED have

\* processBatch throws or its process dies: the rest of the batch stays leased.
Abandon(w) ==
    /\ batch'  = [batch EXCEPT ![w] = {}]
    /\ phase'  = [phase EXCEPT ![w] = "idle"]
    /\ family' = [family EXCEPT ![w] = Nobody]
    /\ have'   = [have EXCEPT ![w] = {}]

Held(w) == {b[1] : b \in {g \in Group(w) : Holds(w, g[1])}}

MarkProcessed(w) ==
    /\ phase[w] = "mark"
    /\ \A b \in Group(w) : Holds(w, b[1])
    /\ Unlock(Held(w), "processed")
    /\ Settle(w, Group(w))
    /\ UNCHANGED <<due, data, incidents>>

\* The statement fails, or it has committed the rows still held when it turns
\* out that others are lost; either way the catch clause takes the whole group.
MarkProcessedThrows(w) ==
    /\ phase[w] = "mark"
    /\ phase' = [phase EXCEPT ![w] = "fail"]
    /\ \/ Held(w) # {b[1] : b \in Group(w)} /\ Unlock(Held(w), "processed") /\ UNCHANGED incidents
       \/ Incident /\ Unlock(Held(w), "processed")
       \/ Incident /\ UNCHANGED <<state, attempts, owner, live>>
    /\ UNCHANGED <<due, data, batch, family, have>>

\* By the attempts the worker was given with the lease, and one more.
Failed(b) ==
    IF b[2] + 1 >= MaxAttempts
    THEN Unlock({b[1]}, "dead") /\ due' = [due EXCEPT ![b[1]] = FALSE]
    ELSE Unlock({b[1]}, "pending") /\ due' = [due EXCEPT ![b[1]] = FALSE]

MarkFailed(w, b) ==
    /\ phase[w] = "fail" /\ b \in Group(w)
    /\ Holds(w, b[1])
    /\ Failed(b)
    /\ Settle(w, {b})
    /\ UNCHANGED <<data, incidents>>

MarkFailedThrows(w, b) ==
    /\ phase[w] = "fail" /\ b \in Group(w)
    /\ Abandon(w)
    /\ \/ ~Holds(w, b[1]) /\ UNCHANGED <<inbox, incidents>>
       \/ Incident /\ Holds(w, b[1]) /\ Failed(b)
       \/ Incident /\ UNCHANGED inbox
    /\ UNCHANGED data

Crash(w) ==
    /\ phase[w] # "idle" \/ batch[w] # {}
    /\ Incident
    /\ Abandon(w)
    /\ UNCHANGED <<inbox, data>>

-----------------------------------------------------------------------------
(* Time.                                                                   *)

AtWork(n) == \E w \in Workers : owner[n] = w /\ n \in Members(w)

Expire(n) ==
    /\ state[n] = "processing" /\ live[n]
    /\ live' = [live EXCEPT ![n] = FALSE]
    /\ UNCHANGED <<state, attempts, owner, due, data, work>>

LeaseExpires(n) == Expire(n) /\ ~AtWork(n) /\ UNCHANGED incidents

\* One lease covers the whole batch, synchronisations included.
LeaseOutrun(n) == Expire(n) /\ AtWork(n) /\ Incident

BackoffElapses(n) ==
    /\ state[n] = "pending" /\ ~due[n]
    /\ due' = [due EXCEPT ![n] = TRUE]
    /\ UNCHANGED <<state, attempts, owner, live, data, work, incidents>>

-----------------------------------------------------------------------------

Synchronise(w) ==
    \/ ReadRemote(w)
    \/ \E b \in have[w] : Replace(w, b[1], b[2])
    \/ SyncReturns(w) \/ SyncThrows(w)

\* What a worker owes once it has leased.
Loop(w) ==
    \/ StartGroup(w) \/ Synchronise(w)
    \/ MarkProcessed(w) \/ MarkProcessedThrows(w)
    \/ \E b \in batch[w] : MarkFailed(w, b) \/ MarkFailedThrows(w, b)

Next ==
    \/ \E n \in Notices :
           Ingest(n) \/ RequeueDead(n) \/ LeaseExpires(n) \/ LeaseOutrun(n) \/ BackoffElapses(n)
    \/ \E w \in Workers : LeaseBatch(w) \/ Loop(w) \/ Crash(w)
    \/ \E b \in stray : StrayReplaces(b[1], b[2])

Spec == Init /\ [][Next]_vars

\* Workers poll, their loops go on, and clocks move.  No synchronisation has
\* to succeed.
Fairness ==
    /\ \A w \in Workers : WF_vars(LeaseBatch(w)) /\ WF_vars(Loop(w))
    /\ \A n \in Notices : WF_vars(LeaseExpires(n)) /\ WF_vars(BackoffElapses(n))

FairSpec == Spec /\ Fairness

-----------------------------------------------------------------------------
(* What the inbox promises.                                                *)

\* A processed notification was answered: the read model has shown the change
\* it tells of, or a later one, whatever failed, was abandoned or leased again
\* in between.
ProcessedWasShown ==
    \A n \in Notices : state[n] = "processed" => best[PartOf[n]] >= tells[n]

StageOf(status) ==
    CASE status = "absent" -> "absent"
      [] status \in {"pending", "processing"} -> "open"
      [] status = "processed" -> "settled"
      [] status = "dead" -> "given up"
Stage == [n \in Notices |-> StageOf(state[n])]
Answered == {n \in Notices : state[n] # "absent" /\ best[PartOf[n]] >= tells[n]}

\* The inbox implements the ledger of TaskLedger; the work of a notification is done when
\* the read model has shown the change it tells of.
Ledger == INSTANCE TaskLedger WITH Tasks <- Notices, stage <- Stage, worked <- Answered
LedgerSpec == Ledger!Spec

\* "Los leases vencidos son recuperables por otro worker": every notification
\* that arrives is settled in the end.
EveryNotificationSettles ==
    \A n \in Notices : state[n] = "pending" ~> state[n] \in {"processed", "dead"}

=============================================================================
