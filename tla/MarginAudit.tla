----------------------------- MODULE MarginAudit -----------------------------
(***************************************************************************)
(* The margin audit of one listing.  A worker runs the margin daemon, then *)
(* the stock daemon, for ever; the margin daemon leases the policy when it *)
(* is due, reads the economics, saves a snapshot and schedules the next    *)
(* audit.  A clerk is a call of the ingest or the reconcile route: the     *)
(* same audit without a lease.  Saving a snapshot wakes the stock audit.   *)
(*                                                                         *)
(* A complete snapshot carries the time it was read and is never twice the *)
(* same; an incomplete one carries none, so that a repeated one is dropped *)
(* by its hash, and is dated when it is saved.  Findings are written and   *)
(* never read, and left out.  The fee and the fulfilment cost are fresh.   *)
(***************************************************************************)
EXTENDS SupplierMirror, ProfitEngine

CONSTANTS
    Workers,       \* company worker processes
    Clerks,        \* calls of POST economic/ingest and economic/reconcile
    PolicyAge,     \* maximum_evidence_age_ms of the listing's policy
    Terms          \* price, fee, fulfilment cost and minimum margin of the listing

ASSUME TermsAssumption ==
    /\ Terms.price \in Nat \ {0} /\ Terms.fulfilment \in Nat
    /\ Terms.fee \in 0..BasisPoints /\ Terms.minimum \in 0..BasisPoints

VARIABLES
    desks,         \* where each worker and clerk is, and what it has read
    latest,        \* the snapshot with the last calculated_at
    incomplete     \* the incomplete snapshots saved so far

marginVars == <<desks, latest, incomplete>>

Auditors == Workers \union Clerks
AtMargins == [at |-> "margins", source |-> NoRow, found |-> NoRow, earlier |-> {}, late |-> FALSE]
Resting == [AtMargins EXCEPT !.at = "resting"]

MarginInit ==
    /\ desks = [a \in Auditors |-> IF a \in Workers THEN AtMargins ELSE Resting]
    /\ latest = NoRow /\ incomplete = {}

At(a, step) == desks[a].at = step
AtStocks == [AtMargins EXCEPT !.at = "stocks"]

\* The auditor takes up its next step; what it had read is in flight no more.
Goes(a, desk) ==
    desks' = [b \in Auditors |-> IF b = a THEN desk ELSE [desks[b] EXCEPT !.earlier = @ \ {a}]]

-----------------------------------------------------------------------------
\* What the reader returns for a product cost.
EconomicInput(row) ==
    LET known(name) == [id |-> <<name, 0>>, at |-> now]
        told == {"fulfillment-cost"} \union (IF row = NoRow THEN {} ELSE {"product-cost"})
    IN [price |-> Terms.price, quantity |-> 1,
        rate |-> [bps |-> Terms.fee, evidence |-> known("fee")],
        costs |-> [kind \in told |->
            IF kind = "product-cost"
            THEN [amount |-> row.amount,
                  evidence |-> [id |-> <<row.source, row.at>>, at |-> row.at]]
            ELSE [amount |-> Terms.fulfilment, evidence |-> known("fulfillment")]],
        minimum |-> Terms.minimum, asOf |-> now, maxAge |-> PolicyAge]

\* FAULTY variant of Free: a lease is never taken over.
FreeUnleased(lease) == lease.owner = NoRow
Free(lease) == lease.owner = NoRow \/ lease.over

RunMarginDaemon(w) ==
    /\ At(w, "margins")
    /\ IF policy.next = Due /\ Free(policy.lease)
       THEN /\ policy' = [policy EXCEPT !.lease = [owner |-> w, over |-> FALSE]]
            /\ Goes(w, [AtMargins EXCEPT !.at = "read"])
       ELSE Goes(w, AtStocks) /\ UNCHANGED policy

Reading == {a \in Auditors : At(a, "save")}

ReadEconomics(a) ==
    /\ At(a, IF a \in Workers THEN "read" ELSE "resting")
    /\ Goes(a, [desks[a] EXCEPT !.at = "save", !.found = CalculateProfitability(EconomicInput(cost)),
                                !.earlier = Reading])
    /\ UNCHANGED policy

\* Snapshots read before this one, and every one read when this is dated at its saving.
Overtaken(a) == IF desks[a].found.status = "incomplete" THEN Reading \ {a} ELSE desks[a].earlier

StockWoken == [s \in Sources |-> IF links[s].stocked THEN Woken(links[s]) ELSE links[s]]

SaveSnapshot(a) ==
    /\ At(a, "save")
    /\ LET snapshot == desks[a].found
           next == IF a \in Workers THEN [AtMargins EXCEPT !.at = "close"] ELSE Resting
       IN IF snapshot \in incomplete
          THEN Goes(a, next) /\ UNCHANGED <<latest, incomplete, links>>
          ELSE /\ desks' = [b \in Auditors |->
                     IF b = a THEN next
                     ELSE [desks[b] EXCEPT !.late = @ \/ b \in Overtaken(a), !.earlier = @ \ {a}]]
               /\ latest' = IF desks[a].late /\ snapshot.status /= "incomplete" THEN latest
                            ELSE snapshot
               /\ incomplete' = incomplete \union {x \in {snapshot} : x.status = "incomplete"}
               /\ links' = StockWoken
    /\ UNCHANGED policy

\* FAULTY variant of Released: the next audit is left due.
ReleasedDue(row) == [row EXCEPT !.lease = Unleased]
Released(row) == [row EXCEPT !.next = Later, !.lease = Unleased]

CompleteMargin(w) ==
    /\ At(w, "close")
    /\ IF policy.lease.owner = w
       THEN policy' = Released(policy) /\ Goes(w, AtStocks)
       ELSE UNCHANGED policy /\ Goes(w, [AtMargins EXCEPT !.at = "fail"])

\* fail schedules a retry; on a lost lease it throws, out of runOnce.
FailMargin(w) ==
    /\ At(w, "fail") /\ Goes(w, AtStocks)
    /\ policy' = IF policy.lease.owner = w THEN Released(policy) ELSE policy

\* A call to the database throws.
MarginThrows(a) ==
    /\ Incident
    /\ desks[a].at \in {"read", "save", "close", "fail"}
    /\ Goes(a, IF a \in Clerks THEN Resting
               ELSE IF At(a, "fail") THEN AtStocks ELSE [AtMargins EXCEPT !.at = "fail"])
    /\ UNCHANGED policy

AuditedBy(w) == policy.lease.owner = w /\ desks[w].at \in {"read", "save", "close", "fail"}

\* The policy's lease runs out; under a worker that is still at work it is an incident.
PolicyLeaseEnds ==
    /\ policy.lease.owner /= NoRow /\ ~policy.lease.over
    /\ IF \E w \in Workers : AuditedBy(w) THEN Incident ELSE UNCHANGED incidents
    /\ policy' = [policy EXCEPT !.lease.over = TRUE]

PolicyComesDue == policy.next = Later /\ policy' = [policy EXCEPT !.next = Due]

MarginStep(w) ==
    \/ RunMarginDaemon(w) /\ UNCHANGED <<latest, incomplete, links>>
    \/ ReadEconomics(w) /\ UNCHANGED <<latest, incomplete, links>>
    \/ SaveSnapshot(w)
    \/ CompleteMargin(w) /\ UNCHANGED <<latest, incomplete, links>>
    \/ FailMargin(w) /\ UNCHANGED <<latest, incomplete, links>>

ClerkStep(c) ==
    \/ ReadEconomics(c) /\ Changed /\ UNCHANGED <<latest, incomplete, links>>
    \/ SaveSnapshot(c) /\ UNCHANGED changes
=============================================================================
