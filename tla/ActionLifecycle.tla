--------------------------- MODULE ActionLifecycle ---------------------------
(***************************************************************************)
(* The governed lifecycle of a business action: ActionService (the API's   *)
(* proposal, review, approval and execution handlers), the transactions of *)
(* PostgresActionRepository, and the remote provider behind an             *)
(* ActionExecutor.                                                         *)
(*                                                                         *)
(* Several handlers run concurrently, possibly in different API processes. *)
(* A handler keeps nothing but local variables between two awaits; every   *)
(* durable fact is in the database.  One action of this module is what a   *)
(* handler does from one await to the next.  A read that ends in a thrown  *)
(* error before anything was written leaves every variable unchanged, and  *)
(* is therefore not an action.                                             *)
(***************************************************************************)
EXTENDS Naturals, Sequences

CONSTANTS
    Actions,      \* identifiers of business actions
    Complete,     \* those whose evidence bundle passes assertCompleteEvidence
    Handlers,     \* concurrently running API request handlers
    None,         \* "no action": what an idle handler works on
    Ttl,          \* ACTION_APPROVAL_TTL_MS
    Skew,         \* how far the clock of an API process may lag behind
    IdOrder,      \* outcomes of comparing a fresh random receipt id with the
                  \* id of a receipt stamped in the same millisecond
    MaxTime,      \* bound: last instant of the clock
    MaxFaults     \* bound: crashes, failed and unacknowledged transactions

ASSUME CompleteAssumption == Complete \subseteq Actions
ASSUME NoneAssumption     == None \notin Actions
ASSUME ClockAssumption    == Ttl \in Nat /\ Skew \in Nat /\ MaxTime \in Nat
ASSUME FaultsAssumption   == MaxFaults \in Nat
ASSUME IdOrderAssumption  == IdOrder \subseteq BOOLEAN /\ IdOrder # {}

VARIABLES
    \* --- the database -------------------------------------------------
    status,    \* business_actions.status; "absent" when there is no row
    approved,  \* is there a row in approvals
    receipts,  \* verifiable_receipts of each action, in commit order
    newest,    \* the receipt that ORDER BY recorded_at DESC, id DESC puts first
    events,    \* the idempotency keys of each action in transactional_outbox
    \* --- the handlers -------------------------------------------------
    pc,        \* where each handler waits
    act,       \* the action it works on
    to,        \* the status of the transition it is about to save
    stamp,     \* the time it put on the receipt it is about to save
    \* --- the environment ----------------------------------------------
    remote,    \* what the provider has done for each action
    attempts,  \* how often the executor has sent each action to the provider
    now,
    faults     \* faults that may still happen

db       == <<status, approved, receipts, newest, events>>
handlers == <<pc, act, to, stamp>>
vars     == <<db, handlers, remote, attempts, now, faults>>

ActionStatus == {"absent", "proposed", "reviewed", "approved", "executing",
                 "executed", "verified", "uncertain"}
ReceiptType  == {"proposal", "review", "approval", "execution",
                 "verification", "outcome"}
Place        == {"idle", "loaded", "save", "call", "wait", "verify"}
Receipt      == [type : ReceiptType, at : Nat, prev : Nat]

TypeOK ==
    /\ status   \in [Actions -> ActionStatus]
    /\ approved \in [Actions -> BOOLEAN]
    /\ receipts \in [Actions -> Seq(Receipt)]
    /\ newest   \in [Actions -> Nat]
    /\ events   \in [Actions -> SUBSET ActionStatus]
    /\ pc       \in [Handlers -> Place]
    /\ act      \in [Handlers -> Actions \cup {None}]
    /\ to       \in [Handlers -> ActionStatus]
    /\ stamp    \in [Handlers -> Nat]
    /\ remote   \in [Actions -> {"untouched", "inflight", "applied"}]
    /\ attempts \in [Actions -> Nat]
    /\ now      \in Nat
    /\ faults   \in Nat
    /\ \A r \in Handlers : pc[r] = "idle" <=> act[r] = None

Init ==
    /\ status   = [a \in Actions |-> "absent"]
    /\ approved = [a \in Actions |-> FALSE]
    /\ receipts = [a \in Actions |-> <<>>]
    /\ newest   = [a \in Actions |-> 0]
    /\ events   = [a \in Actions |-> {}]
    /\ pc       = [r \in Handlers |-> "idle"]
    /\ act      = [r \in Handlers |-> None]
    /\ to       = [r \in Handlers |-> "absent"]
    /\ stamp    = [r \in Handlers |-> 0]
    /\ remote   = [a \in Actions |-> "untouched"]
    /\ attempts = [a \in Actions |-> 0]
    /\ now      = 0
    /\ faults   = MaxFaults

-----------------------------------------------------------------------------
(* The two transition tables.                                              *)

\* The transitions of the domain model.  A draft exists only in the memory of
\* the request that proposes it, so the row is still absent.  The targets
\* failed, rejected and expired of the source's table are requested by no
\* operation of the service.
Transition ==
    {<<"absent", "proposed">>, <<"proposed", "reviewed">>,
     <<"reviewed", "approved">>, <<"approved", "executing">>,
     <<"executing", "executed">>, <<"executing", "uncertain">>,
     <<"executed", "verified">>, <<"executed", "uncertain">>}

\* The statuses from which the repository's compare-and-set lets a row move
\* to s; an INSERT ... ON CONFLICT DO NOTHING for "proposed".
ExpectedPrevious(s) ==
    CASE s = "proposed"  -> {"absent"}
      [] s = "reviewed"  -> {"proposed"}
      [] s = "approved"  -> {"reviewed"}
      [] s = "executing" -> {"approved"}
      [] s = "executed"  -> {"executing"}
      [] s = "verified"  -> {"executed"}
      [] s = "uncertain" -> {"executing", "executed"}
      [] OTHER           -> {}

\* Every transition but the start of the execution writes a receipt.
ReceiptFor(s) ==
    CASE s = "proposed"  -> "proposal"
      [] s = "reviewed"  -> "review"
      [] s = "approved"  -> "approval"
      [] s = "executed"  -> "execution"
      [] s = "verified"  -> "verification"
      [] OTHER           -> "outcome"

-----------------------------------------------------------------------------
(* Time.                                                                   *)

\* What clock.now() may return in some API process.
Readings == {t \in 0..now : now <= t + Skew}

\* expiresAt, fixed when the action is proposed.
ExpiresAt(a) == receipts[a][1].at + Ttl

-----------------------------------------------------------------------------
(* What a handler does with its local variables.                           *)

\* The handler has built the action's next version, the event and the receipt
\* (time-stamped here, before the transaction starts) and calls save.
Draft(r, a, s, t) ==
    /\ pc'    = [pc EXCEPT ![r] = "save"]
    /\ act'   = [act EXCEPT ![r] = a]
    /\ to'    = [to EXCEPT ![r] = s]
    /\ stamp' = [stamp EXCEPT ![r] = t]

\* The same for a handler that already works on its action.
DraftOwn(r, s) ==
    \E t \in Readings :
        /\ pc'    = [pc EXCEPT ![r] = "save"]
        /\ to'    = [to EXCEPT ![r] = s]
        /\ stamp' = [stamp EXCEPT ![r] = t]
        /\ UNCHANGED act

\* The request ends: with a response, or with an error thrown to the client.
Finish(r) ==
    /\ pc'    = [pc EXCEPT ![r] = "idle"]
    /\ act'   = [act EXCEPT ![r] = None]
    /\ to'    = [to EXCEPT ![r] = "absent"]
    /\ stamp' = [stamp EXCEPT ![r] = 0]

MoveTo(r, place) ==
    /\ pc' = [pc EXCEPT ![r] = place]
    /\ UNCHANGED <<act, to, stamp>>

Fault == faults > 0 /\ faults' = faults - 1

-----------------------------------------------------------------------------
(* Requests: the reads and checks up to the first write.                   *)

\* POST /v1/actions gives every proposal a fresh random id.
Propose(r, a) ==
    /\ pc[r] = "idle"
    /\ a \in Complete
    /\ status[a] = "absent"
    /\ \A q \in Handlers : act[q] # a
    /\ \E t \in Readings : Draft(r, a, "proposed", t)
    /\ UNCHANGED <<db, remote, attempts, now, faults>>

MarkReviewed(r, a) ==
    /\ pc[r] = "idle"
    /\ <<status[a], "reviewed">> \in Transition
    /\ \E t \in Readings : Draft(r, a, "reviewed", t)
    /\ UNCHANGED <<db, remote, attempts, now, faults>>

Approve(r, a) ==
    /\ pc[r] = "idle"
    /\ status[a] = "reviewed"
    /\ \E t \in Readings : t < ExpiresAt(a) /\ Draft(r, a, "approved", t)
    /\ UNCHANGED <<db, remote, attempts, now, faults>>

\* execute() first reads the action; with any other status it will throw at
\* transitionAction.
LoadAction(r, a) ==
    /\ pc[r] = "idle"
    /\ <<status[a], "executing">> \in Transition
    /\ pc'  = [pc EXCEPT ![r] = "loaded"]
    /\ act' = [act EXCEPT ![r] = a]
    /\ UNCHANGED <<to, stamp, db, remote, attempts, now, faults>>

\* ... and then the approval, in a second query.  The approval's hash matches
\* because no operation changes the content of a stored action.
LoadApproval(r) ==
    /\ pc[r] = "loaded"
    /\ approved[act[r]]
    /\ \E t \in Readings : t < ExpiresAt(act[r]) /\ Draft(r, act[r], "executing", t)
    /\ UNCHANGED <<db, remote, attempts, now, faults>>

RefuseExecution(r) ==
    /\ pc[r] = "loaded"
    /\ approved[act[r]] => \E t \in Readings : t >= ExpiresAt(act[r])
    /\ Finish(r)
    /\ UNCHANGED <<db, remote, attempts, now, faults>>

-----------------------------------------------------------------------------
(* The transaction: lock, compare-and-set, approval, receipt, event.       *)

\* FAULTY variant of CanCommit: without the single-successor index.
CanCommitUnindexed(a, s) ==
    /\ status[a] \in ExpectedPrevious(s)
    /\ s = "approved" => ~approved[a]
    /\ s \notin events[a]

\* The compare-and-set finds a row; the approval is the action's only one;
\* the receipt the new one would point to has no successor yet; the event's
\* idempotency key is new.
CanCommit(a, s) ==
    /\ status[a] \in ExpectedPrevious(s)
    /\ s = "approved" => ~approved[a]
    /\ s # "executing" => newest[a] = Len(receipts[a])
    /\ s \notin events[a]

\* persistReceipt: the new receipt points to the one that sorts first, and
\* sorts before it if it is later, or as late with a greater random id.
AppendReceipt(a, s, t) ==
    LET chain == receipts[a]
        last  == newest[a]
        fresh == [type |-> ReceiptFor(s), at |-> t, prev |-> last]
    IN  \E greater \in IdOrder :
            /\ receipts' = [receipts EXCEPT ![a] = Append(chain, fresh)]
            /\ newest' =
                   IF \/ last = 0
                      \/ t > chain[last].at
                      \/ t = chain[last].at /\ greater
                   THEN [newest EXCEPT ![a] = Len(chain) + 1]
                   ELSE newest

Commit(a, s, t) ==
    /\ status'   = [status EXCEPT ![a] = s]
    /\ approved' = [approved EXCEPT ![a] = @ \/ s = "approved"]
    /\ events'   = [events EXCEPT ![a] = @ \cup {s}]
    /\ IF s = "executing"
       THEN UNCHANGED <<receipts, newest>>
       ELSE AppendReceipt(a, s, t)

\* What the handler goes on with after save has returned.
AfterSave(r) ==
    CASE to[r] = "executing" -> MoveTo(r, "call")
      [] to[r] = "executed"  -> MoveTo(r, "verify")
      [] OTHER               -> Finish(r)

\* FAULTY variant of AfterFailedSave: a lost race for "executing" is ignored.
AfterFailedSaveUnchecked(r) ==
    CASE to[r] = "executing" -> MoveTo(r, "call")
      [] to[r] \in {"executed", "verified"} -> DraftOwn(r, "uncertain")
      [] OTHER -> Finish(r)

\* ... and after save has thrown: inside the try block of execute() the catch
\* clause drafts the uncertain action, anywhere else the request ends.
AfterFailedSave(r) ==
    IF to[r] \in {"executed", "verified"}
    THEN DraftOwn(r, "uncertain")
    ELSE Finish(r)

Save(r) ==
    /\ pc[r] = "save"
    /\ CanCommit(act[r], to[r])
    /\ Commit(act[r], to[r], stamp[r])
    /\ AfterSave(r)
    /\ UNCHANGED <<remote, attempts, now, faults>>

\* Conflict: a compare-and-set or a unique index rejects the transaction.
SaveConflicts(r) ==
    /\ pc[r] = "save"
    /\ ~CanCommit(act[r], to[r])
    /\ AfterFailedSave(r)
    /\ UNCHANGED <<db, remote, attempts, now, faults>>

\* The connection fails and the transaction is rolled back ...
SaveRollsBack(r) ==
    /\ pc[r] = "save"
    /\ Fault
    /\ AfterFailedSave(r)
    /\ UNCHANGED <<db, remote, attempts, now>>

\* ... or it was committed, and the acknowledgement is lost.
SaveLosesAck(r) ==
    /\ pc[r] = "save"
    /\ Fault
    /\ CanCommit(act[r], to[r])
    /\ Commit(act[r], to[r], stamp[r])
    /\ AfterFailedSave(r)
    /\ UNCHANGED <<remote, attempts, now>>

-----------------------------------------------------------------------------
(* The executor and the provider.                                          *)

\* The executor sends the request.
SendExecute(r) ==
    /\ pc[r] = "call"
    /\ attempts' = [attempts EXCEPT ![act[r]] = @ + 1]
    /\ remote'   = [remote EXCEPT ![act[r]] = IF @ = "applied" THEN @ ELSE "inflight"]
    /\ MoveTo(r, "wait")
    /\ UNCHANGED <<db, now, faults>>

\* It refuses locally: execution disabled, no route, invalid command.
ExecutorRefuses(r) ==
    /\ pc[r] = "call"
    /\ DraftOwn(r, "uncertain")
    /\ UNCHANGED <<db, remote, attempts, now, faults>>

\* The provider may act at any time, also after the client has timed out.
ProviderApplies(a) ==
    /\ remote[a] = "inflight"
    /\ remote' = [remote EXCEPT ![a] = "applied"]
    /\ UNCHANGED <<db, handlers, attempts, now, faults>>

\* A success response acknowledges the request; the provider may still apply
\* the change later.
ExecuteReturns(r) ==
    /\ pc[r] = "wait"
    /\ DraftOwn(r, "executed")
    /\ UNCHANGED <<db, remote, attempts, now, faults>>

\* FAULTY variant of ExecuteFails: a request without an answer is sent again.
ExecuteRetries(r) ==
    /\ pc[r] = "wait"
    /\ MoveTo(r, "call")
    /\ UNCHANGED <<db, remote, attempts, now, faults>>

\* An error response, an unreadable one, or the executor's timeout.
ExecuteFails(r) ==
    /\ pc[r] = "wait"
    /\ DraftOwn(r, "uncertain")
    /\ UNCHANGED <<db, remote, attempts, now, faults>>

\* FAULTY variant of VerifySucceeds: the acknowledgement is taken for the effect.
VerifyAssumed(r) ==
    /\ pc[r] = "verify"
    /\ DraftOwn(r, "verified")
    /\ UNCHANGED <<db, remote, attempts, now, faults>>

\* The verification read observes the approved change.
VerifySucceeds(r) ==
    /\ pc[r] = "verify"
    /\ remote[act[r]] = "applied"
    /\ DraftOwn(r, "verified")
    /\ UNCHANGED <<db, remote, attempts, now, faults>>

\* FAULTY variant of VerifyFails: the request ends without the catch clause.
VerifyFailsUncaught(r) ==
    /\ pc[r] = "verify"
    /\ Finish(r)
    /\ UNCHANGED <<db, remote, attempts, now, faults>>

\* It does not, or it throws.
VerifyFails(r) ==
    /\ pc[r] = "verify"
    /\ DraftOwn(r, "uncertain")
    /\ UNCHANGED <<db, remote, attempts, now, faults>>

-----------------------------------------------------------------------------

\* The API process that runs the handler dies.
Crash(r) ==
    /\ pc[r] # "idle"
    /\ Fault
    /\ Finish(r)
    /\ UNCHANGED <<db, remote, attempts, now>>

Tick ==
    /\ now < MaxTime
    /\ now' = now + 1
    /\ UNCHANGED <<db, handlers, remote, attempts, faults>>

\* A step of a handler that has begun; the scheduler of the process owes it.
Proceed(r) ==
    \/ LoadApproval(r) \/ RefuseExecution(r)
    \/ Save(r) \/ SaveConflicts(r)
    \/ SendExecute(r) \/ ExecutorRefuses(r)
    \/ ExecuteReturns(r) \/ ExecuteFails(r)
    \/ VerifySucceeds(r) \/ VerifyFails(r)

Next ==
    \/ \E r \in Handlers, a \in Actions :
           Propose(r, a) \/ MarkReviewed(r, a) \/ Approve(r, a) \/ LoadAction(r, a)
    \/ \E r \in Handlers :
           Proceed(r) \/ SaveRollsBack(r) \/ SaveLosesAck(r) \/ Crash(r)
    \/ \E a \in Actions : ProviderApplies(a)
    \/ Tick

Spec == Init /\ [][Next]_vars

\* Every await of a live handler is resumed; requests, faults, the provider
\* and the clock owe nothing.
Fairness == \A r \in Handlers : WF_vars(Proceed(r))

FairSpec == Spec /\ Fairness

-----------------------------------------------------------------------------
(* What the lifecycle promises.                                            *)

\* No blind retry: whatever is lost, repeated or raced, the executor asks the
\* provider for the effect of an action at most once.
AtMostOneAttempt == \A a \in Actions : attempts[a] <= 1

\* Uncertainty is never taken for success: an action recorded as verified has
\* had its effect at the provider.
VerifiedMeansApplied ==
    \A a \in Actions : status[a] = "verified" => remote[a] = "applied"

\* The receipts of an action form one linear chain from the proposal on, even
\* when clocks lag and random ids decide which receipt sorts first.
ChainIsLinear ==
    \A a \in Actions : \A i \in 1..Len(receipts[a]) : receipts[a][i].prev = i - 1

\* A settled action stays settled, also when the acknowledgement of the commit
\* that settled it is lost and the catch clause writes "uncertain" after it.
SettledForever ==
    [][\A a \in Actions :
           status[a] \in {"verified", "uncertain"} => status'[a] = status[a]]_vars

\* Only a fault, or a receipt that sorts behind the one it follows (a lagging clock, a
\* tie of ids), can keep an execution that has started from being settled: whatever
\* the executor answers, whoever raced for the action, every path of execute() saves
\* "verified" or "uncertain".
Jammed(a) == newest[a] # Len(receipts[a])

OnlyFaultsStrand ==
    \A a \in Actions :
        status[a] = "executing" ~>
            status[a] \in {"verified", "uncertain"} \/ faults < MaxFaults \/ Jammed(a)

\* An execution that has started ends: "Cuando el resultado externo no puede
\* reconciliarse, la accion termina en uncertain" (README).
ExecutionSettles ==
    \A a \in Actions :
        status[a] = "executing" ~> status[a] \in {"verified", "uncertain"}

\* The lifecycle implements the ledger of ActionLedger.
Ledger == INSTANCE ActionLedger WITH stage <- status, asked <- attempts, effect <- remote
LedgerSpec == Ledger!Spec
=============================================================================
