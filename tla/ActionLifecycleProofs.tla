------------------------ MODULE ActionLifecycleProofs ------------------------
(***************************************************************************)
(* Theorems about ActionLifecycle, for every set of actions and handlers,  *)
(* every time to live, clock skew and order of receipt ids, and any number *)
(* of faults; and about ActionDelivery, its composition with the outbox,   *)
(* for every set of workers besides.                                       *)
(***************************************************************************)
EXTENDS ActionDelivery, TLAPS

-----------------------------------------------------------------------------
(* Types.                                                                  *)

\* The three parts of TypeOK, after the three groups of variables.
DbOK ==
    /\ status   \in [Actions -> ActionStatus]
    /\ approved \in [Actions -> BOOLEAN]
    /\ receipts \in [Actions -> Seq(Receipt)]
    /\ newest   \in [Actions -> Nat]
    /\ events   \in [Actions -> SUBSET ActionStatus]

HandlersOK ==
    /\ pc    \in [Handlers -> Place]
    /\ act   \in [Handlers -> Actions \cup {None}]
    /\ to    \in [Handlers -> ActionStatus]
    /\ stamp \in [Handlers -> Nat]
    /\ \A r \in Handlers : pc[r] = "idle" <=> act[r] = None

WorldOK ==
    /\ remote   \in [Actions -> {"untouched", "inflight", "applied"}]
    /\ attempts \in [Actions -> Nat]
    /\ now      \in Nat
    /\ faults   \in Nat

LEMMA TypeParts == TypeOK <=> DbOK /\ HandlersOK /\ WorldOK
BY DEF TypeOK, DbOK, HandlersOK, WorldOK

\* Readings of the clock are natural numbers.
LEMMA ReadingsInNat == now \in Nat => Readings \subseteq Nat
BY DEF Readings

\* A handler that does something works on an action.
LEMMA BusyHandler ==
    ASSUME HandlersOK, NEW r \in Handlers, pc[r] # "idle"
    PROVE  act[r] \in Actions
BY DEF HandlersOK

\* Each way of changing the local variables keeps their types.
LEMMA DraftType ==
    ASSUME HandlersOK, NEW r \in Handlers, NEW a \in Actions,
           NEW s \in ActionStatus, NEW t \in Nat, Draft(r, a, s, t)
    PROVE  HandlersOK'
BY NoneAssumption DEF HandlersOK, Draft, Place

LEMMA DraftOwnType ==
    ASSUME HandlersOK, now \in Nat, NEW r \in Handlers, pc[r] # "idle",
           NEW s \in ActionStatus, DraftOwn(r, s)
    PROVE  HandlersOK'
<1>1. PICK t \in Readings :
          /\ pc'    = [pc EXCEPT ![r] = "save"]
          /\ to'    = [to EXCEPT ![r] = s]
          /\ stamp' = [stamp EXCEPT ![r] = t]
          /\ UNCHANGED act
  BY DEF DraftOwn
<1>2. t \in Nat
  BY ReadingsInNat
<1> QED BY <1>1, <1>2 DEF HandlersOK, Place

LEMMA FinishType ==
    ASSUME HandlersOK, NEW r \in Handlers, Finish(r)
    PROVE  HandlersOK'
BY NoneAssumption DEF HandlersOK, Finish, Place, ActionStatus

LEMMA MoveToType ==
    ASSUME HandlersOK, NEW r \in Handlers, pc[r] # "idle",
           NEW place \in Place \ {"idle"}, MoveTo(r, place)
    PROVE  HandlersOK'
BY DEF HandlersOK, MoveTo

LEMMA AfterSaveType ==
    ASSUME HandlersOK, NEW r \in Handlers, pc[r] # "idle", AfterSave(r)
    PROVE  HandlersOK'
<1>1. \/ MoveTo(r, "call") \/ MoveTo(r, "verify") \/ Finish(r)
  BY DEF AfterSave
<1> QED BY <1>1, MoveToType, FinishType DEF Place

LEMMA AfterFailedSaveType ==
    ASSUME HandlersOK, now \in Nat, NEW r \in Handlers, pc[r] # "idle",
           AfterFailedSave(r)
    PROVE  HandlersOK'
<1>1. DraftOwn(r, "uncertain") \/ Finish(r)
  BY DEF AfterFailedSave
<1> QED BY <1>1, DraftOwnType, FinishType DEF ActionStatus

\* A commit keeps the types of the tables.
LEMMA CommitType ==
    ASSUME DbOK, NEW a \in Actions, NEW s \in ActionStatus, NEW t \in Nat,
           Commit(a, s, t)
    PROVE  DbOK'
<1>1. /\ status'   \in [Actions -> ActionStatus]
      /\ approved' \in [Actions -> BOOLEAN]
      /\ events'   \in [Actions -> SUBSET ActionStatus]
  BY DEF DbOK, Commit
<1>2. CASE s = "executing"
  BY <1>1, <1>2 DEF DbOK, Commit
<1>3. CASE s # "executing"
  <2> DEFINE fresh == [type |-> ReceiptFor(s), at |-> t, prev |-> newest[a]]
  <2>1. ReceiptFor(s) \in ReceiptType
    BY DEF ReceiptFor, ReceiptType, ActionStatus
  <2>2. fresh \in Receipt
    BY <2>1 DEF Receipt, DbOK
  <2>3. AppendReceipt(a, s, t)
    BY <1>3 DEF Commit
  <2>4. receipts' = [receipts EXCEPT ![a] = Append(receipts[a], fresh)]
    BY <2>3 DEF AppendReceipt
  <2>5. receipts' \in [Actions -> Seq(Receipt)]
    <3>1. receipts[a] \in Seq(Receipt)
      BY DEF DbOK
    <3>2. Append(receipts[a], fresh) \in Seq(Receipt)
      BY <2>2, <3>1
    <3> QED BY <2>4, <3>2 DEF DbOK
  <2>6. newest' \in [Actions -> Nat]
    <3>1. newest' = [newest EXCEPT ![a] = Len(receipts[a]) + 1] \/ newest' = newest
      BY <2>3 DEF AppendReceipt
    <3>2. receipts[a] \in Seq(Receipt)
      BY DEF DbOK
    <3>3. Len(receipts[a]) + 1 \in Nat
      BY <3>2
    <3>4. newest \in [Actions -> Nat]
      BY DEF DbOK
    <3> QED BY <3>1, <3>3, <3>4
  <2> QED BY <1>1, <2>5, <2>6 DEF DbOK
<1> QED BY <1>2, <1>3

LEMMA TypeInit == Init => TypeOK
<1> SUFFICES ASSUME Init PROVE TypeOK
  OBVIOUS
<1>1. receipts \in [Actions -> Seq(Receipt)]
  BY DEF Init
<1> QED BY <1>1, NoneAssumption, FaultsAssumption DEF Init, TypeOK, ActionStatus, Place

LEMMA TypeStep == TypeOK /\ [Next]_vars => TypeOK'
<1> SUFFICES ASSUME TypeOK, [Next]_vars PROVE TypeOK'
  OBVIOUS
<1>0. DbOK /\ HandlersOK /\ WorldOK /\ now \in Nat /\ Readings \subseteq Nat
  BY TypeParts, ReadingsInNat DEF TypeOK
<1> SUFFICES DbOK' /\ HandlersOK' /\ WorldOK'
  BY DEF TypeOK, DbOK, HandlersOK, WorldOK
<1> USE <1>0 DEF db, handlers
<1>1. ASSUME NEW r \in Handlers, NEW a \in Actions,
             Propose(r, a) \/ MarkReviewed(r, a) \/ Approve(r, a)
      PROVE  DbOK' /\ HandlersOK' /\ WorldOK'
  <2>1. PICK s \in ActionStatus, t \in Readings : Draft(r, a, s, t)
    BY <1>1 DEF Propose, MarkReviewed, Approve, ActionStatus
  <2>2. HandlersOK'
    BY <2>1, DraftType
  <2>3. UNCHANGED <<db, remote, attempts, now, faults>>
    BY <1>1 DEF Propose, MarkReviewed, Approve
  <2> QED BY <2>2, <2>3 DEF DbOK, WorldOK
<1>2. ASSUME NEW r \in Handlers, NEW a \in Actions, LoadAction(r, a)
      PROVE  DbOK' /\ HandlersOK' /\ WorldOK'
  BY <1>2, NoneAssumption DEF LoadAction, DbOK, HandlersOK, WorldOK, Place
<1>3. ASSUME NEW r \in Handlers, LoadApproval(r)
      PROVE  DbOK' /\ HandlersOK' /\ WorldOK'
  <2>1. act[r] \in Actions
    BY <1>3, BusyHandler DEF LoadApproval
  <2>2. PICK t \in Readings : Draft(r, act[r], "executing", t)
    BY <1>3 DEF LoadApproval
  <2>3. HandlersOK'
    BY <2>1, <2>2, DraftType DEF ActionStatus
  <2> QED BY <1>3, <2>3 DEF LoadApproval, DbOK, WorldOK
<1>4. ASSUME NEW r \in Handlers, RefuseExecution(r)
      PROVE  DbOK' /\ HandlersOK' /\ WorldOK'
  BY <1>4, FinishType DEF RefuseExecution, DbOK, WorldOK
<1>5. ASSUME NEW r \in Handlers, Save(r)
      PROVE  DbOK' /\ HandlersOK' /\ WorldOK'
  <2>1. act[r] \in Actions /\ pc[r] # "idle"
    BY <1>5, BusyHandler DEF Save
  <2>2. to[r] \in ActionStatus /\ stamp[r] \in Nat
    BY DEF HandlersOK
  <2>3. DbOK'
    BY <1>5, <2>1, <2>2, CommitType DEF Save
  <2>4. HandlersOK'
    BY <1>5, <2>1, AfterSaveType DEF Save
  <2> QED BY <1>5, <2>3, <2>4 DEF Save, WorldOK
<1>6. ASSUME NEW r \in Handlers, SaveLosesAck(r)
      PROVE  DbOK' /\ HandlersOK' /\ WorldOK'
  <2>1. act[r] \in Actions /\ pc[r] # "idle"
    BY <1>6, BusyHandler DEF SaveLosesAck
  <2>2. to[r] \in ActionStatus /\ stamp[r] \in Nat
    BY DEF HandlersOK
  <2>3. DbOK'
    BY <1>6, <2>1, <2>2, CommitType DEF SaveLosesAck
  <2>4. HandlersOK'
    BY <1>6, <2>1, AfterFailedSaveType DEF SaveLosesAck
  <2> QED BY <1>6, <2>3, <2>4 DEF SaveLosesAck, WorldOK, Fault
<1>7. ASSUME NEW r \in Handlers, SaveConflicts(r) \/ SaveRollsBack(r)
      PROVE  DbOK' /\ HandlersOK' /\ WorldOK'
  <2>1. HandlersOK'
    BY <1>7, AfterFailedSaveType DEF SaveConflicts, SaveRollsBack
  <2> QED BY <1>7, <2>1 DEF SaveConflicts, SaveRollsBack, DbOK, WorldOK, Fault
<1>8. ASSUME NEW r \in Handlers, SendExecute(r)
      PROVE  DbOK' /\ HandlersOK' /\ WorldOK'
  <2>1. act[r] \in Actions
    BY <1>8, BusyHandler DEF SendExecute
  <2>2. HandlersOK'
    BY <1>8, MoveToType DEF SendExecute, Place
  <2> QED BY <1>8, <2>1, <2>2 DEF SendExecute, DbOK, WorldOK
<1>9. ASSUME NEW r \in Handlers,
             \/ ExecutorRefuses(r) \/ ExecuteReturns(r) \/ ExecuteFails(r)
             \/ VerifySucceeds(r) \/ VerifyFails(r)
      PROVE  DbOK' /\ HandlersOK' /\ WorldOK'
  <2>1. HandlersOK'
    BY <1>9, DraftOwnType
    DEF ExecutorRefuses, ExecuteReturns, ExecuteFails, VerifySucceeds, VerifyFails, ActionStatus
  <2> QED BY <1>9, <2>1
    DEF ExecutorRefuses, ExecuteReturns, ExecuteFails, VerifySucceeds, VerifyFails, DbOK, WorldOK
<1>10. ASSUME NEW r \in Handlers, Crash(r)
       PROVE  DbOK' /\ HandlersOK' /\ WorldOK'
  BY <1>10, FinishType DEF Crash, Fault, DbOK, WorldOK
<1>11. ASSUME NEW a \in Actions, ProviderApplies(a)
       PROVE  DbOK' /\ HandlersOK' /\ WorldOK'
  BY <1>11 DEF ProviderApplies, DbOK, HandlersOK, WorldOK
<1>12. CASE Tick
  BY <1>12 DEF Tick, DbOK, HandlersOK, WorldOK
<1>13. CASE UNCHANGED vars
  BY <1>13 DEF vars, DbOK, HandlersOK, WorldOK
<1> QED
  BY <1>1, <1>2, <1>3, <1>4, <1>5, <1>6, <1>7, <1>8, <1>9, <1>10, <1>11, <1>12, <1>13
  DEF Next, Proceed

\* Every reachable state is well typed, and a handler works on an action exactly
\* while it is not idle.
THEOREM TypeCorrect == Spec => []TypeOK
BY TypeInit, TypeStep, PTL DEF Spec

-----------------------------------------------------------------------------
(* One execution, one attempt.                                             *)

\* The handler is past the commit that started the execution of its action.
Owns(r) ==
    \/ pc[r] \in {"call", "wait", "verify"}
    \/ pc[r] = "save" /\ to[r] \in {"executed", "verified", "uncertain"}

\* What such a handler may assume of its action, place by place.
OwnerAt(r) ==
    LET a == act[r] IN
    /\ pc[r] = "call" => status[a] = "executing" /\ attempts[a] = 0
    /\ pc[r] = "wait" => status[a] = "executing" /\ attempts[a] = 1
    /\ pc[r] = "verify" => status[a] = "executed" /\ attempts[a] = 1
    /\ pc[r] = "save" /\ to[r] = "executed" => status[a] = "executing" /\ attempts[a] = 1
    /\ pc[r] = "save" /\ to[r] = "verified" =>
           status[a] = "executed" /\ attempts[a] = 1 /\ remote[a] = "applied"
    /\ pc[r] = "save" /\ to[r] = "uncertain" =>
           status[a] \in {"executing", "executed", "verified"}

\* At most one handler executes an action: the compare-and-set to "executing"
\* succeeds once.
OneOwner ==
    \A r, q \in Handlers : Owns(r) /\ Owns(q) /\ act[r] = act[q] => r = q

\* Nothing is asked of the provider before the execution is on record.
AskedInTime ==
    \A a \in Actions :
        status[a] \in {"absent", "proposed", "reviewed", "approved"} => attempts[a] = 0

AskedMeansSent == \A a \in Actions : attempts[a] = 0 <=> remote[a] = "untouched"

ExecutionInv ==
    /\ TypeOK
    /\ \A r \in Handlers : OwnerAt(r)
    /\ OneOwner
    /\ AskedInTime
    /\ AskedMeansSent
    /\ AtMostOneAttempt
    /\ VerifiedMeansApplied

\* A step of handler r leaves the local variables of the others alone.
OthersKeep(r) ==
    \A q \in Handlers \ {r} : pc'[q] = pc[q] /\ act'[q] = act[q] /\ to'[q] = to[q]

LEMMA LocalChange ==
    ASSUME HandlersOK, NEW r \in Handlers,
           \/ \E a \in Actions, s \in ActionStatus, t \in Nat : Draft(r, a, s, t)
           \/ \E s \in ActionStatus : DraftOwn(r, s)
           \/ Finish(r)
           \/ \E place \in Place : MoveTo(r, place)
    PROVE  OthersKeep(r)
BY DEF HandlersOK, Draft, DraftOwn, Finish, MoveTo, OthersKeep

\* What r's own variables are after each kind of change.
LEMMA AfterDraft ==
    ASSUME HandlersOK, NEW r \in Handlers, NEW a \in Actions, NEW s \in ActionStatus,
           NEW t \in Nat, Draft(r, a, s, t)
    PROVE  pc'[r] = "save" /\ act'[r] = a /\ to'[r] = s
BY DEF HandlersOK, Draft

LEMMA AfterDraftOwn ==
    ASSUME HandlersOK, NEW r \in Handlers, NEW s \in ActionStatus, DraftOwn(r, s)
    PROVE  pc'[r] = "save" /\ act'[r] = act[r] /\ to'[r] = s
BY DEF HandlersOK, DraftOwn

LEMMA AfterFinish ==
    ASSUME HandlersOK, NEW r \in Handlers, Finish(r)
    PROVE  pc'[r] = "idle"
BY DEF HandlersOK, Finish

LEMMA AfterMove ==
    ASSUME HandlersOK, NEW r \in Handlers, NEW place \in Place, MoveTo(r, place)
    PROVE  pc'[r] = place /\ act'[r] = act[r] /\ to'[r] = to[r]
BY DEF HandlersOK, MoveTo

\* Steps that touch nothing but r's local variables.
LEMMA LocalStep ==
    ASSUME ExecutionInv, TypeOK', NEW r \in Handlers,
           UNCHANGED <<db, remote, attempts>>, OthersKeep(r),
           Owns(r)' => Owns(r) /\ act'[r] = act[r],
           OwnerAt(r)'
    PROVE  ExecutionInv'
<1>1. \A q \in Handlers : OwnerAt(q)'
  <2> SUFFICES ASSUME NEW q \in Handlers \ {r} PROVE OwnerAt(q)'
    OBVIOUS
  <2>1. OwnerAt(q)
    BY DEF ExecutionInv
  <2> QED BY <2>1 DEF OwnerAt, OthersKeep, db
<1>2. OneOwner'
  <2> SUFFICES ASSUME NEW p \in Handlers, NEW q \in Handlers,
                      Owns(p)', Owns(q)', act'[p] = act'[q]
               PROVE  p = q
    BY DEF OneOwner
  <2>1. \A h \in {p, q} : Owns(h) /\ act'[h] = act[h]
    BY DEF OthersKeep, Owns
  <2> QED BY <2>1 DEF ExecutionInv, OneOwner
<1>3. AskedInTime' /\ AskedMeansSent' /\ AtMostOneAttempt' /\ VerifiedMeansApplied'
  BY DEF ExecutionInv, AskedInTime, AskedMeansSent, AtMostOneAttempt, VerifiedMeansApplied, db
<1> QED BY <1>1, <1>2, <1>3 DEF ExecutionInv

\* A commit: it can only start an execution nobody owns, or be the owner's.
LEMMA CommitStep ==
    ASSUME ExecutionInv, TypeOK', NEW r \in Handlers, pc[r] = "save",
           CanCommit(act[r], to[r]),
           status' = [status EXCEPT ![act[r]] = to[r]],
           UNCHANGED <<remote, attempts>>, OthersKeep(r),
           Owns(r)' => act'[r] = act[r] /\ (Owns(r) \/ to[r] = "executing"),
           OwnerAt(r)'
    PROVE  ExecutionInv'
<1>0. /\ act[r] \in Actions /\ to[r] \in ActionStatus
      /\ status \in [Actions -> ActionStatus]
      /\ act \in [Handlers -> Actions \cup {None}]
  BY BusyHandler, TypeParts DEF ExecutionInv, TypeOK
<1>1. status[act[r]] \in ExpectedPrevious(to[r])
  BY DEF CanCommit
<1>2. ~Owns(r) => status[act[r]] \in {"absent", "proposed", "reviewed", "approved"}
  BY <1>0, <1>1 DEF Owns, ExpectedPrevious
<1>3. \A q \in Handlers \ {r} : Owns(q) => act[q] # act[r]
  <2> SUFFICES ASSUME NEW q \in Handlers \ {r}, Owns(q), act[q] = act[r] PROVE FALSE
    OBVIOUS
  <2>1. ~Owns(r)
    BY DEF ExecutionInv, OneOwner
  <2>2. status[act[r]] \in {"executing", "executed", "verified"}
    BY DEF ExecutionInv, OwnerAt, Owns
  <2> QED BY <1>2, <2>1, <2>2
<1>4. \A q \in Handlers : OwnerAt(q)'
  <2> SUFFICES ASSUME NEW q \in Handlers \ {r} PROVE OwnerAt(q)'
    OBVIOUS
  <2>1. OwnerAt(q)
    BY DEF ExecutionInv
  <2>2. CASE Owns(q)
    <3>1. status'[act[q]] = status[act[q]]
      BY <1>0, <1>3, <2>2
    <3> QED BY <2>1, <3>1 DEF OwnerAt, OthersKeep
  <2>3. CASE ~Owns(q)
    BY <2>3 DEF OwnerAt, OthersKeep, Owns
  <2> QED BY <2>2, <2>3
<1>5. OneOwner'
  <2>1. \A q \in Handlers \ {r} : Owns(q)' <=> Owns(q)
    BY DEF OthersKeep, Owns
  <2>2. Owns(r)' => \A q \in Handlers \ {r} : Owns(q)' => act'[q] # act'[r]
    BY <1>3, <2>1 DEF OthersKeep
  <2>3. \A p, q \in Handlers \ {r} : Owns(p)' /\ Owns(q)' /\ act'[p] = act'[q] => p = q
    BY <2>1 DEF OthersKeep, ExecutionInv, OneOwner
  <2> QED BY <2>2, <2>3 DEF OneOwner
<1>6. AskedInTime'
  <2>1. to[r] \in {"absent", "proposed", "reviewed", "approved"} =>
            status[act[r]] \in {"absent", "proposed", "reviewed", "approved"}
    BY <1>1 DEF ExpectedPrevious
  <2> QED BY <1>0, <2>1 DEF ExecutionInv, AskedInTime
<1>7. VerifiedMeansApplied'
  <2>1. to[r] = "verified" => remote[act[r]] = "applied"
    BY DEF ExecutionInv, OwnerAt
  <2> QED BY <1>0, <2>1 DEF ExecutionInv, VerifiedMeansApplied
<1>8. AskedMeansSent' /\ AtMostOneAttempt'
  BY DEF ExecutionInv, AskedMeansSent, AtMostOneAttempt
<1> QED BY <1>4, <1>5, <1>6, <1>7, <1>8 DEF ExecutionInv

LEMMA ExecutionInit == Init => ExecutionInv
<1> SUFFICES ASSUME Init PROVE ExecutionInv
  OBVIOUS
<1>1. \A r \in Handlers : ~Owns(r) /\ OwnerAt(r)
  BY DEF Init, Owns, OwnerAt
<1> QED BY <1>1, TypeInit
  DEF Init, ExecutionInv, OneOwner, AskedInTime, AskedMeansSent, AtMostOneAttempt,
      VerifiedMeansApplied

\* The two commits: acknowledged, and with the acknowledgement lost.
LEMMA SaveKeeps ==
    ASSUME ExecutionInv, TypeOK', NEW r \in Handlers, Save(r)
    PROVE  ExecutionInv'
<1>0. /\ pc[r] = "save" /\ act[r] \in Actions /\ HandlersOK
      /\ to[r] \in ActionStatus /\ status \in [Actions -> ActionStatus]
      /\ attempts \in [Actions -> Nat]
  BY TypeParts, BusyHandler DEF Save, ExecutionInv, TypeOK
<1>1. /\ CanCommit(act[r], to[r])
      /\ status' = [status EXCEPT ![act[r]] = to[r]]
      /\ UNCHANGED <<remote, attempts>>
  BY DEF Save, Commit
<1>2. /\ to[r] = "executing" => MoveTo(r, "call")
      /\ to[r] = "executed" => MoveTo(r, "verify")
      /\ to[r] \notin {"executing", "executed"} => Finish(r)
  BY DEF Save, AfterSave
<1>3. OthersKeep(r)
  BY <1>0, <1>2, LocalChange DEF Place
<1>4. CASE to[r] = "executing"
  <2>1. pc'[r] = "call" /\ act'[r] = act[r]
    BY <1>0, <1>2, <1>4, AfterMove DEF Place
  <2>2. status[act[r]] = "approved"
    BY <1>1, <1>4 DEF CanCommit, ExpectedPrevious
  <2>3. attempts[act[r]] = 0
    BY <1>0, <2>2 DEF ExecutionInv, AskedInTime
  <2>4. OwnerAt(r)'
    BY <1>0, <1>1, <1>4, <2>1, <2>3 DEF OwnerAt
  <2> QED BY <1>0, <1>1, <1>3, <1>4, <2>1, <2>4, CommitStep
<1>5. CASE to[r] = "executed"
  <2>1. pc'[r] = "verify" /\ act'[r] = act[r]
    BY <1>0, <1>2, <1>5, AfterMove DEF Place
  <2>2. attempts[act[r]] = 1
    BY <1>0, <1>5 DEF ExecutionInv, OwnerAt
  <2>3. OwnerAt(r)'
    BY <1>0, <1>1, <1>5, <2>1, <2>2 DEF OwnerAt
  <2>4. Owns(r)
    BY <1>0, <1>5 DEF Owns
  <2> QED BY <1>0, <1>1, <1>3, <2>1, <2>3, <2>4, CommitStep
<1>6. CASE to[r] \notin {"executing", "executed"}
  <2>1. pc'[r] = "idle"
    BY <1>0, <1>2, <1>6, AfterFinish
  <2>2. OwnerAt(r)' /\ ~Owns(r)'
    BY <2>1 DEF OwnerAt, Owns
  <2> QED BY <1>0, <1>1, <1>3, <2>2, CommitStep
<1> QED BY <1>4, <1>5, <1>6

LEMMA LostAckKeeps ==
    ASSUME ExecutionInv, TypeOK', NEW r \in Handlers, SaveLosesAck(r)
    PROVE  ExecutionInv'
<1>0. /\ pc[r] = "save" /\ act[r] \in Actions /\ HandlersOK
      /\ status \in [Actions -> ActionStatus]
  BY TypeParts, BusyHandler DEF SaveLosesAck, ExecutionInv, TypeOK
<1>1. /\ CanCommit(act[r], to[r])
      /\ status' = [status EXCEPT ![act[r]] = to[r]]
      /\ UNCHANGED <<remote, attempts>>
      /\ AfterFailedSave(r)
  BY DEF SaveLosesAck, Commit
<1>2. CASE to[r] \in {"executed", "verified"}
  <2>1. DraftOwn(r, "uncertain")
    BY <1>1, <1>2 DEF AfterFailedSave
  <2>2. OthersKeep(r) /\ pc'[r] = "save" /\ act'[r] = act[r] /\ to'[r] = "uncertain"
    BY <1>0, <2>1, LocalChange, AfterDraftOwn DEF ActionStatus
  <2>3. OwnerAt(r)'
    BY <1>0, <1>1, <1>2, <2>2 DEF OwnerAt
  <2>4. Owns(r)
    BY <1>0, <1>2 DEF Owns
  <2> QED BY <1>0, <1>1, <2>2, <2>3, <2>4, CommitStep
<1>3. CASE to[r] \notin {"executed", "verified"}
  <2>1. Finish(r)
    BY <1>1, <1>3 DEF AfterFailedSave
  <2>2. OthersKeep(r) /\ pc'[r] = "idle"
    BY <1>0, <2>1, LocalChange, AfterFinish
  <2>3. OwnerAt(r)' /\ ~Owns(r)'
    BY <2>2 DEF OwnerAt, Owns
  <2> QED BY <1>0, <1>1, <2>2, <2>3, CommitStep
<1> QED BY <1>2, <1>3

\* The only step that asks the provider.
LEMMA SendKeeps ==
    ASSUME ExecutionInv, TypeOK', NEW r \in Handlers, SendExecute(r)
    PROVE  ExecutionInv'
<1>0. /\ pc[r] = "call" /\ act[r] \in Actions /\ HandlersOK
      /\ attempts \in [Actions -> Nat] /\ remote \in [Actions -> {"untouched", "inflight", "applied"}]
  BY TypeParts, BusyHandler DEF SendExecute, ExecutionInv, TypeOK
<1>1. /\ status[act[r]] = "executing" /\ attempts[act[r]] = 0
      /\ remote[act[r]] = "untouched"
  BY <1>0 DEF ExecutionInv, OwnerAt, AskedMeansSent
<1>2. /\ attempts' = [attempts EXCEPT ![act[r]] = 1]
      /\ remote' = [remote EXCEPT ![act[r]] = "inflight"]
      /\ UNCHANGED status
  BY <1>0, <1>1 DEF SendExecute, db
<1>3. OthersKeep(r) /\ pc'[r] = "wait" /\ act'[r] = act[r]
  BY <1>0, LocalChange, AfterMove DEF SendExecute, Place
<1>4. \A q \in Handlers : Owns(q)' <=> Owns(q)
  BY <1>0, <1>3 DEF Owns, OthersKeep
<1>5. \A q \in Handlers \ {r} : Owns(q) => act[q] # act[r]
  BY <1>0 DEF ExecutionInv, OneOwner, Owns
<1>6. \A q \in Handlers : OwnerAt(q)'
  <2>1. OwnerAt(r)'
    BY <1>0, <1>1, <1>2, <1>3 DEF OwnerAt
  <2> SUFFICES ASSUME NEW q \in Handlers \ {r} PROVE OwnerAt(q)'
    BY <2>1
  <2>2. OwnerAt(q)
    BY DEF ExecutionInv
  <2>3. CASE Owns(q)
    <3>1. attempts'[act[q]] = attempts[act[q]] /\ remote'[act[q]] = remote[act[q]]
      BY <1>0, <1>2, <1>5, <2>3
    <3> QED BY <1>2, <1>3, <2>2, <3>1 DEF OwnerAt, OthersKeep
  <2>4. CASE ~Owns(q)
    BY <1>3, <2>4 DEF OwnerAt, OthersKeep, Owns
  <2> QED BY <2>3, <2>4
<1>7. OneOwner'
  BY <1>3, <1>4 DEF ExecutionInv, OneOwner, OthersKeep
<1>8. AskedInTime' /\ AskedMeansSent' /\ AtMostOneAttempt' /\ VerifiedMeansApplied'
  BY <1>0, <1>1, <1>2
  DEF ExecutionInv, AskedInTime, AskedMeansSent, AtMostOneAttempt, VerifiedMeansApplied
<1> QED BY <1>6, <1>7, <1>8 DEF ExecutionInv

LEMMA ExecutionStep == ExecutionInv /\ [Next]_vars => ExecutionInv'
<1> SUFFICES ASSUME ExecutionInv, [Next]_vars PROVE ExecutionInv'
  OBVIOUS
<1>0. TypeOK' /\ HandlersOK /\ WorldOK /\ Readings \subseteq Nat
  BY TypeStep, TypeParts, ReadingsInNat DEF ExecutionInv, WorldOK
<1>1. ASSUME NEW r \in Handlers, NEW a \in Actions,
             Propose(r, a) \/ MarkReviewed(r, a) \/ Approve(r, a)
      PROVE  ExecutionInv'
  <2>1. PICK s \in {"proposed", "reviewed", "approved"}, t \in Nat : Draft(r, a, s, t)
    BY <1>0, <1>1 DEF Propose, MarkReviewed, Approve
  <2>2. OthersKeep(r) /\ pc'[r] = "save" /\ to'[r] = s
    BY <1>0, <2>1, LocalChange, AfterDraft DEF ActionStatus
  <2>3. UNCHANGED <<db, remote, attempts>>
    BY <1>1 DEF Propose, MarkReviewed, Approve
  <2>4. OwnerAt(r)' /\ ~Owns(r)'
    BY <2>2 DEF OwnerAt, Owns
  <2> QED BY <1>0, <2>2, <2>3, <2>4, LocalStep
<1>2. ASSUME NEW r \in Handlers, NEW a \in Actions, LoadAction(r, a)
      PROVE  ExecutionInv'
  <2>1. OthersKeep(r) /\ pc'[r] = "loaded"
    BY <1>0, <1>2 DEF LoadAction, HandlersOK, OthersKeep
  <2>2. OwnerAt(r)' /\ ~Owns(r)'
    BY <2>1 DEF OwnerAt, Owns
  <2> QED BY <1>0, <1>2, <2>1, <2>2, LocalStep DEF LoadAction
<1>3. ASSUME NEW r \in Handlers, LoadApproval(r)
      PROVE  ExecutionInv'
  <2>1. act[r] \in Actions
    BY <1>0, <1>3, BusyHandler DEF LoadApproval
  <2>2. PICK t \in Nat : Draft(r, act[r], "executing", t)
    BY <1>0, <1>3 DEF LoadApproval
  <2>3. OthersKeep(r) /\ pc'[r] = "save" /\ to'[r] = "executing"
    BY <1>0, <2>1, <2>2, LocalChange, AfterDraft DEF ActionStatus
  <2>4. OwnerAt(r)' /\ ~Owns(r)'
    BY <2>3 DEF OwnerAt, Owns
  <2> QED BY <1>0, <1>3, <2>3, <2>4, LocalStep DEF LoadApproval
<1>4. ASSUME NEW r \in Handlers, RefuseExecution(r) \/ Crash(r)
      PROVE  ExecutionInv'
  <2>1. Finish(r) /\ UNCHANGED <<db, remote, attempts>>
    BY <1>4 DEF RefuseExecution, Crash
  <2>2. OthersKeep(r) /\ pc'[r] = "idle"
    BY <1>0, <2>1, LocalChange, AfterFinish
  <2>3. OwnerAt(r)' /\ ~Owns(r)'
    BY <2>2 DEF OwnerAt, Owns
  <2> QED BY <1>0, <2>1, <2>2, <2>3, LocalStep
<1>5. ASSUME NEW r \in Handlers, SaveConflicts(r) \/ SaveRollsBack(r)
      PROVE  ExecutionInv'
  <2>1. /\ pc[r] = "save" /\ AfterFailedSave(r)
        /\ UNCHANGED <<db, remote, attempts>>
    BY <1>5 DEF SaveConflicts, SaveRollsBack
  <2>2. CASE to[r] \in {"executed", "verified"}
    <3>1. DraftOwn(r, "uncertain")
      BY <2>1, <2>2 DEF AfterFailedSave
    <3>2. OthersKeep(r) /\ pc'[r] = "save" /\ act'[r] = act[r] /\ to'[r] = "uncertain"
      BY <1>0, <3>1, LocalChange, AfterDraftOwn DEF ActionStatus
    <3>3. OwnerAt(r)' /\ Owns(r)
      BY <2>1, <2>2, <3>2 DEF OwnerAt, Owns, ExecutionInv, db
    <3> QED BY <1>0, <2>1, <3>2, <3>3, LocalStep
  <2>3. CASE to[r] \notin {"executed", "verified"}
    <3>1. Finish(r)
      BY <2>1, <2>3 DEF AfterFailedSave
    <3>2. OthersKeep(r) /\ pc'[r] = "idle"
      BY <1>0, <3>1, LocalChange, AfterFinish
    <3>3. OwnerAt(r)' /\ ~Owns(r)'
      BY <3>2 DEF OwnerAt, Owns
    <3> QED BY <1>0, <2>1, <3>2, <3>3, LocalStep
  <2> QED BY <2>2, <2>3
<1>6. ASSUME NEW r \in Handlers,
             \/ ExecutorRefuses(r) \/ ExecuteReturns(r) \/ ExecuteFails(r)
             \/ VerifySucceeds(r) \/ VerifyFails(r)
      PROVE  ExecutionInv'
  <2>1. /\ UNCHANGED <<db, remote, attempts>> /\ pc[r] \in {"call", "wait", "verify"}
        /\ \/ DraftOwn(r, "uncertain")
           \/ pc[r] = "wait" /\ DraftOwn(r, "executed")
           \/ pc[r] = "verify" /\ remote[act[r]] = "applied" /\ DraftOwn(r, "verified")
    BY <1>6 DEF ExecutorRefuses, ExecuteReturns, ExecuteFails, VerifySucceeds, VerifyFails
  <2>2. /\ OthersKeep(r) /\ pc'[r] = "save" /\ act'[r] = act[r]
        /\ \/ to'[r] = "uncertain"
           \/ pc[r] = "wait" /\ to'[r] = "executed"
           \/ pc[r] = "verify" /\ remote[act[r]] = "applied" /\ to'[r] = "verified"
    BY <1>0, <2>1, LocalChange, AfterDraftOwn DEF ActionStatus
  <2>3. OwnerAt(r)
    BY DEF ExecutionInv
  <2>4. OwnerAt(r)' /\ Owns(r)
    BY <2>1, <2>2, <2>3 DEF OwnerAt, Owns, db
  <2> QED BY <1>0, <2>1, <2>2, <2>4, LocalStep
<1>7. ASSUME NEW a \in Actions, ProviderApplies(a)
      PROVE  ExecutionInv'
  <2>1. \A r \in Handlers : OwnerAt(r)'
    <3> SUFFICES ASSUME NEW r \in Handlers PROVE OwnerAt(r)'
      OBVIOUS
    <3>1. OwnerAt(r)
      BY DEF ExecutionInv
    <3>2. remote[act[r]] = "applied" => remote'[act[r]] = "applied"
      BY <1>0, <1>7 DEF ProviderApplies, WorldOK
    <3> QED BY <1>7, <3>1, <3>2 DEF OwnerAt, ProviderApplies, db, handlers
  <2>2. OneOwner'
    BY <1>7 DEF ProviderApplies, ExecutionInv, OneOwner, Owns, handlers
  <2>3. AskedInTime' /\ AskedMeansSent' /\ AtMostOneAttempt' /\ VerifiedMeansApplied'
    BY <1>0, <1>7
    DEF ProviderApplies, ExecutionInv, AskedInTime, AskedMeansSent, AtMostOneAttempt,
        VerifiedMeansApplied, WorldOK, db
  <2> QED BY <1>0, <2>1, <2>2, <2>3 DEF ExecutionInv
<1>8. CASE Tick \/ UNCHANGED vars
  <2>1. UNCHANGED <<db, handlers, remote, attempts>>
    BY <1>8 DEF Tick, vars
  <2>2. \A r \in Handlers : OwnerAt(r)' /\ (Owns(r)' <=> Owns(r))
    BY <2>1 DEF ExecutionInv, OwnerAt, Owns, db, handlers
  <2> QED BY <1>0, <2>1, <2>2
    DEF ExecutionInv, OneOwner, AskedInTime, AskedMeansSent, AtMostOneAttempt,
        VerifiedMeansApplied, db, handlers
<1> QED
  BY <1>0, <1>1, <1>2, <1>3, <1>4, <1>5, <1>6, <1>7, <1>8, SaveKeeps, LostAckKeeps, SendKeeps
  DEF Next, Proceed

LEMMA ExecutionAlways == Spec => []ExecutionInv
BY ExecutionInit, ExecutionStep, PTL DEF Spec

\* Whatever races, fails or is lost, the provider is asked at most once for the
\* effect of an action.
THEOREM NoBlindRetry == Spec => []AtMostOneAttempt
<1>1. ExecutionInv => AtMostOneAttempt
  BY DEF ExecutionInv
<1> QED BY <1>1, ExecutionAlways, PTL

\* An action that is on record as verified has had its effect.
THEOREM UncertaintyIsNotSuccess == Spec => []VerifiedMeansApplied
<1>1. ExecutionInv => VerifiedMeansApplied
  BY DEF ExecutionInv
<1> QED BY <1>1, ExecutionAlways, PTL

-----------------------------------------------------------------------------
(* What a step may do to the tables.                                       *)

\* A step leaves the tables alone, or is one successful commit.
LEMMA OneCommit ==
    ASSUME TypeOK, [Next]_vars
    PROVE  \/ UNCHANGED db
           \/ \E r \in Handlers :
                  /\ pc[r] = "save" /\ act[r] \in Actions
                  /\ to[r] \in ActionStatus /\ stamp[r] \in Nat
                  /\ CanCommit(act[r], to[r])
                  /\ Commit(act[r], to[r], stamp[r])
                  /\ UNCHANGED <<remote, attempts>>
<1>1. ASSUME NEW r \in Handlers, Save(r) \/ SaveLosesAck(r)
      PROVE  /\ pc[r] = "save" /\ act[r] \in Actions
             /\ to[r] \in ActionStatus /\ stamp[r] \in Nat
             /\ CanCommit(act[r], to[r])
             /\ Commit(act[r], to[r], stamp[r])
             /\ UNCHANGED <<remote, attempts>>
  BY <1>1 DEF Save, SaveLosesAck, TypeOK
<1>2. ASSUME NEW r \in Handlers, NEW a \in Actions,
             Propose(r, a) \/ MarkReviewed(r, a) \/ Approve(r, a) \/ LoadAction(r, a)
      PROVE  UNCHANGED db
  BY <1>2 DEF Propose, MarkReviewed, Approve, LoadAction
<1>3. ASSUME NEW r \in Handlers,
             \/ LoadApproval(r) \/ RefuseExecution(r) \/ SaveConflicts(r) \/ SaveRollsBack(r)
             \/ SendExecute(r) \/ ExecutorRefuses(r) \/ ExecuteReturns(r) \/ ExecuteFails(r)
             \/ VerifySucceeds(r) \/ VerifyFails(r) \/ Crash(r)
      PROVE  UNCHANGED db
  BY <1>3 DEF LoadApproval, RefuseExecution, SaveConflicts, SaveRollsBack, SendExecute,
              ExecutorRefuses, ExecuteReturns, ExecuteFails, VerifySucceeds, VerifyFails, Crash
<1>4. ASSUME NEW a \in Actions, ProviderApplies(a)
      PROVE  UNCHANGED db
  BY <1>4 DEF ProviderApplies
<1>5. CASE Tick \/ UNCHANGED vars
  BY <1>5 DEF Tick, vars
<1> QED BY <1>1, <1>2, <1>3, <1>4, <1>5 DEF Next, Proceed

\* Nothing is committed over a verified or an uncertain action, even by a handler
\* that does not know its own last commit went through.
THEOREM SettledStays == Spec => SettledForever
<1> DEFINE Keep == \A a \in Actions :
                       status[a] \in {"verified", "uncertain"} => status'[a] = status[a]
<1>1. TypeOK /\ [Next]_vars => [Keep]_vars
  <2> SUFFICES ASSUME TypeOK, [Next]_vars, NEW a \in Actions,
                      status[a] \in {"verified", "uncertain"}
               PROVE  status'[a] = status[a]
    OBVIOUS
  <2>1. CASE UNCHANGED db
    BY <2>1 DEF db
  <2>2. ASSUME NEW r \in Handlers, act[r] \in Actions,
               CanCommit(act[r], to[r]), Commit(act[r], to[r], stamp[r])
        PROVE  status'[a] = status[a]
    <3>1. act[r] # a
      BY <2>2 DEF CanCommit, ExpectedPrevious
    <3> QED BY <2>2, <3>1 DEF Commit, TypeOK
  <2> QED BY <2>1, <2>2, OneCommit
<1> QED BY <1>1, TypeCorrect, PTL DEF Spec, SettledForever

-----------------------------------------------------------------------------
(* The chain of receipts.                                                  *)

ChainInv ==
    /\ TypeOK
    /\ ChainIsLinear
    /\ \A a \in Actions : newest[a] <= Len(receipts[a])

LEMMA ChainStep == ChainInv /\ [Next]_vars => ChainInv'
<1> SUFFICES ASSUME ChainInv, [Next]_vars PROVE ChainInv'
  OBVIOUS
<1>1. TypeOK'
  BY TypeStep DEF ChainInv
<1>2. CASE UNCHANGED db
  BY <1>1, <1>2 DEF ChainInv, ChainIsLinear, db
<1>3. ASSUME NEW r \in Handlers, act[r] \in Actions, to[r] \in ActionStatus,
             CanCommit(act[r], to[r]), Commit(act[r], to[r], stamp[r])
      PROVE  ChainInv'
  <2>1. CASE to[r] = "executing"
    BY <1>1, <1>3, <2>1 DEF ChainInv, ChainIsLinear, Commit
  <2>2. CASE to[r] # "executing"
    <3> DEFINE a == act[r]
               fresh == [type |-> ReceiptFor(to[r]), at |-> stamp[r], prev |-> newest[a]]
    <3>1. /\ receipts' = [receipts EXCEPT ![a] = Append(receipts[a], fresh)]
          /\ newest' = newest \/ newest' = [newest EXCEPT ![a] = Len(receipts[a]) + 1]
          /\ newest[a] = Len(receipts[a])
      BY <1>3, <2>2 DEF Commit, AppendReceipt, CanCommit
    <3>2. /\ receipts \in [Actions -> Seq(Receipt)] /\ newest \in [Actions -> Nat]
          /\ receipts[a] \in Seq(Receipt)
      BY <1>3 DEF ChainInv, TypeOK
    <3>3. /\ receipts'[a] = Append(receipts[a], fresh)
          /\ Len(receipts'[a]) = Len(receipts[a]) + 1
          /\ fresh.prev = Len(receipts[a])
          /\ \A b \in Actions \ {a} : receipts'[b] = receipts[b] /\ newest'[b] = newest[b]
          /\ newest'[a] <= Len(receipts[a]) + 1
      BY <1>3, <3>1, <3>2
    <3>4. \A i \in 1..Len(receipts'[a]) : receipts'[a][i].prev = i - 1
      BY <1>3, <3>2, <3>3 DEF ChainInv, ChainIsLinear
    <3> HIDE DEF a, fresh
    <3> QED BY <1>1, <3>3, <3>4 DEF ChainInv, ChainIsLinear
  <2> QED BY <2>1, <2>2
<1> QED BY <1>2, <1>3, OneCommit DEF ChainInv

\* The receipts of an action are one chain, however late the clocks are.
THEOREM OneChain == Spec => []ChainIsLinear
<1>1. Init => ChainInv
  BY TypeInit DEF Init, ChainInv, ChainIsLinear
<1>2. ChainInv => ChainIsLinear
  BY DEF ChainInv
<1> QED BY <1>1, <1>2, ChainStep, PTL DEF Spec

-----------------------------------------------------------------------------
(* The lifecycle implements the ledger.                                    *)

LEMMA LedgerStep == ExecutionInv /\ [Next]_vars => [Ledger!Next]_(Ledger!ledger)
<1> SUFFICES ASSUME ExecutionInv, [Next]_vars
             PROVE  Ledger!Next \/ UNCHANGED <<status, attempts, remote>>
  BY DEF Ledger!ledger
<1>0. TypeOK /\ HandlersOK
  BY TypeParts DEF ExecutionInv
<1>1. ASSUME NEW r \in Handlers, pc[r] = "save", act[r] \in Actions,
             CanCommit(act[r], to[r]), Commit(act[r], to[r], stamp[r]),
             UNCHANGED <<remote, attempts>>
      PROVE  Ledger!Next
  <2> DEFINE a == act[r]
  <2>1. /\ status[a] \in ExpectedPrevious(to[r])
        /\ status' = [status EXCEPT ![a] = to[r]]
    BY <1>1 DEF CanCommit, Commit
  <2>2. to[r] = "executed" => attempts[a] = 1
    BY <1>1 DEF ExecutionInv, OwnerAt
  <2>3. to[r] = "verified" => remote[a] = "applied"
    BY <1>1 DEF ExecutionInv, OwnerAt
  <2>4. \/ Ledger!Propose(a) \/ Ledger!Review(a) \/ Ledger!Approve(a) \/ Ledger!Start(a)
        \/ Ledger!Acknowledge(a) \/ Ledger!Confirm(a) \/ Ledger!GiveUp(a)
    BY <1>1, <2>1, <2>2, <2>3
    DEF ExpectedPrevious, Ledger!Step, Ledger!Propose, Ledger!Review, Ledger!Approve,
        Ledger!Start, Ledger!Acknowledge, Ledger!Confirm, Ledger!GiveUp
  <2> QED BY <1>1, <2>4 DEF Ledger!Next
<1>2. ASSUME NEW r \in Handlers, SendExecute(r)
      PROVE  Ledger!Next
  <2> DEFINE a == act[r]
  <2>1. /\ a \in Actions /\ status[a] = "executing" /\ attempts[a] = 0
        /\ remote[a] = "untouched"
    BY <1>0, <1>2, BusyHandler DEF SendExecute, ExecutionInv, OwnerAt, AskedMeansSent
  <2>2. Ledger!Ask(a)
    BY <1>2, <2>1 DEF SendExecute, Ledger!Ask, db
  <2> QED BY <2>1, <2>2 DEF Ledger!Next
<1>3. ASSUME NEW a \in Actions, ProviderApplies(a)
      PROVE  Ledger!Next
  <2>1. Ledger!Apply(a)
    BY <1>3 DEF ProviderApplies, Ledger!Apply, db
  <2> QED BY <2>1 DEF Ledger!Next
<1>4. ASSUME NEW r \in Handlers,
             Save(r) \/ SaveLosesAck(r)
      PROVE  Ledger!Next
  BY <1>0, <1>1, <1>4, BusyHandler DEF Save, SaveLosesAck
<1>5. ASSUME NEW r \in Handlers, NEW a \in Actions,
             Propose(r, a) \/ MarkReviewed(r, a) \/ Approve(r, a) \/ LoadAction(r, a)
      PROVE  UNCHANGED <<status, attempts, remote>>
  BY <1>5 DEF Propose, MarkReviewed, Approve, LoadAction, db
<1>6. ASSUME NEW r \in Handlers,
             \/ LoadApproval(r) \/ RefuseExecution(r) \/ SaveConflicts(r) \/ SaveRollsBack(r)
             \/ ExecutorRefuses(r) \/ ExecuteReturns(r) \/ ExecuteFails(r)
             \/ VerifySucceeds(r) \/ VerifyFails(r) \/ Crash(r)
      PROVE  UNCHANGED <<status, attempts, remote>>
  BY <1>6 DEF LoadApproval, RefuseExecution, SaveConflicts, SaveRollsBack, ExecutorRefuses,
              ExecuteReturns, ExecuteFails, VerifySucceeds, VerifyFails, Crash, db
<1>7. CASE Tick \/ UNCHANGED vars
  BY <1>7 DEF Tick, vars, db
<1> QED BY <1>2, <1>3, <1>4, <1>5, <1>6, <1>7 DEF Next, Proceed

\* Every behaviour of handlers, transactions, crashes and provider is one the
\* ledger allows.
THEOREM ImplementsLedger == Spec => LedgerSpec
<1>1. Init => Ledger!Init
  BY DEF Init, Ledger!Init
<1> QED BY <1>1, LedgerStep, ExecutionAlways, PTL DEF Spec, LedgerSpec, Ledger!Spec

-----------------------------------------------------------------------------
(* The lifecycle and the outbox.  A row of the outbox comes with a commit  *)
(* and never goes away, and only what has a row reaches a worker.          *)

RowsOK ==
    /\ state \in [Announcements -> Queue!OutboxStatus]
    /\ batch \in [Workers -> SUBSET Announcements]
    /\ created \in Seq(Announcements)
    /\ \A e \in Announcements :
           e \in delivered \/ (\E w \in Workers : e \in batch[w]) => state[e] # "absent"

\* The same rows exist after a step of the workers.
SameRows == \A e \in Announcements : state'[e] = "absent" <=> state[e] = "absent"

LEMMA MarkKeepsRows ==
    ASSUME RowsOK, NEW e, NEW s \in {"processed", "dead", "pending"},
           state[e] # "absent", Queue!Release(e, s)
    PROVE  state' \in [Announcements -> Queue!OutboxStatus] /\ SameRows
BY DEF RowsOK, Queue!Release, Queue!OutboxStatus, SameRows

LEMMA ClaimKeepsRows ==
    ASSUME RowsOK, NEW w \in Workers, Queue!Claim(w)
    PROVE  RowsOK' /\ SameRows
<1> DEFINE taken == Queue!Candidates
<1>1. ASSUME NEW e \in taken
      PROVE  e \in Announcements /\ state[e] # "absent"
  <2>1. PICK i \in DOMAIN created : e = created[i] /\ Queue!Claimable(created[i])
    BY <1>1 DEF Queue!Candidates
  <2> QED BY <2>1 DEF RowsOK, Queue!Claimable
<1> HIDE DEF taken
<1>2. /\ state' = [e \in Announcements |-> IF e \in taken THEN "processing" ELSE state[e]]
      /\ batch' = [batch EXCEPT ![w] = taken] /\ UNCHANGED <<created, delivered>>
  BY DEF Queue!Claim, taken
<1>3. SameRows /\ state' \in [Announcements -> Queue!OutboxStatus]
  BY <1>1, <1>2 DEF RowsOK, SameRows, Queue!OutboxStatus
<1>4. batch' \in [Workers -> SUBSET Announcements]
  BY <1>1, <1>2 DEF RowsOK
<1>5. \A e \in Announcements :
         e \in delivered' \/ (\E v \in Workers : e \in batch'[v]) => state'[e] # "absent"
  BY <1>1, <1>2, <1>3 DEF RowsOK, SameRows
<1> QED BY <1>2, <1>3, <1>4, <1>5 DEF RowsOK

\* Workers, time and the operator neither add rows nor remove any.
LEMMA ProcessKeepsRows ==
    ASSUME RowsOK, Queue!Process
    PROVE  RowsOK' /\ SameRows
<1>1. ASSUME state' \in [Announcements -> Queue!OutboxStatus], SameRows, UNCHANGED created,
             batch' \in [Workers -> SUBSET Announcements],
             \A v \in Workers : batch'[v] \subseteq batch[v],
             \A e \in delivered' \ delivered : \E v \in Workers : e \in batch[v]
      PROVE  RowsOK' /\ SameRows
  BY <1>1 DEF RowsOK, SameRows
<1>2. ASSUME NEW w \in Workers, NEW e \in Announcements,
             Queue!HandlerSucceeds(w, e) \/ Queue!HandlerThrows(w, e) \/ Queue!HandlerLosesAck(w, e)
      PROVE  RowsOK' /\ SameRows
  BY <1>1, <1>2 DEF Queue!HandlerSucceeds, Queue!HandlerThrows, Queue!HandlerLosesAck, Queue!table,
                    RowsOK, SameRows
<1>3. ASSUME NEW w \in Workers,
             \/ Queue!MarkProcessed(w) \/ Queue!MarkProcessedThrows(w)
             \/ Queue!MarkFailed(w) \/ Queue!MarkFailedThrows(w) \/ Queue!Crash(w)
      PROVE  RowsOK' /\ SameRows
  <2>1. \/ UNCHANGED state
        \/ /\ state[hand[w]] # "absent"
           /\ \E s \in {"processed", "dead", "pending"} : Queue!Release(hand[w], s)
    BY <1>3 DEF Queue!MarkProcessed, Queue!MarkProcessedThrows, Queue!MarkFailed, Queue!MarkFailedThrows,
                Queue!Crash, Queue!RowProcessed, Queue!RowFailed, Queue!Holds, Queue!table
  <2>2. state' \in [Announcements -> Queue!OutboxStatus] /\ SameRows
    BY <2>1, MarkKeepsRows DEF RowsOK, SameRows
  <2>3. UNCHANGED <<created, delivered>>
    BY <1>3 DEF Queue!MarkProcessed, Queue!MarkProcessedThrows, Queue!MarkFailed, Queue!MarkFailedThrows,
                Queue!Crash
  <2>4. UNCHANGED batch \/ \E gone : batch' = [batch EXCEPT ![w] = batch[w] \ gone]
    <3>1. \/ UNCHANGED batch \/ batch' = [batch EXCEPT ![w] = {}]
          \/ batch' = [batch EXCEPT ![w] = batch[w] \ {hand[w]}]
      BY <1>3 DEF Queue!MarkProcessed, Queue!MarkProcessedThrows, Queue!MarkFailed,
                  Queue!MarkFailedThrows, Queue!Crash, Queue!Settle, Queue!Abandon
    <3>2. batch[w] \ batch[w] = {}
      OBVIOUS
    <3> QED BY <3>1, <3>2
  <2>5. /\ batch' \in [Workers -> SUBSET Announcements]
        /\ \A v \in Workers : batch'[v] \subseteq batch[v]
    BY <2>4 DEF RowsOK
  <2> QED BY <1>1, <2>2, <2>3, <2>5
<1>4. ASSUME NEW e \in Announcements,
             Queue!LeaseExpires(e) \/ Queue!LeaseOutrun(e) \/ Queue!BackoffElapses(e)
      PROVE  RowsOK' /\ SameRows
  BY <1>1, <1>4 DEF Queue!LeaseExpires, Queue!LeaseOutrun, Queue!Expire, Queue!BackoffElapses, Queue!work,
                    RowsOK, SameRows
<1>5. ASSUME NEW e \in Announcements, Queue!RequeueDead(e)
      PROVE  RowsOK' /\ SameRows
  <2>1. /\ state[e] # "absent" /\ Queue!Release(e, "pending")
        /\ UNCHANGED <<created, delivered, batch>>
    BY <1>5 DEF Queue!RequeueDead, Queue!work
  <2> QED BY <1>1, <2>1, MarkKeepsRows DEF RowsOK
<1> QED BY <1>2, <1>3, <1>4, <1>5, ClaimKeepsRows DEF Queue!Process, Queue!Loop

LEMMA EnqueueAddsRow ==
    ASSUME RowsOK, NEW d \in Announcements, Queue!Enqueue(d)
    PROVE  /\ RowsOK'
           /\ \A e \in Announcements : state'[e] = "absent" <=> state[e] = "absent" /\ e # d
           /\ UNCHANGED delivered
BY DEF RowsOK, Queue!Enqueue, Queue!OutboxStatus, Queue!work

\* There is a row for each transition that was committed, and an outcome is final.
TellingInv ==
    /\ RowsOK
    /\ \A a \in Actions, s \in ActionStatus \ {"absent"} : state[<<a, s>>] # "absent" <=> s \in events[a]
    /\ \A a \in Actions, s \in {"verified", "uncertain"} : s \in events[a] => status[a] = s

\* A step of the lifecycle commits nothing and tells nothing, or commits one transition and
\* enqueues its event.
LEMMA LifecycleTells ==
    ASSUME TypeOK, Lifecycle
    PROVE  \/ UNCHANGED <<status, events>> /\ UNCHANGED queueVars
           \/ \E a \in Actions, s \in ActionStatus \ {"absent"} :
                 /\ status[a] \in ExpectedPrevious(s) /\ s \notin events[a]
                 /\ status' = [status EXCEPT ![a] = s]
                 /\ events' = [events EXCEPT ![a] = events[a] \cup {s}]
                 /\ Queue!Enqueue(<<a, s>>)
<1>1. CASE UNCHANGED db
  BY <1>1 DEF db, Lifecycle, Announce
<1>2. ASSUME NEW r \in Handlers, act[r] \in Actions, to[r] \in ActionStatus,
             CanCommit(act[r], to[r]), Commit(act[r], to[r], stamp[r])
      PROVE  \E a \in Actions, s \in ActionStatus \ {"absent"} :
                 /\ status[a] \in ExpectedPrevious(s) /\ s \notin events[a]
                 /\ status' = [status EXCEPT ![a] = s]
                 /\ events' = [events EXCEPT ![a] = events[a] \cup {s}]
                 /\ Queue!Enqueue(<<a, s>>)
  <2>1. /\ status[act[r]] \in ExpectedPrevious(to[r]) /\ to[r] \notin events[act[r]]
        /\ status' = [status EXCEPT ![act[r]] = to[r]]
        /\ events' = [events EXCEPT ![act[r]] = events[act[r]] \cup {to[r]}]
    BY <1>2 DEF CanCommit, Commit
  <2>2. to[r] # "absent"
    BY <2>1 DEF ExpectedPrevious
  <2>3. events \in [Actions -> SUBSET ActionStatus]
    BY DEF TypeOK
  <2>4. events'[act[r]] \ events[act[r]] = {to[r]} /\ \A a \in Actions \ {act[r]} : events'[a] = events[a]
    BY <1>2, <2>1, <2>3
  <2>5. events' # events
    BY <2>4
  <2>6. PICK a \in Actions, s \in ActionStatus : s \in events'[a] \ events[a] /\ Queue!Enqueue(<<a, s>>)
    BY <2>5 DEF Lifecycle, Announce
  <2>7. a = act[r] /\ s = to[r]
    BY <2>4, <2>6
  <2> QED BY <1>2, <2>1, <2>2, <2>6, <2>7
<1> QED BY <1>1, <1>2, OneCommit DEF Lifecycle

LEMMA TellingInit == DeliveryInit => TellingInv
<1> SUFFICES ASSUME Init, Queue!Init PROVE TellingInv
  BY DEF DeliveryInit
<1>1. /\ state = [e \in Announcements |-> "absent"] /\ batch = [w \in Workers |-> {}]
      /\ created = <<>> /\ delivered = {}
  BY DEF Queue!Init
<1>2. RowsOK
  BY <1>1 DEF RowsOK, Queue!OutboxStatus
<1>3. \A a \in Actions : events[a] = {}
  BY DEF Init
<1>4. \A a \in Actions, s \in ActionStatus \ {"absent"} : state[<<a, s>>] = "absent"
  BY <1>1 DEF Announcements
<1> QED BY <1>2, <1>3, <1>4 DEF TellingInv

LEMMA TellingStep ==
    ASSUME TypeOK, TellingInv, [DeliveryNext]_allVars
    PROVE  TellingInv'
<1>1. CASE Delivery
  <2>1. UNCHANGED <<status, events>> /\ Queue!Process
    BY <1>1 DEF Delivery, vars, db
  <2>2. RowsOK' /\ SameRows
    BY <2>1, ProcessKeepsRows DEF TellingInv
  <2> QED BY <2>1, <2>2 DEF TellingInv, SameRows, Announcements
<1>2. CASE UNCHANGED <<status, events>> /\ UNCHANGED queueVars
  BY <1>2 DEF queueVars, TellingInv, RowsOK
<1>3. ASSUME NEW a \in Actions, NEW s \in ActionStatus \ {"absent"},
             status[a] \in ExpectedPrevious(s), s \notin events[a],
             status' = [status EXCEPT ![a] = s],
             events' = [events EXCEPT ![a] = events[a] \cup {s}],
             Queue!Enqueue(<<a, s>>)
      PROVE  TellingInv'
  <2>1. <<a, s>> \in Announcements
    BY DEF Announcements
  <2>2. /\ RowsOK'
        /\ \A e \in Announcements : state'[e] = "absent" <=> state[e] = "absent" /\ e # <<a, s>>
    BY <1>3, <2>1, EnqueueAddsRow DEF TellingInv
  <2>3. /\ status \in [Actions -> ActionStatus] /\ events \in [Actions -> SUBSET ActionStatus]
    BY DEF TypeOK
  <2>4. ASSUME NEW b \in Actions, NEW t \in ActionStatus \ {"absent"}
        PROVE  state'[<<b, t>>] # "absent" <=> t \in events'[b]
    <3>1. <<b, t>> \in Announcements
      BY DEF Announcements
    <3>2. <<b, t>> = <<a, s>> <=> b = a /\ t = s
      OBVIOUS
    <3>3. t \in events'[b] <=> t \in events[b] \/ (b = a /\ t = s)
      BY <1>3, <2>3
    <3>4. state[<<b, t>>] # "absent" <=> t \in events[b]
      BY DEF TellingInv
    <3> QED BY <2>2, <3>1, <3>2, <3>3, <3>4
  <2>5. ASSUME NEW b \in Actions, NEW t \in {"verified", "uncertain"}, t \in events'[b]
        PROVE  status'[b] = t
    <3>1. CASE b = a
      <4>1. t \notin events[a]
        BY <1>3 DEF ExpectedPrevious, TellingInv
      <4> QED BY <1>3, <2>3, <2>5, <3>1, <4>1
    <3>2. CASE b # a
      BY <1>3, <2>3, <2>5, <3>2 DEF TellingInv
    <3> QED BY <3>1, <3>2
  <2> QED BY <2>2, <2>4, <2>5 DEF TellingInv
<1>4. CASE UNCHANGED allVars
  BY <1>2, <1>4 DEF allVars, vars, db
<1> QED BY <1>1, <1>2, <1>3, <1>4, LifecycleTells DEF DeliveryNext

\* Neither component does in the composition what it does not do alone: the transactions
\* that insert events are steps of the lifecycle, the workers leave it alone, and what the
\* outbox sees are insertions by a stranger.  So every theorem about either holds here.
THEOREM DeliveryRefinesBoth == DeliverySpec => Spec /\ Queue!Spec
<1>1. DeliveryInit => Init /\ Queue!Init
  BY DEF DeliveryInit
<1>2. [DeliveryNext]_allVars => [Next]_vars
  BY DEF DeliveryNext, Lifecycle, Delivery, allVars
<1>3. TypeOK /\ [DeliveryNext]_allVars => [Queue!Next]_(Queue!vars)
  <2> SUFFICES ASSUME TypeOK, [DeliveryNext]_allVars PROVE [Queue!Next]_(Queue!vars)
    OBVIOUS
  <2>1. UNCHANGED queueVars => UNCHANGED Queue!vars
    BY DEF queueVars, Queue!vars, Queue!table, Queue!work, Queue!bounds
  <2>2. CASE Lifecycle
    <3>1. CASE \E a \in Actions, s \in ActionStatus \ {"absent"} : Queue!Enqueue(<<a, s>>)
      BY <3>1 DEF Queue!Next, Announcements
    <3> QED BY <2>1, <2>2, <3>1, LifecycleTells
  <2>3. CASE Delivery
    BY <2>3 DEF Delivery, Queue!Next
  <2>4. CASE UNCHANGED allVars
    BY <2>1, <2>4 DEF allVars
  <2> QED BY <2>2, <2>3, <2>4 DEF DeliveryNext
<1>4. DeliverySpec => Spec
  BY <1>1, <1>2, PTL DEF DeliverySpec, Spec
<1> QED BY <1>1, <1>3, <1>4, TypeCorrect, PTL DEF DeliverySpec, Queue!Spec

\* However the handlers race and the workers fail, what the delivery log tells of an action
\* is what became of it: nobody hears of a verification without its effect (persistEvent in
\* the transaction of the transition, the outbox's workers, their handler).
THEOREM OnlyTheTruthIsTold == DeliverySpec => []TellsWhatHappened
<1>1. ExecutionInv /\ TellingInv => TellsWhatHappened
  <2> SUFFICES ASSUME ExecutionInv, TellingInv, NEW a \in Actions
               PROVE  /\ \A s \in ActionStatus \ {"absent"} :
                            state[<<a, s>>] # "absent" <=> s \in events[a]
                      /\ \A s \in {"verified", "uncertain"} : <<a, s>> \in delivered => status[a] = s
                      /\ <<a, "verified">> \in delivered => remote[a] = "applied"
    BY DEF TellsWhatHappened
  <2>1. ASSUME NEW s \in {"verified", "uncertain"}, <<a, s>> \in delivered
        PROVE  status[a] = s
    <3>1. <<a, s>> \in Announcements /\ s \in ActionStatus \ {"absent"}
      BY DEF Announcements, ActionStatus
    <3> QED BY <2>1, <3>1 DEF TellingInv, RowsOK
  <2>2. status[a] = "verified" => remote[a] = "applied"
    BY DEF ExecutionInv, VerifiedMeansApplied
  <2> QED BY <2>1, <2>2 DEF TellingInv
<1>2. ExecutionInv => TypeOK
  BY DEF ExecutionInv
<1> QED BY <1>1, <1>2, DeliveryRefinesBoth, ExecutionAlways, TellingInit, TellingStep, PTL DEF DeliverySpec
=============================================================================
