------------------------------ MODULE TaskLedger ------------------------------
(***************************************************************************)
(* What a queue of tasks promises, without workers, leases, batches,       *)
(* clocks or faults: a task is settled only after its work was done, only  *)
(* what was posted is worked on, what was done is not undone, a settled    *)
(* task is never open again, and one that was given up only when somebody  *)
(* reopens it.  Outbox and Notifications implement this.                   *)
(***************************************************************************)
CONSTANT Tasks

VARIABLES
    stage,    \* of each task: "absent", "open", "settled" or "given up"
    worked    \* the tasks whose work has been done

ledger == <<stage, worked>>

Init ==
    /\ stage  = [t \in Tasks |-> "absent"]
    /\ worked = {}

Posted == {t \in Tasks : stage[t] # "absent"}

\* Some tasks go from one stage to another.
Moves(ts, from, next) ==
    /\ \A t \in ts : stage[t] = from
    /\ stage' = [t \in Tasks |-> IF t \in ts THEN next ELSE stage[t]]
    /\ UNCHANGED worked

Post(t)    == Moves({t}, "absent", "open")
Settle(ts) == ts \subseteq worked /\ Moves(ts, "open", "settled")
GiveUp(t)  == Moves({t}, "open", "given up")
Reopen(t)  == Moves({t}, "given up", "open")

\* Perhaps of a task that was settled or given up in the meantime.
Work(ts) ==
    /\ worked' = worked \cup ts
    /\ UNCHANGED stage

Next ==
    \/ \E t \in Tasks : Post(t) \/ GiveUp(t) \/ Reopen(t)
    \/ \E ts \in SUBSET Tasks : Settle(ts)
    \/ \E ts \in SUBSET Posted : Work(ts)

Spec == Init /\ [][Next]_ledger
=============================================================================
