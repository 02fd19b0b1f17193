---------------------------- MODULE ActionLedger ----------------------------
(***************************************************************************)
(* What the governed lifecycle of a business action promises, without      *)
(* handlers, transactions, clocks or faults: an action goes through its    *)
(* stages in order, the provider is asked for its effect at most once, and *)
(* an action is verified only when that effect is there.  ActionLifecycle  *)
(* implements this.                                                        *)
(***************************************************************************)
EXTENDS Naturals

CONSTANT Actions

VARIABLES
    stage,    \* how far each action has come
    asked,    \* how often the provider was asked for its effect
    effect    \* what the provider has done

ledger == <<stage, asked, effect>>

Init ==
    /\ stage  = [a \in Actions |-> "absent"]
    /\ asked  = [a \in Actions |-> 0]
    /\ effect = [a \in Actions |-> "untouched"]

Step(a, from, next) ==
    /\ stage[a] = from
    /\ stage' = [stage EXCEPT ![a] = next]
    /\ UNCHANGED <<asked, effect>>

Propose(a) == Step(a, "absent", "proposed")
Review(a)  == Step(a, "proposed", "reviewed")
Approve(a) == Step(a, "reviewed", "approved")
Start(a)   == Step(a, "approved", "executing")

\* The only request to the provider.
Ask(a) ==
    /\ stage[a] = "executing"
    /\ asked[a] = 0
    /\ asked'  = [asked EXCEPT ![a] = 1]
    /\ effect' = [effect EXCEPT ![a] = "inflight"]
    /\ UNCHANGED stage

\* The provider answers in its own time, perhaps after everybody gave up.
Apply(a) ==
    /\ effect[a] = "inflight"
    /\ effect' = [effect EXCEPT ![a] = "applied"]
    /\ UNCHANGED <<stage, asked>>

Acknowledge(a) == asked[a] = 1 /\ Step(a, "executing", "executed")
Confirm(a)     == effect[a] = "applied" /\ Step(a, "executed", "verified")
GiveUp(a)      == Step(a, "executing", "uncertain") \/ Step(a, "executed", "uncertain")

Next ==
    \E a \in Actions :
        \/ Propose(a) \/ Review(a) \/ Approve(a) \/ Start(a)
        \/ Ask(a) \/ Apply(a)
        \/ Acknowledge(a) \/ Confirm(a) \/ GiveUp(a)

Spec == Init /\ [][Next]_ledger
=============================================================================
