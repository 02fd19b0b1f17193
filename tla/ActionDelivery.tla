--------------------------- MODULE ActionDelivery ---------------------------
(***************************************************************************)
(* The action lifecycle and the outbox together: persistEvent inserts the  *)
(* lifecycle event of a transition in the transaction of the transition,   *)
(* and the workers bring it to the delivery log in their own time.         *)
(***************************************************************************)
EXTENDS ActionLifecycle

CONSTANTS Workers, NameOf, Nobody, Limit, MaxAttempts,
          MaxWorkerFaults, MaxSlow, MaxRequeues

VARIABLES state, claims, lockedBy, live, due, created, delivered,
          batch, hand, outcome, workerFaults, slow, requeues

\* One event for each transition of each action: the idempotency key holds the
\* action's id and the status it has reached.
Announcements == Actions \X (ActionStatus \ {"absent"})

Queue == INSTANCE Outbox WITH
             Events <- Announcements, Poison <- {}, MaxFaults <- MaxWorkerFaults,
             attempts <- claims, faults <- workerFaults

queueVars == <<state, claims, lockedBy, live, due, created, delivered,
               batch, hand, outcome, workerFaults, slow, requeues>>

DeliveryInit == Init /\ Queue!Init

\* FAULTY variant of Announce: the event is inserted after the transaction,
\* and an acknowledgement that is lost loses it.
AnnounceAfterwards ==
    IF events' = events \/ faults' # faults
    THEN UNCHANGED queueVars
    ELSE \E a \in Actions, s \in ActionStatus :
             s \in events'[a] \ events[a] /\ Queue!Enqueue(<<a, s>>)

\* The event of the transition this step commits, if it commits one.
Announce ==
    IF events' = events
    THEN UNCHANGED queueVars
    ELSE \E a \in Actions, s \in ActionStatus :
             s \in events'[a] \ events[a] /\ Queue!Enqueue(<<a, s>>)

Lifecycle == Next /\ Announce
Delivery  == Queue!Process /\ UNCHANGED vars

DeliveryNext == Lifecycle \/ Delivery

allVars == <<vars, queueVars>>

DeliverySpec == DeliveryInit /\ [][DeliveryNext]_allVars /\ Queue!Fairness

-----------------------------------------------------------------------------

\* The outbox has an event of every transition that was committed and of no other, and
\* nobody is told of an outcome that is not the action's: a verification that is in the
\* delivery log is of an action that has had its effect.
TellsWhatHappened ==
    \A a \in Actions :
        /\ \A s \in ActionStatus \ {"absent"} : state[<<a, s>>] # "absent" <=> s \in events[a]
        /\ \A s \in {"verified", "uncertain"} : <<a, s>> \in delivered => status[a] = s
        /\ <<a, "verified">> \in delivered => remote[a] = "applied"

\* The outcome of every action that settles is told, or ends as a dead letter
\* that an operator sees.
EveryOutcomeTold ==
    \A a \in Actions, s \in {"verified", "uncertain"} :
        status[a] = s ~> (<<a, s>> \in delivered \/ state[<<a, s>>] = "dead")
=============================================================================
