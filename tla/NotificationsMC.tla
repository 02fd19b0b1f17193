--------------------------- MODULE NotificationsMC ---------------------------
(***************************************************************************)
(* Instances of Notifications for TLC: the customer family with its two    *)
(* parts, and a notification of each.                                      *)
(***************************************************************************)
EXTENDS Notifications, TLC

CONSTANTS n1, n2, claims, questions, customer, w1, w2

TwoNotices     == {n1, n2}
CustomerParts  == {claims, questions}
OfCustomer     == [p \in CustomerParts |-> customer]
OneOfEach      == n1 :> claims @@ n2 :> questions
TwoWorkers     == {w1, w2}
=============================================================================
