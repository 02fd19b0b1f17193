-------------------------- MODULE ActionDeliveryMC --------------------------
(***************************************************************************)
(* An instance of ActionDelivery for TLC.                                  *)
(***************************************************************************)
EXTENDS ActionDelivery

CONSTANTS a1, r1, w1

OneAction  == {a1}
OneHandler == {r1}
OneWorker  == {w1}
Ascending  == {TRUE}
OwnNames   == [w \in OneWorker |-> w]
=============================================================================
