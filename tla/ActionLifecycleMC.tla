-------------------------- MODULE ActionLifecycleMC --------------------------
(***************************************************************************)
(* Instances of ActionLifecycle for TLC.                                   *)
(***************************************************************************)
EXTENDS ActionLifecycle, TLC

CONSTANTS a1, a2, r1, r2

OneAction    == {a1}
TwoActions   == {a1, a2}
TwoHandlers  == {r1, r2}

EitherOrder  == BOOLEAN
Ascending    == {TRUE}

=============================================================================
