------------------------------ MODULE OutboxMC ------------------------------
(***************************************************************************)
(* Instances of Outbox for TLC.                                            *)
(***************************************************************************)
EXTENDS Outbox

CONSTANTS e1, e2, w1, w2

TwoEvents     == {e1, e2}
TwoWorkers    == {w1, w2}
SecondEvent   == {e2}

\* Process ids differ: every worker has a name of its own.
OwnNames      == [w \in TwoWorkers |-> w]
=============================================================================
