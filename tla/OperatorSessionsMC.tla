-------------------------- MODULE OperatorSessionsMC --------------------------
(***************************************************************************)
(* Instances of OperatorSessions for TLC.                                  *)
(***************************************************************************)
EXTENDS OperatorSessions

CONSTANTS s1, s2, t1, t2, api, agentOsApi

TwoSessions == {s1, s2}
TwoThreads  == {t1, t2}
BothClients == {api, agentOsApi}
=============================================================================
