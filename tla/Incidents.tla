------------------------------ MODULE Incidents ------------------------------
(***************************************************************************)
(* What may go wrong around a component, shared by the components that one *)
(* instance composes: a call to the database that throws or whose answer   *)
(* is lost, a process that dies, a lease that runs out under a holder that *)
(* is still at work.  Their number is bounded.                             *)
(***************************************************************************)
EXTENDS Naturals

CONSTANT MaxIncidents  \* bound on the incidents of a behaviour

ASSUME IncidentsAssumption == MaxIncidents \in Nat

VARIABLE incidents     \* incidents so far

Incident == incidents < MaxIncidents /\ incidents' = incidents + 1
=============================================================================
