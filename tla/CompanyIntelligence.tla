------------------------ MODULE CompanyIntelligence ------------------------
(***************************************************************************)
(* The company intelligence runtime: the router of evidence requests and   *)
(* the scheduler of daemons, which a worker runs side by side, the memory  *)
(* its operators write, and the conclusions drawn for them.  They share    *)
(* the process and the database but no row, so a behaviour follows one of  *)
(* them, chosen at the start.                                              *)
(***************************************************************************)
EXTENDS EvidenceRequests, SemanticMemory, SpecialistDaemons, CompanyAnalysis

VARIABLE part     \* the component the behaviour follows

vars == <<part, incidents, requestVars, memoryVars, daemonVars, analysisVars>>

TypeOK ==
    /\ part \in {"requests", "memory", "daemons", "analysis"}
    /\ incidents \in 0..MaxIncidents
    /\ RequestsTypeOK /\ MemoryTypeOK /\ DaemonsTypeOK

Init ==
    /\ incidents = 0
    /\ RequestsInit /\ MemoryInit /\ DaemonsInit
    /\ \/ /\ part = "analysis"
          /\ AnalysisInit
       \/ /\ part \in {"requests", "memory", "daemons"}
          /\ study = NothingYet /\ conclusion = NothingYet

Requesting == part = "requests" /\ UNCHANGED <<part, memoryVars, daemonVars, analysisVars>>
Remembering == part = "memory" /\ UNCHANGED <<part, requestVars, daemonVars, analysisVars>>
Scheduling == part = "daemons" /\ UNCHANGED <<part, requestVars, memoryVars, analysisVars>>
Concluding ==
    part = "analysis" /\ UNCHANGED <<part, incidents, requestVars, memoryVars, daemonVars>>

Next ==
    \/ Requesting /\ RequestsNext
    \/ Remembering /\ MemoryNext
    \/ Scheduling /\ DaemonsNext
    \/ Concluding /\ AnalysisNext

Spec == Init /\ [][Next]_vars

\* The worker calls processBatch for ever, and time passes.
Fairness ==
    /\ \A w \in Routers : WF_vars(Requesting /\ RouterStep(w))
    /\ \A r \in Requests : WF_vars(Requesting /\ TimePasses(r))
    /\ \A w \in Schedulers : WF_vars(Scheduling /\ SchedulerStep(w))
    /\ \A d \in Daemons : WF_vars(Scheduling /\ DaemonTime(d))

FairSpec == Spec /\ Fairness

=============================================================================
