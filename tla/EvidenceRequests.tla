-------------------------- MODULE EvidenceRequests --------------------------
(***************************************************************************)
(* Messages between agents and requests for evidence.  Both are rows       *)
(* published under an idempotency key; a trigger refuses a key that is     *)
(* stored with other content.  A router leases the requests that are due,  *)
(* asks the responder, stores its response and closes the request: four    *)
(* calls, any of which may fail, and the one that closes the request looks *)
(* at neither the lease nor its owner.                                     *)
(*                                                                         *)
(* Messages are published and listed; nothing in the repository leases     *)
(* them.  The content of a request is left out: it settles nothing.  The   *)
(* limit of a lease is never reached.                                      *)
(***************************************************************************)
EXTENDS Incidents, Sequences, FiniteSets

CONSTANTS
    Requests,    \* keys of evidence requests
    Messages,    \* keys of agent messages
    Contents,    \* what a message may say
    Routers,     \* worker processes
    MaxAttempts  \* maximumAttempts of every request

ASSUME RequestsAssumption == IsFiniteSet(Requests) /\ MaxAttempts \in Nat \ {0}

VARIABLES
    messages,    \* agent_messages: the content under each key
    requests,    \* evidence_requests: status, attempts, available_at has come, lease
    responses,   \* evidence_responses of each request
    routers      \* where each router is, and its batch with the attempts it leased

requestVars == <<messages, requests, responses, routers>>

Unpublished == "none"
Resting == [at |-> "idle", batch |-> <<>>, answer |-> "none"]

RequestsTypeOK ==
    /\ messages \in [Messages -> Contents \union {Unpublished}]
    /\ requests \in [Requests ->
         [status: {"none", "queued", "processing", "fulfilled", "incomplete", "failed", "dead"},
          attempts: Nat, due: BOOLEAN, lease: {"none", "live", "over"}]]
    /\ responses \in [Requests -> {"none", "complete", "incomplete"}]
    /\ routers \in [Routers ->
         [at: {"idle", "respond", "save", "update", "fail"}, answer: {"none", "complete", "incomplete"},
          batch: Seq([request: Requests, attempts: Nat])]]
    /\ \A w \in Routers : routers[w].at = "idle" <=> routers[w].batch = <<>>

RequestsInit ==
    /\ messages = [k \in Messages |-> Unpublished]
    /\ requests = [r \in Requests |->
                     [status |-> "none", attempts |-> 0, due |-> TRUE, lease |-> "none"]]
    /\ responses = [r \in Requests |-> "none"]
    /\ routers = [w \in Routers |-> Resting]

-----------------------------------------------------------------------------
(* Publishing.                                                             *)

\* The trigger refuses a key that is stored with other content, and the insert returns
\* the row that is stored.  Between the two another publisher may insert: the one that
\* comes second is then told the content of the first, and stores nothing.
PublishMessage(key, content) ==
    /\ messages[key] = Unpublished
    /\ messages' = [messages EXCEPT ![key] = content]
    /\ UNCHANGED <<requests, responses, routers, incidents>>

RequestEvidence(r) ==
    /\ requests[r].status = "none"
    /\ requests' = [requests EXCEPT ![r].status = "queued"]
    /\ UNCHANGED <<messages, responses, routers, incidents>>

-----------------------------------------------------------------------------
(* The router.                                                             *)

RouterAt(w, step) == routers[w].at = step
Held(w) == Head(routers[w].batch)
RouterTo(w, step) == routers' = [routers EXCEPT ![w].at = step]

NextRequest(w) ==
    LET rest == Tail(routers[w].batch)
    IN routers' = [routers EXCEPT ![w] =
                     IF rest = <<>> THEN Resting
                     ELSE [at |-> "respond", batch |-> rest, answer |-> "none"]]

\* FAULTY variant of Leasable: an expired lease is not looked for.
LeasableOnce(r) == requests[r].due /\ requests[r].status \in {"queued", "failed"}
Leasable(r) ==
    /\ requests[r].due
    /\ \/ requests[r].status \in {"queued", "failed"}
       \/ requests[r].status = "processing" /\ requests[r].lease = "over"

\* All that is due, whatever its attempts.
LeaseRequests(w) ==
    /\ RouterAt(w, "idle")
    /\ LET ready == {r \in Requests : Leasable(r)}
       IN /\ ready /= {}
          /\ \E batch \in [1..Cardinality(ready) -> ready] :
               /\ \A i, j \in DOMAIN batch : batch[i] = batch[j] => i = j
               /\ routers' = [routers EXCEPT ![w] =
                    [at |-> "respond", answer |-> "none",
                     batch |-> [i \in DOMAIN batch |->
                        [request |-> batch[i], attempts |-> requests[batch[i]].attempts + 1]]]]
          /\ requests' = [r \in Requests |->
               IF r \in ready
               THEN [requests[r] EXCEPT !.status = "processing", !.attempts = @ + 1, !.lease = "live"]
               ELSE requests[r]]
    /\ UNCHANGED <<messages, responses, incidents>>

\* The responder reads its sources; one that throws fails the attempt.
Respond(w) ==
    /\ RouterAt(w, "respond")
    /\ \/ \E answer \in {"complete", "incomplete"} :
            routers' = [routers EXCEPT ![w].at = "save", ![w].answer = answer]
       \/ RouterTo(w, "fail")
    /\ UNCHANGED <<messages, requests, responses, incidents>>

\* The first response of a request is the one that is served.
Stored(r, answer) == IF responses[r] = "none" THEN answer ELSE responses[r]

\* FAULTY variant of SaveResponse: the request is closed first.
CloseFirst(w) ==
    /\ RouterAt(w, "save")
    /\ requests' = [requests EXCEPT ![Held(w).request].status = "fulfilled"]
    /\ RouterTo(w, "update")
    /\ UNCHANGED <<messages, responses, incidents>>
SaveResponse(w) ==
    /\ RouterAt(w, "save")
    /\ LET r == Held(w).request
       IN responses' = [responses EXCEPT ![r] = Stored(r, routers[w].answer)]
    /\ \/ RouterTo(w, "update") /\ UNCHANGED incidents
       \/ Incident /\ RouterTo(w, "fail")
    /\ UNCHANGED <<messages, requests>>

Closed(w, status) ==
    requests' = [requests EXCEPT ![Held(w).request].status = status,
                                 ![Held(w).request].lease = "none"]

\* The request is closed by what this attempt found, not by what is stored.
CloseRequest(w) ==
    /\ RouterAt(w, "update")
    /\ Closed(w, IF routers[w].answer = "complete" THEN "fulfilled" ELSE "incomplete")
    /\ \/ NextRequest(w) /\ UNCHANGED incidents
       \/ Incident /\ RouterTo(w, "fail")
    /\ UNCHANGED <<messages, responses>>

Exhausted(w) == Held(w).attempts >= MaxAttempts

FailRequest(w) ==
    /\ RouterAt(w, "fail")
    /\ requests' = [requests EXCEPT
                      ![Held(w).request].status = IF Exhausted(w) THEN "dead" ELSE "failed",
                      ![Held(w).request].lease = "none", ![Held(w).request].due = FALSE]
    /\ NextRequest(w)
    /\ UNCHANGED <<messages, responses, incidents>>

\* A write that does not reach the database throws.
RouterThrows(w) ==
    /\ routers[w].at \in {"save", "update"}
    /\ Incident
    /\ RouterTo(w, "fail")
    /\ UNCHANGED <<messages, requests, responses>>

\* fail itself throws or the process dies: the rest of the batch stays leased.
RouterLost(w) ==
    /\ ~RouterAt(w, "idle")
    /\ Incident
    /\ routers' = [routers EXCEPT ![w] = Resting]
    /\ UNCHANGED <<messages, requests, responses>>

HeldBy(w, r) == \E i \in DOMAIN routers[w].batch : routers[w].batch[i].request = r

\* A lease runs out: in time when its holder is gone, as an incident when it is slow.
LeaseEnds(r) ==
    /\ requests[r].lease = "live"
    /\ requests' = [requests EXCEPT ![r].lease = "over"]
    /\ IF \E w \in Routers : HeldBy(w, r) THEN Incident ELSE UNCHANGED incidents
    /\ UNCHANGED <<messages, responses, routers>>

RetryComes(r) ==
    /\ requests[r].status = "failed" /\ ~requests[r].due
    /\ requests' = [requests EXCEPT ![r].due = TRUE]
    /\ UNCHANGED <<messages, responses, routers, incidents>>

-----------------------------------------------------------------------------
RouterStep(w) ==
    LeaseRequests(w) \/ Respond(w) \/ SaveResponse(w) \/ CloseRequest(w) \/ FailRequest(w)

RequestsNext ==
    \/ \E key \in Messages, content \in Contents : PublishMessage(key, content)
    \/ \E r \in Requests : RequestEvidence(r)
    \/ \E w \in Routers : RouterStep(w) \/ RouterThrows(w) \/ RouterLost(w)
    \/ \E r \in Requests : LeaseEnds(r) \/ RetryComes(r)

\* The time of a row: its backoff, and the lease of a holder that is gone.
TimePasses(r) ==
    RetryComes(r) \/ (LeaseEnds(r) /\ \A w \in Routers : ~HeldBy(w, r))

-----------------------------------------------------------------------------
(* Properties.                                                             *)

\* A request that is answered has a stored response, and the response says what the
\* request says: they differ only after a call failed or a lease ran out under its
\* holder, for then an attempt may close a request whose first response stands.
AnswersAreBacked ==
    \A r \in Requests :
        /\ requests[r].status \in {"fulfilled", "incomplete"} => responses[r] /= "none"
        /\ requests[r].status = "fulfilled" => responses[r] = "complete" \/ incidents > 0
        /\ requests[r].status = "incomplete" => responses[r] = "incomplete" \/ incidents > 0

\* Every request that is published is answered or dead in the end, whatever its
\* responder does and however its routers die.
Outstanding(r) == requests[r].status \in {"queued", "processing", "failed"}
EveryRequestSettles == \A r \in Requests : Outstanding(r) ~> ~Outstanding(r)
=============================================================================
