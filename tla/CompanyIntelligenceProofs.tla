--------------------- MODULE CompanyIntelligenceProofs ---------------------
(***************************************************************************)
(* Theorems about CompanyIntelligence, for every finite set of requests    *)
(* and of daemons, any routers, schedulers, accounts and writers, any      *)
(* maximum of attempts and any number of incidents.                        *)
(***************************************************************************)
EXTENDS CompanyIntelligence, SequenceTheorems, WellFoundedInduction, FiniteSetTheorems, TLAPS

-----------------------------------------------------------------------------
(* Batches.                                                                *)

\* The sequence that a lease makes of what is due.
LEMMA BatchIsASequence ==
    ASSUME NEW S, IsFiniteSet(S), S /= {}, NEW T, NEW batch \in [1..Cardinality(S) -> T]
    PROVE  /\ batch \in Seq(T) /\ batch /= <<>> /\ DOMAIN batch = 1..Len(batch)
           /\ Len(batch) = Cardinality(S)
<1>1. Cardinality(S) \in Nat /\ Cardinality(S) /= 0
  BY FS_CardinalityType, FS_EmptySet
<1>2. batch \in Seq(T) /\ Len(batch) = Cardinality(S)
  BY <1>1
<1>3. DOMAIN batch = 1..Len(batch)
  BY <1>2
<1>4. batch /= <<>>
  BY <1>1, <1>2
<1> QED BY <1>2, <1>3, <1>4

LEMMA TailOfBatch ==
    ASSUME NEW T, NEW batch \in Seq(T), batch /= <<>>
    PROVE  /\ Head(batch) = batch[1] /\ 1 \in DOMAIN batch /\ batch[1] \in T
           /\ Tail(batch) \in Seq(T)
           /\ \A i \in DOMAIN Tail(batch) : i + 1 \in DOMAIN batch /\ Tail(batch)[i] = batch[i + 1]
           /\ DOMAIN Tail(batch) \subseteq Nat
OBVIOUS

-----------------------------------------------------------------------------
(* Requests for evidence.                                                  *)

Answer == {"complete", "incomplete"}
Entries == [request: Requests, attempts: Nat]

RoutersOK ==
    /\ routers \in [Routers ->
         [at: {"idle", "respond", "save", "update", "fail"}, answer: {"none", "complete", "incomplete"},
          batch: Seq(Entries)]]
    /\ \A w \in Routers : routers[w].at = "idle" <=> routers[w].batch = <<>>

RequestRows ==
    [status: {"none", "queued", "processing", "fulfilled", "incomplete", "failed", "dead"},
     attempts: Nat, due: BOOLEAN, lease: {"none", "live", "over"}]

RowsOK ==
    /\ messages \in [Messages -> Contents \union {Unpublished}]
    /\ requests \in [Requests -> RequestRows]
    /\ responses \in [Requests -> {"none", "complete", "incomplete"}]

LEMMA RequestsTypes == RequestsTypeOK <=> RoutersOK /\ RowsOK
BY DEF RequestsTypeOK, RoutersOK, RowsOK, Entries, RequestRows

\* An attempt closes a request only once a response of it is stored.
BackedInv ==
    /\ \A w \in Routers : RouterAt(w, "save") => routers[w].answer \in Answer
    /\ \A w \in Routers : RouterAt(w, "update") =>
         routers[w].answer \in Answer /\ responses[Held(w).request] /= "none"
    /\ \A r \in Requests : requests[r].status \in {"fulfilled", "incomplete"} => responses[r] /= "none"

\* As long as nothing goes wrong, a request that is being processed is in one place of one
\* batch, and has no response but the one its router has just stored.
UntroubledInv ==
    /\ \A w \in Routers : \A i \in DOMAIN routers[w].batch :
         /\ requests[routers[w].batch[i].request].status = "processing"
         /\ responses[routers[w].batch[i].request] /= "none" =>
              /\ i = 1 /\ RouterAt(w, "update")
              /\ responses[routers[w].batch[i].request] = routers[w].answer
    /\ \A v, w \in Routers : \A i \in DOMAIN routers[v].batch : \A j \in DOMAIN routers[w].batch :
         routers[v].batch[i].request = routers[w].batch[j].request => v = w /\ i = j
    /\ \A r \in Requests :
         /\ requests[r].status = "processing" => requests[r].lease = "live"
         /\ requests[r].lease = "live" => \E w \in Routers : HeldBy(w, r)
         /\ requests[r].status \in {"none", "queued", "failed"} => responses[r] = "none"
         /\ requests[r].status = "fulfilled" => responses[r] = "complete"
         /\ requests[r].status = "incomplete" => responses[r] = "incomplete"

RequestsInv == RequestsTypeOK /\ BackedInv /\ (incidents = 0 => UntroubledInv)

LEMMA InitRequests ==
    ASSUME RequestsInit
    PROVE  RequestsInv
BY DEF RequestsInit, RequestsInv, RequestsTypeOK, BackedInv, UntroubledInv, Resting, RouterAt, HeldBy,
       Unpublished

\* What a router that is at work holds.
LEMMA BatchAtWork ==
    ASSUME RoutersOK, NEW w \in Routers, ~RouterAt(w, "idle")
    PROVE  /\ routers[w].batch \in Seq(Entries) /\ routers[w].batch /= <<>>
           /\ Held(w) = routers[w].batch[1] /\ 1 \in DOMAIN routers[w].batch
           /\ Held(w) \in Entries /\ Held(w).request \in Requests
<1>1. routers[w].batch \in Seq(Entries) /\ routers[w].batch /= <<>>
  BY DEF RoutersOK, RouterAt
<1>2. Held(w) = routers[w].batch[1] /\ 1 \in DOMAIN routers[w].batch /\ routers[w].batch[1] \in Entries
  BY <1>1, TailOfBatch DEF Held
<1> QED BY <1>1, <1>2 DEF Entries

LEMMA IncidentCounts ==
    ASSUME incidents \in Nat, Incident
    PROVE  incidents' \in Nat /\ incidents' /= 0
BY DEF Incident

\* A router that goes to another step with its batch as it was.
LEMMA RouterMoves ==
    ASSUME RoutersOK, NEW w \in Routers, ~RouterAt(w, "idle"), NEW answer,
           NEW step \in {"save", "update", "fail"},
           \/ /\ routers' = [routers EXCEPT ![w].at = step, ![w].answer = answer]
              /\ answer \in Answer
           \/ RouterTo(w, step) /\ answer = routers[w].answer
    PROVE  /\ RoutersOK'
           /\ \A v \in Routers : routers'[v].batch = routers[v].batch /\ Held(v)' = Held(v)
           /\ routers'[w].at = step /\ routers'[w].answer = answer
           /\ \A v \in Routers \ {w} : routers'[v] = routers[v]
<1>1. answer \in {"none", "complete", "incomplete"}
  BY DEF RoutersOK, Answer
<1>2. routers' = [routers EXCEPT ![w].at = step, ![w].answer = answer]
  BY DEF RoutersOK, RouterTo
<1>3. /\ \A v \in Routers : routers'[v].batch = routers[v].batch
      /\ routers'[w].at = step /\ routers'[w].answer = answer
      /\ \A v \in Routers \ {w} : routers'[v] = routers[v]
  BY <1>2 DEF RoutersOK
<1>4. RoutersOK'
  BY ZenonT(40), <1>1, <1>2 DEF RoutersOK, RouterAt
<1> QED BY <1>3, <1>4 DEF Held

\* A router that has done with the first request of its batch.
LEMMA NextOfBatch ==
    ASSUME RoutersOK, NEW w \in Routers, ~RouterAt(w, "idle"), NextRequest(w)
    PROVE  /\ RoutersOK' /\ (RouterAt(w, "idle")' \/ RouterAt(w, "respond")')
           /\ \A v \in Routers \ {w} : routers'[v] = routers[v]
           /\ \A i \in DOMAIN routers'[w].batch :
                i \in Nat /\ i + 1 \in DOMAIN routers[w].batch
                /\ i + 1 /= 1 /\ routers'[w].batch[i] = routers[w].batch[i + 1]
           /\ \A i \in DOMAIN routers[w].batch : i /= 1 =>
                i - 1 \in DOMAIN routers'[w].batch /\ routers'[w].batch[i - 1] = routers[w].batch[i]
<1> DEFINE batch == routers[w].batch
           rest == Tail(batch)
<1>1. batch \in Seq(Entries) /\ batch /= <<>>
  BY BatchAtWork
<1>2. /\ rest \in Seq(Entries) /\ Len(batch) \in Nat /\ Len(rest) = Len(batch) - 1
      /\ DOMAIN batch = 1..Len(batch) /\ DOMAIN rest = 1..Len(rest)
      /\ \A i \in 1..Len(rest) : rest[i] = batch[i + 1]
  BY <1>1, HeadTailProperties, LenProperties
<1>3. routers' = [routers EXCEPT ![w] =
                    IF rest = <<>> THEN Resting ELSE [at |-> "respond", batch |-> rest, answer |-> "none"]]
  BY DEF NextRequest
<1>4. /\ routers'[w].batch = rest
      /\ routers'[w].at = (IF rest = <<>> THEN "idle" ELSE "respond")
      /\ \A v \in Routers \ {w} : routers'[v] = routers[v]
  BY <1>3 DEF Resting, RoutersOK
<1>5. RoutersOK'
  BY <1>2, <1>3 DEF RoutersOK, Resting
<1>6. \A i \in DOMAIN rest : i \in Nat /\ i + 1 \in DOMAIN batch /\ i + 1 /= 1 /\ rest[i] = batch[i + 1]
  <2> HIDE DEF rest, batch
  <2> QED BY <1>2
<1>7. \A i \in DOMAIN batch : i /= 1 => i - 1 \in DOMAIN rest /\ rest[i - 1] = batch[i]
  <2> HIDE DEF rest, batch
  <2> QED BY <1>2
<1> QED BY <1>4, <1>5, <1>6, <1>7 DEF RouterAt

\* What is in a batch.
LEMMA BatchEntries ==
    ASSUME RoutersOK, NEW v \in Routers, NEW j \in DOMAIN routers[v].batch
    PROVE  routers[v].batch[j] \in Entries /\ routers[v].batch[j].request \in Requests
<1>1. routers[v].batch \in Seq(Entries)
  BY DEF RoutersOK
<1>2. routers[v].batch[j] \in Entries
  <2> DEFINE batch == routers[v].batch
  <2>1. batch \in Seq(Entries) /\ j \in DOMAIN batch
    BY <1>1
  <2> HIDE DEF batch
  <2>2. batch[j] \in Entries
    BY <2>1
  <2> QED BY <2>2 DEF batch
<1> QED BY <1>2 DEF Entries

\* The requests are closed by the router that holds them.
LEMMA RequestClosed ==
    ASSUME RequestsInv, incidents \in Nat, NEW w \in Routers, NEW status, NEW row \in RequestRows,
           ~RouterAt(w, "idle"), NextRequest(w),
           \/ status \in {"failed", "dead"} /\ RouterAt(w, "fail")
           \/ /\ RouterAt(w, "update")
              /\ status = IF routers[w].answer = "complete" THEN "fulfilled" ELSE "incomplete",
           requests' = [requests EXCEPT ![Held(w).request] = row],
           row.status = status, row.lease = "none",
           UNCHANGED <<messages, responses, incidents>>
    PROVE  RequestsInv'
<1> DEFINE closed == Held(w).request
<1>1. /\ closed \in Requests /\ closed = routers[w].batch[1].request /\ 1 \in DOMAIN routers[w].batch
      /\ RoutersOK /\ RowsOK
  BY RequestsTypes, BatchAtWork DEF RequestsInv
<1>2. status \in {"fulfilled", "incomplete", "failed", "dead"}
  OBVIOUS
<1>3. RowsOK'
  BY <1>1, <1>2 DEF RowsOK
<1>4. /\ RoutersOK' /\ (RouterAt(w, "idle")' \/ RouterAt(w, "respond")')
      /\ \A v \in Routers \ {w} : routers'[v] = routers[v]
      /\ \A i \in DOMAIN routers'[w].batch :
           i \in Nat /\ i + 1 \in DOMAIN routers[w].batch
           /\ i + 1 /= 1 /\ routers'[w].batch[i] = routers[w].batch[i + 1]
      /\ \A i \in DOMAIN routers[w].batch : i /= 1 =>
           i - 1 \in DOMAIN routers'[w].batch /\ routers'[w].batch[i - 1] = routers[w].batch[i]
  BY <1>1, NextOfBatch
<1>5. /\ \A r \in Requests \ {closed} : requests'[r] = requests[r]
      /\ requests'[closed].status = status /\ requests'[closed].lease = "none"
  BY <1>1 DEF RowsOK
<1>6. BackedInv'
  <2>1. \A v \in Routers : RouterAt(v, "save")' \/ RouterAt(v, "update")' => v /= w
    BY <1>4 DEF RouterAt
  <2>2. \A v \in Routers : v /= w =>
            routers'[v] = routers[v] /\ Held(v)' = Held(v)
    BY <1>4 DEF Held
  <2>3. status \in {"fulfilled", "incomplete"} => responses[closed] /= "none"
    BY <1>2 DEF RequestsInv, BackedInv
  <2> HIDE DEF closed
  <2> QED BY <1>1, <1>5, <2>1, <2>2, <2>3 DEF RequestsInv, BackedInv, RouterAt
<1>7. ASSUME incidents' = 0
      PROVE  UntroubledInv'
  <2>1. UntroubledInv
    BY <1>7 DEF RequestsInv
  <2>2. \A v \in Routers : \A i \in DOMAIN routers'[v].batch :
            \E j \in DOMAIN routers[v].batch :
                /\ routers'[v].batch[i] = routers[v].batch[j]
                /\ v = w => j = i + 1 /\ j /= 1
                /\ v /= w => j = i
    <3> SUFFICES ASSUME NEW v \in Routers, NEW i \in DOMAIN routers'[v].batch
                 PROVE  \E j \in DOMAIN routers[v].batch :
                          /\ routers'[v].batch[i] = routers[v].batch[j]
                          /\ v = w => j = i + 1 /\ j /= 1
                          /\ v /= w => j = i
      OBVIOUS
    <3>1. CASE v = w
      BY <1>4, <3>1
    <3>2. CASE v /= w
      BY <1>4, <3>2
    <3> QED BY <3>1, <3>2
  <2>3. \A v \in Routers : \A j \in DOMAIN routers[v].batch :
            routers[v].batch[j].request \in Requests
    BY <1>1, BatchEntries
  <2>4. \A v \in Routers : \A j \in DOMAIN routers[v].batch :
            routers[v].batch[j].request = closed => v = w /\ j = 1
    BY <1>1, <2>1 DEF UntroubledInv
  <2>5. \A v \in Routers : \A i \in DOMAIN routers'[v].batch :
            /\ routers'[v].batch[i].request \in Requests \ {closed}
            /\ requests'[routers'[v].batch[i].request].status = "processing"
            /\ responses[routers'[v].batch[i].request] /= "none" =>
                 /\ i = 1 /\ RouterAt(v, "update")'
                 /\ responses[routers'[v].batch[i].request] = routers'[v].answer
    <3> SUFFICES ASSUME NEW v \in Routers, NEW i \in DOMAIN routers'[v].batch
                 PROVE  /\ routers'[v].batch[i].request \in Requests \ {closed}
                        /\ requests'[routers'[v].batch[i].request].status = "processing"
                        /\ responses[routers'[v].batch[i].request] /= "none" =>
                             /\ i = 1 /\ RouterAt(v, "update")'
                             /\ responses[routers'[v].batch[i].request] = routers'[v].answer
      OBVIOUS
    <3>1. PICK j \in DOMAIN routers[v].batch :
                /\ routers'[v].batch[i] = routers[v].batch[j]
                /\ v = w => j = i + 1 /\ j /= 1
                /\ v /= w => j = i
      BY <2>2
    <3>2. routers[v].batch[j].request \in Requests \ {closed}
      BY <2>3, <2>4, <3>1
    <3>3. /\ requests[routers[v].batch[j].request].status = "processing"
          /\ responses[routers[v].batch[j].request] /= "none" =>
               /\ j = 1 /\ RouterAt(v, "update")
               /\ responses[routers[v].batch[j].request] = routers[v].answer
      BY <2>1 DEF UntroubledInv
    <3> HIDE DEF closed
    <3> QED BY <1>4, <1>5, <3>1, <3>2, <3>3 DEF RouterAt
  <2>6. \A u, v \in Routers : \A i \in DOMAIN routers'[u].batch : \A j \in DOMAIN routers'[v].batch :
            routers'[u].batch[i].request = routers'[v].batch[j].request => u = v /\ i = j
    <3> SUFFICES ASSUME NEW u \in Routers, NEW v \in Routers,
                        NEW i \in DOMAIN routers'[u].batch, NEW j \in DOMAIN routers'[v].batch,
                        routers'[u].batch[i].request = routers'[v].batch[j].request
                 PROVE  u = v /\ i = j
      OBVIOUS
    <3>1. PICK k \in DOMAIN routers[u].batch :
                /\ routers'[u].batch[i] = routers[u].batch[k]
                /\ u = w => k = i + 1 /\ k /= 1
                /\ u /= w => k = i
      BY <2>2
    <3>2. PICK l \in DOMAIN routers[v].batch :
                /\ routers'[v].batch[j] = routers[v].batch[l]
                /\ v = w => l = j + 1 /\ l /= 1
                /\ v /= w => l = j
      BY <2>2
    <3>3. u = v /\ k = l
      BY <2>1, <3>1, <3>2 DEF UntroubledInv
    <3>4. u = w => i \in Nat /\ j \in Nat
      BY <1>4, <3>3
    <3> QED BY <3>1, <3>2, <3>3, <3>4
  <2>7. \A r \in Requests : requests'[r].lease = "live" => \E v \in Routers : HeldBy(v, r)'
    <3> SUFFICES ASSUME NEW r \in Requests, requests'[r].lease = "live"
                 PROVE  \E v \in Routers : HeldBy(v, r)'
      OBVIOUS
    <3>1. r /= closed /\ requests[r].lease = "live"
      BY <1>5
    <3>a. PICK v \in Routers : HeldBy(v, r)
      BY <2>1, <3>1 DEF UntroubledInv
    <3>2. PICK i \in DOMAIN routers[v].batch : routers[v].batch[i].request = r
      BY <3>a DEF HeldBy
    <3>3. CASE v = w
      <4>1. i /= 1
        BY <1>1, <3>1, <3>2, <3>3
      <4>2. i - 1 \in DOMAIN routers'[w].batch /\ routers'[w].batch[i - 1] = routers[w].batch[i]
        BY <1>4, <3>3, <4>1
      <4> QED BY <3>2, <3>3, <4>2 DEF HeldBy
    <3>4. CASE v /= w
      BY <1>4, <3>2, <3>4 DEF HeldBy
    <3> QED BY <3>3, <3>4
  <2>8. \A r \in Requests :
            /\ requests'[r].status = "processing" => requests'[r].lease = "live"
            /\ requests'[r].status \in {"none", "queued", "failed"} => responses[r] = "none"
            /\ requests'[r].status = "fulfilled" => responses[r] = "complete"
            /\ requests'[r].status = "incomplete" => responses[r] = "incomplete"
    <3>1. responses[closed] /= "none" => RouterAt(w, "update") /\ responses[closed] = routers[w].answer
      BY <1>1, <2>1 DEF UntroubledInv
    <3>2. RouterAt(w, "update") => responses[closed] /= "none" /\ routers[w].answer \in Answer
      BY DEF RequestsInv, BackedInv
    <3> HIDE DEF closed
    <3> QED BY <1>5, <2>1, <3>1, <3>2 DEF UntroubledInv, Answer, RouterAt
  <2> QED BY <2>5, <2>6, <2>7, <2>8 DEF UntroubledInv
<1>8. RequestsTypeOK'
  BY <1>3, <1>4 DEF RequestsTypeOK, RowsOK, RoutersOK, Entries, RequestRows
<1> QED BY <1>6, <1>7, <1>8 DEF RequestsInv

\* A step of a router that does not touch the rows, and after which an answer that waits
\* to be closed is stored, keeps the half of the invariant that incidents leave alone.
LEMMA StillBacked ==
    ASSUME RequestsInv, NEW w \in Routers, RoutersOK',
           \A v \in Routers \ {w} : routers'[v] = routers[v],
           RouterAt(w, "save")' => routers'[w].answer \in Answer,
           RouterAt(w, "update")' =>
               routers'[w].answer \in Answer /\ responses[Held(w).request]' /= "none",
           UNCHANGED <<messages, requests, responses>>
    PROVE  RequestsTypeOK' /\ BackedInv'
<1>1. RequestsTypeOK'
  BY DEF RequestsInv, RequestsTypeOK, RoutersOK, Entries
<1>2. BackedInv'
  BY DEF RequestsInv, BackedInv, RouterAt, Held
<1> QED BY <1>1, <1>2

-----------------------------------------------------------------------------
(* The steps of the routers.                                               *)

LEMMA StepPublishMessage ==
    ASSUME RequestsInv, NEW key \in Messages, NEW content \in Contents, PublishMessage(key, content)
    PROVE  RequestsInv'
<1>1. RequestsTypeOK'
  BY DEF RequestsInv, RequestsTypeOK, PublishMessage
<1>2. BackedInv'
  BY DEF RequestsInv, BackedInv, PublishMessage, RouterAt, Held
<1>3. incidents' = 0 => UntroubledInv'
  BY DEF RequestsInv, UntroubledInv, PublishMessage, RouterAt, HeldBy
<1> QED BY <1>1, <1>2, <1>3 DEF RequestsInv

\* A step that only touches the row of a request that no batch holds.
LEMMA RowMoves ==
    ASSUME RequestsInv, NEW r \in Requests, NEW row,
           row \in RequestRows, row.status \in {"queued", "failed"},
           requests[r].status \in {"none", "failed"}, row.lease = requests[r].lease,
           requests' = [requests EXCEPT ![r] = row],
           UNCHANGED <<messages, responses, routers, incidents>>
    PROVE  RequestsInv'
<1>1. RequestsTypeOK'
  BY DEF RequestsInv, RequestsTypeOK, RequestRows
<1>2. BackedInv'
  BY DEF RequestsInv, RequestsTypeOK, BackedInv, RequestRows, RouterAt, Held
<1>3. ASSUME incidents' = 0
      PROVE  UntroubledInv'
  <2>1. UntroubledInv
    BY <1>3 DEF RequestsInv
  <2>2. \A q \in Requests : q /= r => requests'[q] = requests[q]
    BY DEF RequestsInv, RequestsTypeOK, RequestRows
  <2>3. requests'[r] = row
    BY DEF RequestsInv, RequestsTypeOK, RequestRows
  <2>4. \A v \in Routers : \A i \in DOMAIN routers[v].batch :
            routers[v].batch[i].request \in Requests \ {r}
    BY <2>1, BatchEntries, RequestsTypes DEF UntroubledInv, RequestsInv
  <2> QED BY <2>1, <2>2, <2>3, <2>4 DEF UntroubledInv, RouterAt, HeldBy
<1> QED BY <1>1, <1>2, <1>3 DEF RequestsInv

LEMMA StepRequestEvidence ==
    ASSUME RequestsInv, NEW r \in Requests, RequestEvidence(r)
    PROVE  RequestsInv'
<1> DEFINE row == [requests[r] EXCEPT !.status = "queued"]
<1>1. requests' = [requests EXCEPT ![r] = row]
  BY DEF RequestEvidence
<1>2. requests[r] \in RequestRows
  BY RequestsTypes DEF RequestsInv, RowsOK
<1>3. row \in RequestRows /\ row.status = "queued" /\ row.lease = requests[r].lease
  BY <1>2 DEF RequestRows, RequestEvidence
<1> HIDE DEF row
<1> QED BY <1>1, <1>3, RowMoves DEF RequestEvidence

LEMMA StepRetryComes ==
    ASSUME RequestsInv, NEW r \in Requests, RetryComes(r)
    PROVE  RequestsInv'
<1> DEFINE row == [requests[r] EXCEPT !.due = TRUE]
<1>1. requests' = [requests EXCEPT ![r] = row]
  BY DEF RetryComes
<1>2. requests[r] \in RequestRows
  BY RequestsTypes DEF RequestsInv, RowsOK
<1>3. row \in RequestRows /\ row.status = "failed" /\ row.lease = requests[r].lease
  BY <1>2 DEF RequestRows, RetryComes
<1> HIDE DEF row
<1> QED BY <1>1, <1>3, RowMoves DEF RetryComes

LEMMA StepRespond ==
    ASSUME RequestsInv, NEW w \in Routers, Respond(w)
    PROVE  RequestsInv'
<1>1. RoutersOK /\ ~RouterAt(w, "idle") /\ RouterAt(w, "respond")
  BY RequestsTypes DEF RequestsInv, Respond, RouterAt
<1>2. /\ RoutersOK'
      /\ \A v \in Routers : routers'[v].batch = routers[v].batch
      /\ routers'[w].at \in {"save", "fail"}
      /\ routers'[w].at = "save" => routers'[w].answer \in Answer
      /\ \A v \in Routers \ {w} : routers'[v] = routers[v]
  <2>1. CASE RouterTo(w, "fail")
    BY <1>1, <2>1, RouterMoves
  <2>2. ASSUME NEW answer \in Answer, routers' = [routers EXCEPT ![w].at = "save", ![w].answer = answer]
        PROVE  /\ RoutersOK'
               /\ \A v \in Routers : routers'[v].batch = routers[v].batch
               /\ routers'[w].at = "save" /\ routers'[w].answer = answer
               /\ \A v \in Routers \ {w} : routers'[v] = routers[v]
    BY <1>1, <2>2, RouterMoves
  <2> QED BY <2>1, <2>2 DEF Respond, Answer
<1>3. RequestsTypeOK' /\ BackedInv'
  BY <1>2, StillBacked DEF Respond, RouterAt
<1>4. incidents' = 0 => UntroubledInv'
  <2> SUFFICES ASSUME incidents' = 0 PROVE UntroubledInv'
    OBVIOUS
  <2>1. UntroubledInv /\ UNCHANGED <<requests, responses>> /\ routers[w].at = "respond"
    BY DEF RequestsInv, Respond, RouterAt
  <2>2. \A v \in Routers : \A i \in DOMAIN routers[v].batch :
           /\ requests'[routers'[v].batch[i].request].status = "processing"
           /\ responses'[routers'[v].batch[i].request] /= "none" =>
                /\ i = 1 /\ RouterAt(v, "update")'
                /\ responses'[routers'[v].batch[i].request] = routers'[v].answer
    BY <1>2, <2>1 DEF UntroubledInv, RouterAt
  <2>3. \A v, u \in Routers : \A i \in DOMAIN routers[v].batch : \A j \in DOMAIN routers[u].batch :
           routers[v].batch[i].request = routers[u].batch[j].request => v = u /\ i = j
    BY <2>1 DEF UntroubledInv
  <2>4. \A r \in Requests, v \in Routers : HeldBy(v, r)' <=> HeldBy(v, r)
    BY <1>2 DEF HeldBy
  <2> QED BY <1>2, <2>1, <2>2, <2>3, <2>4 DEF UntroubledInv
<1> QED BY <1>3, <1>4 DEF RequestsInv

LEMMA StepRouterThrows ==
    ASSUME RequestsInv, incidents \in Nat, NEW w \in Routers, RouterThrows(w)
    PROVE  RequestsInv'
<1>1. RoutersOK /\ ~RouterAt(w, "idle") /\ RouterTo(w, "fail")
  BY RequestsTypes DEF RequestsInv, RouterThrows, RouterAt
<1>2. RoutersOK' /\ routers'[w].at = "fail" /\ \A v \in Routers \ {w} : routers'[v] = routers[v]
  BY <1>1, RouterMoves
<1>3. RequestsTypeOK' /\ BackedInv'
  BY <1>2, StillBacked DEF RouterThrows, RouterAt
<1> QED BY <1>3, IncidentCounts DEF RequestsInv, RouterThrows

LEMMA StepRouterLost ==
    ASSUME RequestsInv, incidents \in Nat, NEW w \in Routers, RouterLost(w)
    PROVE  RequestsInv'
<1>1. RoutersOK /\ routers' = [routers EXCEPT ![w] = Resting]
  BY RequestsTypes DEF RequestsInv, RouterLost
<1>2. RoutersOK' /\ routers'[w].at = "idle" /\ \A v \in Routers \ {w} : routers'[v] = routers[v]
  BY <1>1 DEF RoutersOK, Resting
<1>3. RequestsTypeOK' /\ BackedInv'
  BY <1>2, StillBacked DEF RouterLost, RouterAt
<1> QED BY <1>3, IncidentCounts DEF RequestsInv, RouterLost

LEMMA StepLeaseEnds ==
    ASSUME RequestsInv, incidents \in Nat, NEW r \in Requests, LeaseEnds(r)
    PROVE  RequestsInv'
<1>1. /\ requests' = [requests EXCEPT ![r].lease = "over"] /\ requests[r].lease = "live"
      /\ UNCHANGED <<messages, responses, routers>>
  BY DEF LeaseEnds
<1>2. RequestsTypeOK'
  <2>1. requests' \in [Requests -> RequestRows]
    <3>1. requests \in [Requests -> RequestRows]
      BY RequestsTypes DEF RequestsInv, RowsOK
    <3> QED BY <1>1, <3>1 DEF RequestRows
  <2> QED BY <1>1, <2>1 DEF RequestsInv, RequestsTypeOK, RequestRows
<1>3. BackedInv'
  BY <1>1 DEF RequestsInv, RequestsTypeOK, BackedInv, RouterAt, Held
<1>4. incidents' /= 0
  <2>1. CASE \E w \in Routers : HeldBy(w, r)
    BY <2>1, IncidentCounts DEF LeaseEnds
  <2>2. CASE ~\E w \in Routers : HeldBy(w, r)
    <3>1. incidents /= 0
      BY <1>1, <2>2 DEF RequestsInv, UntroubledInv
    <3> QED BY <2>2, <3>1 DEF LeaseEnds
  <2> QED BY <2>1, <2>2
<1> QED BY <1>2, <1>3, <1>4 DEF RequestsInv

LEMMA StepFailRequest ==
    ASSUME RequestsInv, incidents \in Nat, NEW w \in Routers, FailRequest(w)
    PROVE  RequestsInv'
<1> DEFINE status == IF Exhausted(w) THEN "dead" ELSE "failed"
           row == [requests[Held(w).request] EXCEPT !.status = status, !.lease = "none", !.due = FALSE]
<1>1. RoutersOK /\ RouterAt(w, "fail") /\ ~RouterAt(w, "idle")
  BY RequestsTypes DEF RequestsInv, FailRequest, RouterAt
<1>a. requests[Held(w).request] \in RequestRows /\ status \in {"failed", "dead"}
  BY <1>1, BatchAtWork, RequestsTypes DEF RequestsInv, RowsOK
<1>2. requests' = [requests EXCEPT ![Held(w).request] = row]
  BY DEF FailRequest
<1>3. row \in RequestRows /\ row.status = status /\ row.lease = "none"
  BY <1>a DEF RequestRows
<1>4. NextRequest(w) /\ UNCHANGED <<messages, responses, incidents>>
  BY DEF FailRequest
<1> HIDE DEF status, row
<1> QED BY <1>1, <1>a, <1>2, <1>3, <1>4, RequestClosed

LEMMA StepCloseRequest ==
    ASSUME RequestsInv, incidents \in Nat, NEW w \in Routers, CloseRequest(w)
    PROVE  RequestsInv'
<1> DEFINE status == IF routers[w].answer = "complete" THEN "fulfilled" ELSE "incomplete"
           closed == Held(w).request
           row == [requests[closed] EXCEPT !.status = status, !.lease = "none"]
<1>1. RoutersOK /\ RouterAt(w, "update") /\ ~RouterAt(w, "idle") /\ closed \in Requests
  BY RequestsTypes, BatchAtWork DEF RequestsInv, CloseRequest, RouterAt
<1>a. requests[closed] \in RequestRows
  BY <1>1, RequestsTypes DEF RequestsInv, RowsOK
<1>2. requests' = [requests EXCEPT ![closed] = row]
  BY DEF CloseRequest, Closed
<1>3. row \in RequestRows /\ row.status = status /\ row.lease = "none"
  BY <1>a DEF RequestRows
<1>4. CASE NextRequest(w) /\ UNCHANGED incidents
  <2>1. UNCHANGED <<messages, responses, incidents>>
    BY <1>4 DEF CloseRequest
  <2>2. status = IF routers[w].answer = "complete" THEN "fulfilled" ELSE "incomplete"
    OBVIOUS
  <2> HIDE DEF status, row
  <2> QED BY <1>1, <1>2, <1>3, <1>4, <2>1, <2>2, RequestClosed DEF closed
<1>5. CASE Incident /\ RouterTo(w, "fail")
  <2>1. RoutersOK' /\ routers'[w].at = "fail" /\ \A v \in Routers \ {w} : routers'[v] = routers[v]
    BY <1>1, <1>5, RouterMoves
  <2>2. UNCHANGED <<messages, responses>>
    BY DEF CloseRequest
  <2>3. RequestsTypeOK'
    <3> HIDE DEF row, status
    <3> QED BY <1>1, <1>2, <1>3, <2>1, <2>2 DEF RequestsInv, RequestsTypeOK, RoutersOK, Entries, RequestRows
  <2>4. responses[closed] /= "none"
    BY <1>1 DEF RequestsInv, BackedInv
  <2>5. BackedInv'
    <3>1. \A r \in Requests : r /= closed => requests'[r] = requests[r]
      BY <1>2 DEF RequestsInv, RequestsTypeOK
    <3> HIDE DEF closed, row, status
    <3> QED BY <2>1, <2>2, <2>4, <3>1 DEF RequestsInv, BackedInv, RouterAt, Held
  <2> QED BY <1>5, <2>3, <2>5, IncidentCounts DEF RequestsInv
<1> QED BY <1>4, <1>5 DEF CloseRequest

LEMMA StepSaveResponse ==
    ASSUME RequestsInv, incidents \in Nat, NEW w \in Routers, SaveResponse(w)
    PROVE  RequestsInv'
<1> DEFINE r == Held(w).request
<1>1. RoutersOK /\ RouterAt(w, "save") /\ ~RouterAt(w, "idle") /\ r \in Requests
      /\ r = routers[w].batch[1].request /\ 1 \in DOMAIN routers[w].batch
      /\ routers[w].answer \in Answer
  BY RequestsTypes, BatchAtWork DEF RequestsInv, BackedInv, SaveResponse, RouterAt
<1>2. /\ responses' = [responses EXCEPT ![r] = Stored(r, routers[w].answer)]
      /\ UNCHANGED <<messages, requests>>
  BY DEF SaveResponse
<1>3. PICK step \in {"update", "fail"} :
         RouterTo(w, step) /\ ((step = "update" /\ UNCHANGED incidents) \/ Incident)
  BY DEF SaveResponse
<1>4. /\ RoutersOK' /\ routers'[w].at = step /\ routers'[w].answer = routers[w].answer
      /\ \A v \in Routers : routers'[v].batch = routers[v].batch /\ Held(v)' = Held(v)
      /\ \A v \in Routers \ {w} : routers'[v] = routers[v]
  BY <1>1, <1>3, RouterMoves
<1>5. /\ responses'[r] = Stored(r, routers[w].answer) /\ responses'[r] \in Answer
      /\ \A q \in Requests \ {r} : responses'[q] = responses[q]
      /\ responses' \in [Requests -> {"none", "complete", "incomplete"}]
  BY <1>1, <1>2 DEF RequestsInv, RequestsTypeOK, Stored, Answer
<1>6. RequestsTypeOK'
  BY <1>2, <1>4, <1>5 DEF RequestsInv, RequestsTypeOK, RoutersOK, Entries
<1>7. \A q \in Requests : responses[q] /= "none" => responses'[q] /= "none"
  BY <1>5 DEF Answer
<1>8. BackedInv'
  <2>1. \A v \in Routers : RouterAt(v, "update") => Held(v).request \in Requests
    BY <1>1, BatchAtWork DEF RouterAt
  <2>2. r = Held(w).request /\ "none" \notin Answer
    BY DEF Answer
  <2>3. \A v \in Routers : RouterAt(v, "save")' => routers'[v].answer \in Answer
    BY <1>1, <1>4 DEF RequestsInv, BackedInv, RouterAt
  <2>4. \A v \in Routers : RouterAt(v, "update")' =>
            routers'[v].answer \in Answer /\ responses'[Held(v)'.request] /= "none"
    <3> SUFFICES ASSUME NEW v \in Routers, RouterAt(v, "update")'
                 PROVE  routers'[v].answer \in Answer /\ responses'[Held(v).request] /= "none"
      BY <1>4
    <3>1. CASE v = w
      BY <1>1, <1>4, <1>5, <2>2, <3>1
    <3>2. CASE v /= w
      BY <1>4, <1>7, <2>1, <3>2 DEF RequestsInv, BackedInv, RouterAt
    <3> QED BY <3>1, <3>2
  <2>5. \A q \in Requests : requests'[q].status \in {"fulfilled", "incomplete"} => responses'[q] /= "none"
    BY <1>2, <1>7 DEF RequestsInv, BackedInv
  <2> HIDE DEF r
  <2> QED BY <2>3, <2>4, <2>5 DEF BackedInv, RouterAt
<1>9. ASSUME incidents' = 0
      PROVE  UntroubledInv'
  <2>1. UntroubledInv /\ step = "update"
    BY <1>3, <1>9, IncidentCounts DEF RequestsInv
  <2>2. responses[r] = "none" /\ requests[r].status = "processing"
    BY <1>1, <2>1 DEF UntroubledInv, RouterAt
  <2>3. responses'[r] = routers[w].answer
    BY <1>5, <2>2 DEF Stored
  <2>4. \A v \in Routers : \A i \in DOMAIN routers'[v].batch :
            /\ requests'[routers'[v].batch[i].request].status = "processing"
            /\ responses'[routers'[v].batch[i].request] /= "none" =>
                 /\ i = 1 /\ RouterAt(v, "update")'
                 /\ responses'[routers'[v].batch[i].request] = routers'[v].answer
    <3> SUFFICES ASSUME NEW v \in Routers, NEW i \in DOMAIN routers[v].batch, NEW q, q = routers[v].batch[i].request
                 PROVE  /\ requests[q].status = "processing"
                        /\ responses'[q] /= "none" =>
                             i = 1 /\ RouterAt(v, "update")' /\ responses'[q] = routers'[v].answer
      BY <1>2, <1>4
    <3>1. requests[q].status = "processing" /\ q \in Requests
      BY <1>1, <2>1, BatchEntries DEF UntroubledInv
    <3>2. CASE q = r
      <4>1. v = w /\ i = 1
        <5>1. routers[v].batch[i].request = routers[w].batch[1].request /\ 1 \in DOMAIN routers[w].batch
          BY <1>1, <3>2
        <5> HIDE DEF r
        <5> QED BY <2>1, <5>1 DEF UntroubledInv
      <4> QED BY <1>4, <2>1, <2>3, <3>1, <3>2, <4>1 DEF RouterAt
    <3>3. CASE q /= r
      <4>1. responses'[q] = responses[q]
        BY <1>5, <3>1, <3>3
      <4>2. responses[q] /= "none" => i = 1 /\ RouterAt(v, "update") /\ responses[q] = routers[v].answer
        BY <2>1 DEF UntroubledInv
      <4>3. responses[q] /= "none" => v /= w
        BY <1>1, <4>2 DEF RouterAt
      <4> QED BY <1>4, <3>1, <4>1, <4>2, <4>3 DEF RouterAt
    <3> QED BY <3>2, <3>3
  <2>5. \A u, v \in Routers : \A i \in DOMAIN routers'[u].batch : \A j \in DOMAIN routers'[v].batch :
            routers'[u].batch[i].request = routers'[v].batch[j].request => u = v /\ i = j
    BY <1>4, <2>1 DEF UntroubledInv
  <2>6. \A q \in Requests :
            /\ requests'[q].status = "processing" => requests'[q].lease = "live"
            /\ requests'[q].lease = "live" => \E v \in Routers : HeldBy(v, q)'
            /\ requests'[q].status \in {"none", "queued", "failed"} => responses'[q] = "none"
            /\ requests'[q].status = "fulfilled" => responses'[q] = "complete"
            /\ requests'[q].status = "incomplete" => responses'[q] = "incomplete"
    <3> SUFFICES ASSUME NEW q \in Requests
                 PROVE  /\ requests[q].status = "processing" => requests[q].lease = "live"
                        /\ requests[q].lease = "live" => \E v \in Routers : HeldBy(v, q)
                        /\ requests[q].status \in {"none", "queued", "failed"} => responses'[q] = "none"
                        /\ requests[q].status = "fulfilled" => responses'[q] = "complete"
                        /\ requests[q].status = "incomplete" => responses'[q] = "incomplete"
      BY <1>2, <1>4 DEF HeldBy
    <3>1. q = r => requests[q].status = "processing"
      BY <2>2
    <3>2. q /= r => responses'[q] = responses[q]
      BY <1>5
    <3> HIDE DEF r
    <3> QED BY <2>1, <3>1, <3>2 DEF UntroubledInv
  <2> QED BY <2>4, <2>5, <2>6 DEF UntroubledInv
<1> QED BY <1>6, <1>8, <1>9 DEF RequestsInv

\* A batch names everything that is leased with it, once.
LEMMA BatchNamesAll ==
    ASSUME NEW S, IsFiniteSet(S), NEW batch \in [1..Cardinality(S) -> S],
           \A i, j \in DOMAIN batch : batch[i] = batch[j] => i = j
    PROVE  \A s \in S : \E i \in DOMAIN batch : batch[i] = s
<1> DEFINE n == Cardinality(S)
<1>1. n \in Nat
  BY FS_CardinalityType
<1>2. Cardinality(1..n) = n
  BY <1>1, FS_Interval
<1>3. batch \in Injection(1..n, S)
  BY DEF Injection, IsInjective
<1>4. batch \in Surjection(1..n, S)
  BY <1>2, <1>3, FS_Injection
<1> QED BY <1>4 DEF Surjection

LEMMA StepLeaseRequests ==
    ASSUME RequestsInv, IsFiniteSet(Requests), NEW w \in Routers, LeaseRequests(w)
    PROVE  RequestsInv'
<1> DEFINE ready == {r \in Requests : Leasable(r)}
<1>1. RoutersOK /\ RouterAt(w, "idle") /\ ready /= {} /\ IsFiniteSet(ready)
      /\ UNCHANGED <<messages, responses, incidents>>
  BY RequestsTypes, FS_Subset DEF RequestsInv, LeaseRequests
<1>2. PICK batch \in [1..Cardinality(ready) -> ready] :
         /\ \A i, j \in DOMAIN batch : batch[i] = batch[j] => i = j
         /\ routers' = [routers EXCEPT ![w] =
              [at |-> "respond", answer |-> "none",
               batch |-> [i \in DOMAIN batch |->
                  [request |-> batch[i], attempts |-> requests[batch[i]].attempts + 1]]]]
  BY DEF LeaseRequests
<1>3. requests' = [r \in Requests |->
         IF r \in ready
         THEN [requests[r] EXCEPT !.status = "processing", !.attempts = @ + 1, !.lease = "live"]
         ELSE requests[r]]
  BY DEF LeaseRequests
<1> DEFINE leased == [i \in DOMAIN batch |->
                        [request |-> batch[i], attempts |-> requests[batch[i]].attempts + 1]]
<1>4. leased \in [1..Cardinality(ready) -> Entries]
  BY <1>2 DEF Entries, RequestsInv, RequestsTypeOK
<1>5. leased \in Seq(Entries) /\ leased /= <<>>
  <2> HIDE DEF leased
  <2> QED BY <1>1, <1>4, BatchIsASequence
<1>6. /\ routers'[w].batch = leased /\ routers'[w].at = "respond" /\ routers'[w].answer = "none"
      /\ \A v \in Routers \ {w} : routers'[v] = routers[v]
  BY <1>2 DEF RequestsInv, RequestsTypeOK
<1>7. RoutersOK'
  <2> HIDE DEF leased
  <2>1. routers' = [routers EXCEPT ![w] = [at |-> "respond", answer |-> "none", batch |-> leased]]
    BY <1>2 DEF leased
  <2> QED BY <1>1, <1>5, <2>1 DEF RoutersOK
<1>8. \A r \in Requests : requests[r] \in RequestRows
  BY RequestsTypes DEF RequestsInv, RowsOK
<1>9. /\ \A r \in Requests \ ready : requests'[r] = requests[r]
      /\ \A r \in ready : requests'[r].status = "processing" /\ requests'[r].lease = "live"
      /\ requests' \in [Requests -> RequestRows]
  <2>1. ASSUME NEW r \in Requests
        PROVE  /\ [requests[r] EXCEPT !.status = "processing", !.attempts = @ + 1, !.lease = "live"] \in RequestRows
               /\ [requests[r] EXCEPT !.status = "processing", !.attempts = @ + 1, !.lease = "live"].status
                    = "processing"
               /\ [requests[r] EXCEPT !.status = "processing", !.attempts = @ + 1, !.lease = "live"].lease
                    = "live"
    <3> DEFINE row == requests[r]
               moved == [row EXCEPT !.status = "processing", !.attempts = @ + 1, !.lease = "live"]
    <3>1. row \in RequestRows
      BY <1>8
    <3>2. row.attempts + 1 \in Nat
      BY <3>1 DEF RequestRows
    <3> HIDE DEF row
    <3>3. moved \in RequestRows
      BY <3>1, <3>2 DEF RequestRows
    <3>4. moved.status = "processing" /\ moved.lease = "live"
      BY <3>1 DEF RequestRows
    <3> QED BY <3>3, <3>4 DEF row
  <2>2. ready \subseteq Requests
    OBVIOUS
  <2> HIDE DEF ready
  <2> QED BY <1>3, <1>8, <2>1, <2>2
<1>10. RequestsTypeOK'
  BY <1>1, <1>7, <1>9 DEF RequestsInv, RequestsTypeOK, RoutersOK, Entries, RequestRows
<1>11. BackedInv'
  <2>1. ~RouterAt(w, "save")' /\ ~RouterAt(w, "update")'
    BY <1>6 DEF RouterAt
  <2>2. \A v \in Routers : v /= w => routers'[v] = routers[v] /\ Held(v)' = Held(v)
    BY <1>6 DEF Held
  <2> HIDE DEF ready
  <2> QED BY <1>1, <1>9, <2>1, <2>2 DEF RequestsInv, BackedInv, RouterAt
<1>12. ASSUME incidents' = 0
       PROVE  UntroubledInv'
  <2>1. UntroubledInv
    BY <1>1, <1>12 DEF RequestsInv
  <2>2. \A r \in ready : requests[r].status \in {"queued", "failed"} /\ responses[r] = "none"
    BY <2>1 DEF UntroubledInv, Leasable
  <2>3. \A v \in Routers : \A i \in DOMAIN routers[v].batch :
            routers[v].batch[i].request \in Requests \ ready
    BY <1>1, <2>1, <2>2, BatchEntries DEF UntroubledInv
  <2>4. \A v \in Routers \ {w} : routers'[v].batch = routers[v].batch
    BY <1>6
  <2>5. DOMAIN routers'[w].batch = DOMAIN batch
        /\ \A i \in DOMAIN batch : routers'[w].batch[i].request = batch[i] /\ batch[i] \in ready
    <3>1. DOMAIN leased = DOMAIN batch /\ \A i \in DOMAIN batch : leased[i].request = batch[i]
      OBVIOUS
    <3>2. \A i \in DOMAIN batch : batch[i] \in ready
      <4> HIDE DEF ready, leased
      <4> QED OBVIOUS
    <3> HIDE DEF ready, leased
    <3> QED BY <1>6, <3>1, <3>2
  <2>6. \A v \in Routers : \A i \in DOMAIN routers'[v].batch :
            /\ requests'[routers'[v].batch[i].request].status = "processing"
            /\ responses[routers'[v].batch[i].request] /= "none" =>
                 /\ i = 1 /\ RouterAt(v, "update")'
                 /\ responses[routers'[v].batch[i].request] = routers'[v].answer
    <3> SUFFICES ASSUME NEW v \in Routers, NEW i \in DOMAIN routers'[v].batch
                 PROVE  /\ requests'[routers'[v].batch[i].request].status = "processing"
                        /\ responses[routers'[v].batch[i].request] /= "none" =>
                             /\ i = 1 /\ RouterAt(v, "update")'
                             /\ responses[routers'[v].batch[i].request] = routers'[v].answer
      OBVIOUS
    <3> HIDE DEF ready, leased
    <3>1. CASE v = w
      <4>1. i \in DOMAIN batch /\ routers'[v].batch[i].request = batch[i]
        BY <2>5, <3>1
      <4>2. batch[i] \in ready
        BY <2>5, <4>1
      <4>3. requests'[batch[i]].status = "processing" /\ responses[batch[i]] = "none"
        BY <1>9, <2>2, <4>2
      <4> QED BY <4>1, <4>3
    <3>2. CASE v /= w
      BY <1>6, <1>9, <2>1, <2>3, <3>2 DEF UntroubledInv, RouterAt
    <3> QED BY <3>1, <3>2
  <2>7. \A u, v \in Routers : \A i \in DOMAIN routers'[u].batch : \A j \in DOMAIN routers'[v].batch :
            routers'[u].batch[i].request = routers'[v].batch[j].request => u = v /\ i = j
    <3> HIDE DEF ready, leased
    <3>1. \A i, j \in DOMAIN batch : batch[i] = batch[j] => i = j
      BY <1>2
    <3> SUFFICES ASSUME NEW u \in Routers, NEW v \in Routers,
                        NEW i \in DOMAIN routers'[u].batch, NEW j \in DOMAIN routers'[v].batch,
                        routers'[u].batch[i].request = routers'[v].batch[j].request
                 PROVE  u = v /\ i = j
      OBVIOUS
    <3>2. /\ u = w => i \in DOMAIN batch /\ routers'[u].batch[i].request = batch[i] /\ batch[i] \in ready
          /\ v = w => j \in DOMAIN batch /\ routers'[v].batch[j].request = batch[j] /\ batch[j] \in ready
      BY <2>5
    <3>3. /\ u /= w => routers'[u].batch[i].request = routers[u].batch[i].request /\ i \in DOMAIN routers[u].batch
          /\ v /= w => routers'[v].batch[j].request = routers[v].batch[j].request /\ j \in DOMAIN routers[v].batch
      BY <2>4
    <3>4. /\ u /= w => routers'[u].batch[i].request \notin ready
          /\ v /= w => routers'[v].batch[j].request \notin ready
      BY <2>3, <3>3
    <3>5. u = w <=> v = w
      BY <3>2, <3>4
    <3>6. CASE u = w
      BY <3>1, <3>2, <3>5, <3>6
    <3>7. CASE u /= w
      BY <2>1, <3>3, <3>5, <3>7 DEF UntroubledInv
    <3> QED BY <3>6, <3>7
  <2>8. \A r \in ready : \E i \in DOMAIN batch : batch[i] = r
    <3> HIDE DEF ready
    <3> QED BY <1>1, <1>2, BatchNamesAll
  <2>9. \A r \in Requests : requests'[r].lease = "live" => \E v \in Routers : HeldBy(v, r)'
    <3> SUFFICES ASSUME NEW r \in Requests, requests'[r].lease = "live"
                 PROVE  \E v \in Routers : HeldBy(v, r)'
      OBVIOUS
    <3> HIDE DEF ready, leased
    <3>1. CASE r \in ready
      <4>1. PICK i \in DOMAIN batch : batch[i] = r
        BY <2>8, <3>1
      <4>2. i \in DOMAIN routers'[w].batch /\ routers'[w].batch[i].request = r
        BY <2>5, <4>1
      <4> QED BY <4>2 DEF HeldBy
    <3>2. CASE r \notin ready
      <4>1. PICK v \in Routers : HeldBy(v, r)
        BY <1>9, <2>1, <3>2 DEF UntroubledInv
      <4>2. PICK i \in DOMAIN routers[v].batch : routers[v].batch[i].request = r
        BY <4>1 DEF HeldBy
      <4>3. v /= w
        BY <1>1, <4>2 DEF RoutersOK, RouterAt
      <4> QED BY <2>4, <4>2, <4>3 DEF HeldBy
    <3> QED BY <3>1, <3>2
  <2>10. \A r \in Requests :
            /\ requests'[r].status = "processing" => requests'[r].lease = "live"
            /\ requests'[r].status \in {"none", "queued", "failed"} => responses[r] = "none"
            /\ requests'[r].status = "fulfilled" => responses[r] = "complete"
            /\ requests'[r].status = "incomplete" => responses[r] = "incomplete"
    <3> HIDE DEF ready, leased
    <3> QED BY <1>9, <2>1 DEF UntroubledInv
  <2> HIDE DEF ready, leased
  <2> QED BY <1>1, <2>6, <2>7, <2>9, <2>10 DEF UntroubledInv
<1> QED BY <1>10, <1>11, <1>12 DEF RequestsInv

LEMMA StepRequests ==
    ASSUME RequestsInv, incidents \in Nat, IsFiniteSet(Requests), RequestsNext
    PROVE  RequestsInv'
<1>1. CASE \E key \in Messages, content \in Contents : PublishMessage(key, content)
  BY <1>1, StepPublishMessage
<1>2. CASE \E r \in Requests : RequestEvidence(r)
  BY <1>2, StepRequestEvidence
<1>3. ASSUME NEW w \in Routers, RouterStep(w) \/ RouterThrows(w) \/ RouterLost(w)
      PROVE  RequestsInv'
  BY <1>3, StepLeaseRequests, StepRespond, StepSaveResponse, StepCloseRequest, StepFailRequest,
     StepRouterThrows, StepRouterLost DEF RouterStep
<1>4. CASE \E r \in Requests : LeaseEnds(r) \/ RetryComes(r)
  BY <1>4, StepLeaseEnds, StepRetryComes
<1> QED BY <1>1, <1>2, <1>3, <1>4 DEF RequestsNext

LEMMA RestRequests ==
    ASSUME RequestsInv, UNCHANGED requestVars, incidents' /= 0 \/ UNCHANGED incidents
    PROVE  RequestsInv'
<1>1. RequestsTypeOK' /\ BackedInv'
  BY DEF RequestsInv, RequestsTypeOK, BackedInv, requestVars, RouterAt, Held
<1>2. incidents' = 0 => UntroubledInv'
  BY DEF RequestsInv, UntroubledInv, requestVars, RouterAt, HeldBy
<1> QED BY <1>1, <1>2 DEF RequestsInv

-----------------------------------------------------------------------------
(* Semantic memory.                                                        *)

\* The greatest of finitely many numbers.
LEMMA MaxOfNaturals ==
    ASSUME NEW S \in SUBSET Nat, IsFiniteSet(S), S /= {}
    PROVE  Max(S) \in S /\ \A y \in S : Max(S) >= y
<1> DEFINE Above(x) == {y \in S : y > x}
           T == {U \in SUBSET S : \E x \in S : U = Above(x)}
<1>1. T \subseteq FiniteSubsetsOf(S)
  BY FS_FiniteSubsetsOfFinite
<1>2. T /= {}
  <2>1. PICK x \in S : TRUE
    OBVIOUS
  <2>2. Above(x) \in T
    OBVIOUS
  <2> QED BY <2>2
<1>3. PICK A \in T : \A B \in T : <<B, A>> \notin StrictSubsetOrdering(S)
  <2> HIDE DEF T
  <2> QED BY <1>1, <1>2, FS_StrictSubsetOrderingWellFounded, WFMin
<1>4. PICK x \in S : A = Above(x)
  OBVIOUS
<1>5. ASSUME NEW y \in S, y > x
      PROVE  FALSE
  <2>a. x \in Nat /\ y \in Nat /\ \A z \in S : z \in Nat
    OBVIOUS
  <2>b. \A z \in S : z > y => z > x
    BY <1>5, <2>a
  <2>c. y \in Above(x) /\ y \notin Above(y)
    BY <1>5, <2>a
  <2>1. Above(y) \subseteq Above(x)
    BY <2>b
  <2>2. y \in Above(x) /\ y \notin Above(y) /\ Above(y) \in T
    BY <2>c
  <2>3. <<Above(y), Above(x)>> \in StrictSubsetOrdering(S)
    BY <2>1, <2>2 DEF StrictSubsetOrdering
  <2> QED BY <1>3, <1>4, <2>2, <2>3
<1>6. \A y \in S : x >= y
  BY <1>5
<1> QED BY <1>6 DEF Max

\* The next revision is above everything the scope sees.
LEMMA RevisionIsNewest ==
    ASSUME MemoryTypeOK, NEW scope
    PROVE  /\ NextRevision(scope) \in Nat
           /\ \A i \in Visible(scope) : memory[i].revision < NextRevision(scope)
<1> DEFINE seen == Visible(scope)
           S == {0} \union {memory[i].revision : i \in seen}
           f == [i \in seen \union {0} |-> IF i = 0 THEN 0 ELSE memory[i].revision]
<1>1. /\ Len(memory) \in Nat /\ DOMAIN memory = 1..Len(memory)
      /\ \A i \in DOMAIN memory : memory[i] \in Entry
  BY DEF MemoryTypeOK
<1>2. seen \subseteq 1..Len(memory) /\ 0 \notin seen
  BY <1>1 DEF Visible
<1>3. \A i \in seen : memory[i].revision \in Nat
  BY <1>1, <1>2 DEF Entry
<1>4. S \subseteq Nat /\ S /= {} /\ \A i \in seen : memory[i].revision \in S
  BY <1>3
<1>5. IsFiniteSet(seen \union {0})
  <2>1. IsFiniteSet(1..Len(memory))
    BY <1>1, FS_Interval
  <2>2. IsFiniteSet(seen)
    BY <1>2, <2>1, FS_Subset
  <2> HIDE DEF seen
  <2> QED BY <2>2, FS_AddElement
<1>6. IsFiniteSet(S)
  <2>1. f \in [seen \union {0} -> S]
    <3> HIDE DEF seen
    <3> QED OBVIOUS
  <2>2. \A t \in S : \E i \in seen \union {0} : f[i] = t
    <3> SUFFICES ASSUME NEW t \in S
                 PROVE  \E i \in seen \union {0} : f[i] = t
      OBVIOUS
    <3>1. CASE t = 0
      BY <3>1
    <3>2. CASE t /= 0
      <4>1. PICK i \in seen : t = memory[i].revision
        BY <3>2
      <4> HIDE DEF seen
      <4>2. i /= 0
        BY <1>2 DEF seen
      <4> QED BY <4>1, <4>2
    <3> QED BY <3>1, <3>2
  <2>3. f \in Surjection(seen \union {0}, S)
    <3> HIDE DEF f, S, seen
    <3> QED BY <2>1, <2>2 DEF Surjection
  <2> HIDE DEF f, S, seen
  <2> QED BY <1>5, <2>3, FS_Surjection
<1>7. Max(S) \in Nat /\ \A y \in S : Max(S) >= y
  <2> HIDE DEF S
  <2> QED BY <1>4, <1>6, MaxOfNaturals
<1>8. NextRevision(scope) = Max(S) + 1
  BY DEF NextRevision
<1> HIDE DEF S
<1> QED BY <1>3, <1>4, <1>7, <1>8

\* What a writer that is at work has read, and what it is about to write.
AboutToWrite(c) ==
    LET e == writers[c].entry
    IN /\ e.status /= "superseded"
       /\ e.read <= Len(memory)
       /\ \A i \in 1..e.read : memory[i].scope \in {e.scope, Global} => memory[i].revision < e.revision
       /\ writers[c].at = "mark" => e.supersedes \in DOMAIN memory
       /\ e.supersedes /= 0 =>
            /\ e.supersedes \in DOMAIN memory
            /\ writers[c].at = "insert" => memory[e.supersedes].status = "superseded"

MemoryInv ==
    /\ MemoryTypeOK
    /\ \A c \in Writers : writers[c].at /= "idle" => AboutToWrite(c)
    /\ \A j \in DOMAIN memory : memory[j].supersedes /= 0 =>
         memory[j].supersedes \in DOMAIN memory /\ memory[memory[j].supersedes].status = "superseded"
    /\ SupersessionIsWhole
    /\ RevisionsForkOnlyByOverlap

LEMMA InitMemory ==
    ASSUME MemoryInit
    PROVE  MemoryInv
BY DEF MemoryInit, MemoryInv, MemoryTypeOK, SupersessionIsWhole, RevisionsForkOnlyByOverlap, Thinking,
       NoEntry, Entry, Scopes, Statuses, Global

LEMMA StepRemember ==
    ASSUME MemoryInv, NEW c \in Writers, Remember(c)
    PROVE  MemoryInv'
<1>1. PICK scope \in Scopes, conflicts \in BOOLEAN : \E target \in Visible(scope) \union {0} :
         writers' = [writers EXCEPT ![c] =
              [at |-> IF target = 0 THEN "insert" ELSE "mark",
               entry |-> [scope |-> scope,
                          status |-> IF conflicts THEN "conflicted" ELSE "active",
                          revision |-> NextRevision(scope),
                          supersedes |-> target,
                          read |-> Len(memory)]]]
  BY DEF Remember
<1>2. PICK target \in Visible(scope) \union {0} :
         writers' = [writers EXCEPT ![c] =
              [at |-> IF target = 0 THEN "insert" ELSE "mark",
               entry |-> [scope |-> scope,
                          status |-> IF conflicts THEN "conflicted" ELSE "active",
                          revision |-> NextRevision(scope),
                          supersedes |-> target,
                          read |-> Len(memory)]]]
  BY <1>1
<1> DEFINE e == [scope |-> scope, status |-> IF conflicts THEN "conflicted" ELSE "active",
                 revision |-> NextRevision(scope), supersedes |-> target, read |-> Len(memory)]
           at == IF target = 0 THEN "insert" ELSE "mark"
<1>3. /\ memory \in Seq(Entry) /\ Len(memory) \in Nat /\ DOMAIN memory = 1..Len(memory)
      /\ UNCHANGED <<memory, incidents>> /\ writers[c].at = "idle"
  BY DEF MemoryInv, MemoryTypeOK, Remember, Thinking
<1>4. target \in Nat /\ (target /= 0 => target \in DOMAIN memory)
  BY <1>3 DEF Visible
<1>5. e \in Entry /\ at \in {"mark", "insert"}
  BY <1>3, <1>4, RevisionIsNewest DEF Entry, Statuses, MemoryInv
<1>6. \A i \in 1..Len(memory) : memory[i].scope \in {scope, Global} => memory[i].revision < e.revision
  BY <1>3, RevisionIsNewest DEF MemoryInv, Visible
<1>7. e.status /= "superseded" /\ e.read = Len(memory) /\ e.scope = scope /\ e.supersedes = target
  OBVIOUS
<1>8. at = "insert" <=> target = 0
  OBVIOUS
<1> HIDE DEF e
<1>9. writers' = [writers EXCEPT ![c] = [at |-> at, entry |-> e]]
  BY <1>2 DEF e
<1> HIDE DEF at
<1>10. /\ writers'[c].at = at /\ writers'[c].entry = e
       /\ \A d \in Writers \ {c} : writers'[d] = writers[d]
  BY <1>9 DEF MemoryInv, MemoryTypeOK
<1>11. MemoryTypeOK'
  BY <1>3, <1>5, <1>9 DEF MemoryInv, MemoryTypeOK
<1>12. \A d \in Writers : writers'[d].at /= "idle" => AboutToWrite(d)'
  <2> SUFFICES ASSUME NEW d \in Writers, writers'[d].at /= "idle"
               PROVE  AboutToWrite(d)'
    OBVIOUS
  <2>1. CASE d = c
    BY <1>3, <1>4, <1>6, <1>7, <1>8, <1>10, <2>1 DEF AboutToWrite
  <2>2. CASE d /= c
    BY <1>3, <1>10, <2>2 DEF AboutToWrite, MemoryInv
  <2> QED BY <2>1, <2>2
<1>13. SupersessionIsWhole'
  BY <1>3, <1>10 DEF MemoryInv, SupersessionIsWhole
<1>14. RevisionsForkOnlyByOverlap'
  BY <1>3 DEF MemoryInv, RevisionsForkOnlyByOverlap
<1> QED BY <1>3, <1>11, <1>12, <1>13, <1>14 DEF MemoryInv

LEMMA StepWriterLost ==
    ASSUME MemoryInv, incidents \in Nat, NEW c \in Writers, WriterLost(c)
    PROVE  MemoryInv'
<1>1. /\ writers' = [writers EXCEPT ![c] = Thinking] /\ UNCHANGED memory
      /\ incidents' \in Nat /\ incidents' /= 0
  BY IncidentCounts DEF WriterLost
<1>2. /\ writers'[c].at = "idle" /\ \A d \in Writers \ {c} : writers'[d] = writers[d]
  BY <1>1 DEF MemoryInv, MemoryTypeOK, Thinking
<1>3. MemoryTypeOK'
  BY <1>1 DEF MemoryInv, MemoryTypeOK, Thinking, NoEntry, Entry, Scopes, Statuses, Global
<1>4. \A d \in Writers : writers'[d].at /= "idle" => AboutToWrite(d)'
  BY <1>1, <1>2 DEF MemoryInv, AboutToWrite
<1>5. SupersessionIsWhole'
  BY <1>1 DEF MemoryInv, SupersessionIsWhole
<1>6. RevisionsForkOnlyByOverlap'
  BY <1>1 DEF MemoryInv, RevisionsForkOnlyByOverlap
<1> QED BY <1>1, <1>3, <1>4, <1>5, <1>6 DEF MemoryInv

LEMMA StepMarkSuperseded ==
    ASSUME MemoryInv, incidents \in Nat, NEW c \in Writers, MarkSuperseded(c)
    PROVE  MemoryInv'
<1> DEFINE target == writers[c].entry.supersedes
<1>1. /\ memory \in Seq(Entry) /\ Len(memory) \in Nat /\ DOMAIN memory = 1..Len(memory)
      /\ target \in DOMAIN memory /\ target /= 0 /\ writers[c].at = "mark"
      /\ memory' = [memory EXCEPT ![target].status = "superseded"]
  BY DEF MemoryInv, MemoryTypeOK, MarkSuperseded, AboutToWrite
<1>2. /\ DOMAIN memory' = DOMAIN memory /\ Len(memory') = Len(memory)
      /\ memory' \in Seq(Entry)
  <2> DEFINE row == [memory[target] EXCEPT !.status = "superseded"]
  <2>1. memory' = [memory EXCEPT ![target] = row]
    BY <1>1
  <2>2. memory[target] \in Entry
    BY <1>1
  <2>3. row \in Entry
    BY <2>2 DEF Entry, Statuses
  <2> HIDE DEF row, target
  <2> QED BY <1>1, <2>1, <2>3, ExceptSeq
<1>3. \A i \in DOMAIN memory :
         /\ memory'[i].scope = memory[i].scope /\ memory'[i].revision = memory[i].revision
         /\ memory'[i].supersedes = memory[i].supersedes /\ memory'[i].read = memory[i].read
         /\ memory'[i].status = IF i = target THEN "superseded" ELSE memory[i].status
  <2> SUFFICES ASSUME NEW i \in DOMAIN memory
               PROVE  /\ memory'[i].scope = memory[i].scope /\ memory'[i].revision = memory[i].revision
                      /\ memory'[i].supersedes = memory[i].supersedes /\ memory'[i].read = memory[i].read
                      /\ memory'[i].status = IF i = target THEN "superseded" ELSE memory[i].status
    OBVIOUS
  <2>1. memory[i] \in Entry
    BY <1>1
  <2>2. memory'[i] = IF i = target THEN [memory[i] EXCEPT !.status = "superseded"] ELSE memory[i]
    <3> HIDE DEF target
    <3> QED BY <1>1
  <2> HIDE DEF target
  <2> QED BY <2>1, <2>2 DEF Entry
<1>4. /\ writers'[c].at \in {"insert", "idle"}
      /\ writers'[c].at = "insert" => writers'[c].entry = writers[c].entry
      /\ \A d \in Writers \ {c} : writers'[d] = writers[d]
      /\ MemoryTypeOK'
  <2>1. Thinking.at = "idle" /\ Thinking \in [at: {"idle", "mark", "insert"}, entry: Entry]
    BY DEF Thinking, NoEntry, Entry, Scopes, Statuses, Global
  <2>2. writers \in [Writers -> [at: {"idle", "mark", "insert"}, entry: Entry]]
    BY DEF MemoryInv, MemoryTypeOK
  <2>3. CASE writers' = [writers EXCEPT ![c].at = "insert"]
    BY <1>2, <2>2, <2>3 DEF MemoryTypeOK
  <2>4. CASE writers' = [writers EXCEPT ![c] = Thinking]
    BY <1>2, <2>1, <2>2, <2>4 DEF MemoryTypeOK
  <2> QED BY <2>3, <2>4 DEF MarkSuperseded
<1>5. /\ writers'[c].at = "insert" \/ incidents' > 0
      /\ incidents > 0 => incidents' > 0
  BY <1>4, IncidentCounts DEF MarkSuperseded, MemoryInv, MemoryTypeOK
<1> HIDE DEF target
<1>6. \A d \in Writers : writers'[d].at /= "idle" => AboutToWrite(d)'
  <2> SUFFICES ASSUME NEW d \in Writers, writers'[d].at /= "idle"
               PROVE  AboutToWrite(d)'
    OBVIOUS
  <2>1. AboutToWrite(d)
    BY <1>1, <1>4 DEF MemoryInv
  <2>2. writers'[d].entry = writers[d].entry /\ (d /= c => writers'[d].at = writers[d].at)
        /\ (d = c => writers'[d].at = "insert")
    BY <1>4
  <2>3. writers[d].entry.read \in Nat
    BY DEF MemoryInv, MemoryTypeOK, Entry
  <2>4. \A i \in 1..writers[d].entry.read : i \in DOMAIN memory
    BY <1>1, <2>1, <2>3 DEF AboutToWrite
  <2>5. d = c => writers[d].entry.supersedes = target
    BY DEF target
  <2> QED BY <1>1, <1>2, <1>3, <2>1, <2>2, <2>4, <2>5 DEF AboutToWrite
<1>7. \A j \in DOMAIN memory' : memory'[j].supersedes /= 0 =>
         memory'[j].supersedes \in DOMAIN memory' /\ memory'[memory'[j].supersedes].status = "superseded"
  BY <1>2, <1>3 DEF MemoryInv
<1>8. SupersessionIsWhole'
  <2>1. ASSUME NEW i \in DOMAIN memory', memory'[i].status = "superseded"
        PROVE  \/ \E j \in DOMAIN memory' : memory'[j].supersedes = i
               \/ \E d \in Writers : writers'[d].at = "insert" /\ writers'[d].entry.supersedes = i
               \/ incidents' > 0
    <3>1. CASE i = target
      BY <1>4, <1>5, <3>1 DEF target
    <3>2. CASE i /= target
      <4>1. \/ \E j \in DOMAIN memory : memory[j].supersedes = i
            \/ \E d \in Writers : writers[d].at = "insert" /\ writers[d].entry.supersedes = i
            \/ incidents > 0
        BY <1>2, <1>3, <2>1, <3>2 DEF MemoryInv, SupersessionIsWhole
      <4> QED BY <1>1, <1>2, <1>3, <1>4, <1>5, <4>1
    <3> QED BY <3>1, <3>2
  <2> QED BY <1>7, <2>1 DEF SupersessionIsWhole
<1>9. RevisionsForkOnlyByOverlap'
  <2>1. \A j \in DOMAIN memory : \A i \in 1..(j - 1) : i \in DOMAIN memory
    BY <1>1
  <2> QED BY <1>2, <1>3, <2>1 DEF MemoryInv, RevisionsForkOnlyByOverlap
<1> QED BY <1>4, <1>6, <1>7, <1>8, <1>9 DEF MemoryInv

LEMMA StepInsertEntry ==
    ASSUME MemoryInv, NEW c \in Writers, InsertEntry(c)
    PROVE  MemoryInv'
<1> DEFINE e == writers[c].entry
           n == Len(memory)
<1>1. /\ memory \in Seq(Entry) /\ n \in Nat /\ DOMAIN memory = 1..n /\ e \in Entry
      /\ memory' = Append(memory, e) /\ writers[c].at = "insert" /\ UNCHANGED incidents
      /\ AboutToWrite(c) /\ writers' = [writers EXCEPT ![c] = Thinking]
  BY DEF MemoryInv, MemoryTypeOK, InsertEntry
<1>2. /\ memory' \in Seq(Entry) /\ Len(memory') = n + 1 /\ DOMAIN memory' = 1..(n + 1)
      /\ \A i \in 1..n : memory'[i] = memory[i]
      /\ memory'[n + 1] = e
  <2> HIDE DEF e
  <2> QED BY <1>1, AppendProperties
<1>3. /\ writers'[c].at = "idle" /\ \A d \in Writers \ {c} : writers'[d] = writers[d]
  BY <1>1 DEF MemoryInv, MemoryTypeOK, Thinking
<1>4. MemoryTypeOK'
  BY <1>1, <1>2 DEF MemoryInv, MemoryTypeOK, Thinking, NoEntry, Entry, Scopes, Statuses, Global
<1>5. /\ e.status /= "superseded" /\ e.read \in Nat /\ e.read <= n /\ e.supersedes \in Nat
      /\ \A i \in 1..e.read : memory[i].scope \in {e.scope, Global} => memory[i].revision < e.revision
      /\ e.supersedes /= 0 => e.supersedes \in 1..n /\ memory[e.supersedes].status = "superseded"
  BY <1>1 DEF AboutToWrite, Entry
<1> HIDE DEF e, n
<1>6. \A d \in Writers : writers'[d].at /= "idle" => AboutToWrite(d)'
  <2> SUFFICES ASSUME NEW d \in Writers, writers'[d].at /= "idle"
               PROVE  AboutToWrite(d)'
    OBVIOUS
  <2>1. d /= c /\ writers'[d] = writers[d] /\ AboutToWrite(d)
    BY <1>3 DEF MemoryInv
  <2>2. writers[d].entry.read \in Nat /\ Len(memory) = n
    BY DEF MemoryInv, MemoryTypeOK, Entry, n
  <2>3. writers[d].entry.read <= n /\ \A i \in 1..writers[d].entry.read : i \in 1..n
    BY <1>1, <2>1, <2>2 DEF AboutToWrite
  <2>4. DOMAIN memory \subseteq DOMAIN memory'
    BY <1>1, <1>2
  <2>5. writers[d].entry.read <= Len(memory')
    BY <1>1, <1>2, <2>2, <2>3
  <2> QED BY <1>1, <1>2, <2>1, <2>3, <2>4, <2>5 DEF AboutToWrite
<1>7. \A j \in DOMAIN memory' : memory'[j].supersedes /= 0 =>
         memory'[j].supersedes \in DOMAIN memory' /\ memory'[memory'[j].supersedes].status = "superseded"
  <2> SUFFICES ASSUME NEW j \in DOMAIN memory', memory'[j].supersedes /= 0
               PROVE  /\ memory'[j].supersedes \in DOMAIN memory'
                      /\ memory'[memory'[j].supersedes].status = "superseded"
    OBVIOUS
  <2>1. memory'[j].supersedes \in 1..n /\ memory[memory'[j].supersedes].status = "superseded"
    BY <1>1, <1>2, <1>5 DEF MemoryInv
  <2> QED BY <1>1, <1>2, <2>1
<1>8. SupersessionIsWhole'
  <2>1. ASSUME NEW i \in DOMAIN memory', memory'[i].status = "superseded"
        PROVE  \/ \E j \in DOMAIN memory' : memory'[j].supersedes = i
               \/ \E d \in Writers : writers'[d].at = "insert" /\ writers'[d].entry.supersedes = i
               \/ incidents' > 0
    <3>1. i \in 1..n /\ memory[i].status = "superseded"
      BY <1>1, <1>2, <1>5, <2>1
    <3>2. \/ \E j \in DOMAIN memory : memory[j].supersedes = i
          \/ \E d \in Writers : writers[d].at = "insert" /\ writers[d].entry.supersedes = i
          \/ incidents > 0
      BY <1>1, <3>1 DEF MemoryInv, SupersessionIsWhole
    <3>3. CASE \E j \in DOMAIN memory : memory[j].supersedes = i
      BY <1>1, <1>2, <3>3
    <3>4. CASE \E d \in Writers : writers[d].at = "insert" /\ writers[d].entry.supersedes = i
      <4>1. n + 1 \in DOMAIN memory'
        BY <1>1, <1>2
      <4>2. e.supersedes = i => \E j \in DOMAIN memory' : memory'[j].supersedes = i
        BY <1>2, <4>1
      <4> QED BY <1>3, <3>4, <4>2 DEF e
    <3>5. CASE incidents > 0
      BY <1>1, <3>5
    <3> QED BY <3>2, <3>3, <3>4, <3>5
  <2> QED BY <1>7, <2>1 DEF SupersessionIsWhole
<1>9. RevisionsForkOnlyByOverlap'
  <2> SUFFICES ASSUME NEW j \in DOMAIN memory', NEW i \in 1..(j - 1),
                      memory'[i].scope \in {memory'[j].scope, Global}, i <= memory'[j].read
               PROVE  memory'[i].revision < memory'[j].revision
    BY DEF RevisionsForkOnlyByOverlap
  <2>1. i \in 1..n /\ memory'[i] = memory[i]
    BY <1>1, <1>2
  <2>2. CASE j = n + 1
    <3>1. i \in 1..e.read
      BY <1>1, <1>2, <1>5, <2>1, <2>2
    <3> QED BY <1>2, <1>5, <2>1, <2>2, <3>1
  <2>3. CASE j /= n + 1
    <3>1. j \in DOMAIN memory /\ memory'[j] = memory[j]
      BY <1>1, <1>2, <2>3
    <3> QED BY <2>1, <3>1 DEF MemoryInv, RevisionsForkOnlyByOverlap
  <2> QED BY <2>2, <2>3
<1> QED BY <1>4, <1>6, <1>7, <1>8, <1>9 DEF MemoryInv

LEMMA StepMemory ==
    ASSUME MemoryInv, incidents \in Nat, MemoryNext
    PROVE  MemoryInv'
BY StepRemember, StepMarkSuperseded, StepInsertEntry, StepWriterLost DEF MemoryNext

LEMMA RestMemory ==
    ASSUME MemoryInv, UNCHANGED memoryVars, incidents \in Nat, incidents' \in Nat, incidents' >= incidents
    PROVE  MemoryInv'
<1>1. UNCHANGED <<memory, writers>>
  BY DEF memoryVars
<1>2. MemoryTypeOK' /\ RevisionsForkOnlyByOverlap'
  BY <1>1 DEF MemoryInv, MemoryTypeOK, RevisionsForkOnlyByOverlap
<1>3. SupersessionIsWhole'
  BY <1>1 DEF MemoryInv, SupersessionIsWhole
<1> QED BY <1>1, <1>2, <1>3 DEF MemoryInv, AboutToWrite

-----------------------------------------------------------------------------
(* The specialist daemons.                                                 *)

Orders == [daemon: Daemons, previous: Readings \union {NeverRun}]

\* What a scheduler has leased was seen only if it was ordered, and so is what it is about
\* to save as seen.
Earned(w) ==
    /\ \A i \in DOMAIN schedulers[w].batch :
         LET leased == schedulers[w].batch[i]
         IN leased.previous /= NeverRun => leased.previous \in dailyOrders[leased.daemon]
    /\ SchedulerAt(w, "save") /\ schedulers[w].status /= "waiting-evidence" =>
         schedulers[w].signals \in dailyOrders[Current(w)]

DaemonsInv == DaemonsTypeOK /\ SeenOnlyIfOrdered /\ \A w \in Schedulers : Earned(w)

LEMMA InitDaemons ==
    ASSUME DaemonsInit
    PROVE  DaemonsInv
BY DEF DaemonsInit, DaemonsInv, DaemonsTypeOK, SeenOnlyIfOrdered, Earned, Asleep, Readings, Outcomes,
       SchedulerAt, NeverRun

\* What a scheduler that is at work has leased.
LEMMA DaemonAtWork ==
    ASSUME DaemonsInv, NEW w \in Schedulers, ~SchedulerAt(w, "idle")
    PROVE  /\ schedulers[w].batch \in Seq(Orders) /\ schedulers[w].batch /= <<>>
           /\ Current(w) \in Daemons /\ Remembered(w) \in Readings \union {NeverRun}
           /\ Remembered(w) /= NeverRun => Remembered(w) \in dailyOrders[Current(w)]
<1>1. schedulers[w].batch \in Seq(Orders) /\ schedulers[w].batch /= <<>>
  BY DEF DaemonsInv, DaemonsTypeOK, SchedulerAt, Orders
<1>2. /\ Head(schedulers[w].batch) = schedulers[w].batch[1] /\ 1 \in DOMAIN schedulers[w].batch
      /\ schedulers[w].batch[1] \in Orders
  BY <1>1, TailOfBatch
<1>3. Current(w) = schedulers[w].batch[1].daemon /\ Remembered(w) = schedulers[w].batch[1].previous
  BY <1>2 DEF Current, Remembered
<1> QED BY <1>1, <1>2, <1>3 DEF Orders, DaemonsInv, Earned

SchedulersOK ==
    /\ schedulers \in [Schedulers ->
         [at: {"idle", "read", "pack", "enqueue", "save", "log", "fail"},
          batch: Seq(Orders), signals: Readings, status: Outcomes]]
    /\ \A w \in Schedulers : schedulers[w].at = "idle" <=> schedulers[w].batch = <<>>

\* A scheduler that goes to another step with its batch as it was.
LEMMA SchedulerMoves ==
    ASSUME DaemonsInv, NEW w \in Schedulers, ~SchedulerAt(w, "idle"),
           NEW step \in {"read", "pack", "enqueue", "save", "log", "fail"},
           NEW signals \in Readings, NEW status \in Outcomes,
           schedulers' = [schedulers EXCEPT ![w].at = step, ![w].signals = signals, ![w].status = status],
           NEW orders \in [Daemons -> SUBSET Readings], dailyOrders' = orders,
           \A d \in Daemons : dailyOrders[d] \subseteq orders[d],
           step = "save" /\ status /= "waiting-evidence" => signals \in orders[Current(w)]
    PROVE  SchedulersOK' /\ \A v \in Schedulers : Earned(v)'
<1>1. schedulers \in [Schedulers ->
         [at: {"idle", "read", "pack", "enqueue", "save", "log", "fail"},
          batch: Seq(Orders), signals: Readings, status: Outcomes]]
  BY DEF DaemonsInv, DaemonsTypeOK, Orders
<1>2. /\ \A v \in Schedulers \ {w} : schedulers'[v] = schedulers[v]
      /\ \A v \in Schedulers : schedulers'[v].batch = schedulers[v].batch
      /\ schedulers'[w].at = step /\ schedulers'[w].signals = signals /\ schedulers'[w].status = status
  BY <1>1
<1>3. SchedulersOK'
  <2>1. \A v \in Schedulers : schedulers[v].at = "idle" <=> schedulers[v].batch = <<>>
    BY DEF DaemonsInv, DaemonsTypeOK
  <2>2. schedulers[w].batch /= <<>>
    BY <2>1 DEF SchedulerAt
  <2>3. \A v \in Schedulers : schedulers'[v].at = "idle" <=> schedulers'[v].batch = <<>>
    BY <1>2, <2>1, <2>2
  <2>4. schedulers' \in [Schedulers ->
           [at: {"idle", "read", "pack", "enqueue", "save", "log", "fail"},
            batch: Seq(Orders), signals: Readings, status: Outcomes]]
    BY ZenonT(40), <1>1
  <2> QED BY <2>3, <2>4 DEF SchedulersOK
<1>4. ASSUME NEW v \in Schedulers
      PROVE  Earned(v)'
  <2>1. Current(v)' = Current(v)
    BY <1>2 DEF Current
  <2>2. \A i \in DOMAIN schedulers[v].batch : schedulers[v].batch[i].daemon \in Daemons
    <3> DEFINE batch == schedulers[v].batch
    <3>1. batch \in Seq(Orders)
      BY <1>1
    <3> HIDE DEF batch
    <3>2. \A i \in DOMAIN batch : batch[i] \in Orders
      BY <3>1
    <3> QED BY <3>2 DEF batch, Orders
  <2>3. SchedulerAt(v, "save") => Current(v) \in Daemons
    BY DaemonAtWork DEF SchedulerAt
  <2>4. CASE v = w
    <3>1. \A i \in DOMAIN schedulers[w].batch :
              schedulers[w].batch[i].previous /= NeverRun =>
                  schedulers[w].batch[i].previous \in dailyOrders'[schedulers[w].batch[i].daemon]
      BY <2>2, <2>4 DEF Earned, DaemonsInv
    <3>2. SchedulerAt(w, "save")' /\ schedulers'[w].status /= "waiting-evidence" =>
              schedulers'[w].signals \in dailyOrders'[Current(w)]
      BY <1>2 DEF SchedulerAt
    <3>3. schedulers'[w].batch = schedulers[w].batch /\ Current(w)' = Current(w)
      BY <1>2, <2>1, <2>4
    <3>4. Earned(w)'
      BY <3>1, <3>2, <3>3 DEF Earned
    <3> QED BY <2>4, <3>4
  <2>5. CASE v /= w
    BY ZenonT(40), <1>2, <2>1, <2>2, <2>3, <2>5 DEF Earned, DaemonsInv, SchedulerAt
  <2> QED BY <2>4, <2>5
<1> QED BY <1>3, <1>4

\* A scheduler that has done with the first daemon of its batch, or with all of it.
LEMMA SchedulerGoesOn ==
    ASSUME DaemonsInv, NEW w \in Schedulers, ~SchedulerAt(w, "idle"),
           NextDaemon(w) \/ schedulers' = [schedulers EXCEPT ![w] = Asleep],
           UNCHANGED dailyOrders
    PROVE  SchedulersOK' /\ \A v \in Schedulers : Earned(v)'
<1> DEFINE batch == schedulers[w].batch
           rest == Tail(batch)
<1>1. schedulers \in [Schedulers ->
         [at: {"idle", "read", "pack", "enqueue", "save", "log", "fail"},
          batch: Seq(Orders), signals: Readings, status: Outcomes]]
  BY DEF DaemonsInv, DaemonsTypeOK, Orders
<1>2. batch \in Seq(Orders) /\ batch /= <<>>
  BY DaemonAtWork
<1>3. /\ rest \in Seq(Orders)
      /\ \A i \in DOMAIN rest : i + 1 \in DOMAIN batch /\ rest[i] = batch[i + 1]
  BY <1>2, TailOfBatch
<1> DEFINE next == IF rest = <<>> THEN Asleep ELSE [Asleep EXCEPT !.at = "read", !.batch = rest]
<1>4. PICK new \in {Asleep, next} : schedulers' = [schedulers EXCEPT ![w] = new]
  BY DEF NextDaemon
<1>5. /\ new.at \in {"idle", "read"} /\ new.signals \in Readings /\ new.status \in Outcomes
      /\ new.batch = <<>> \/ new.batch = rest
      /\ new.at = "idle" <=> new.batch = <<>>
      /\ new \in [at: {"idle", "read"}, batch: Seq(Orders), signals: Readings, status: Outcomes]
  <2>1. Asleep \in [at: {"idle", "read"}, batch: Seq(Orders), signals: Readings, status: Outcomes]
        /\ Asleep.at = "idle" /\ Asleep.batch = <<>>
    BY DEF Asleep, Readings, Outcomes
  <2>2. next = Asleep \/ (/\ next = [at |-> "read", batch |-> rest, signals |-> NoSignals, status |-> "never"]
                          /\ rest /= <<>>)
    BY DEF Asleep
  <2> HIDE DEF rest, next
  <2> QED BY <1>3, <2>1, <2>2 DEF Readings, Outcomes
<1> HIDE DEF next
<1>6. schedulers'[w] = new /\ \A v \in Schedulers \ {w} : schedulers'[v] = schedulers[v]
  BY <1>1, <1>4
<1>7. SchedulersOK'
  BY <1>1, <1>4, <1>5 DEF SchedulersOK, DaemonsInv, DaemonsTypeOK
<1>8. ASSUME NEW v \in Schedulers
      PROVE  Earned(v)'
  <2>1. CASE v = w
    <3>1. ~SchedulerAt(v, "save")'
      BY <1>5, <1>6, <2>1 DEF SchedulerAt
    <3>2. \A i \in DOMAIN rest : rest[i].previous /= NeverRun => rest[i].previous \in dailyOrders[rest[i].daemon]
      BY <1>3 DEF DaemonsInv, Earned
    <3>3. \A i \in DOMAIN new.batch :
              new.batch[i].previous /= NeverRun => new.batch[i].previous \in dailyOrders[new.batch[i].daemon]
      <4> HIDE DEF rest
      <4> QED BY <1>5, <3>2
    <3> QED BY <1>6, <2>1, <3>1, <3>3 DEF Earned
  <2>2. CASE v /= w
    <3>1. schedulers'[v] = schedulers[v] /\ Current(v)' = Current(v)
      BY <1>6, <2>2 DEF Current
    <3> QED BY <3>1 DEF Earned, DaemonsInv, SchedulerAt
  <2> QED BY <2>1, <2>2
<1> QED BY <1>7, <1>8

LEMMA StateSaved ==
    ASSUME DaemonsInv, NEW w \in Schedulers, ~SchedulerAt(w, "idle"), NEW hash, NEW status \in Outcomes,
           Saved(w, hash, status), UNCHANGED dailyOrders,
           \/ hash = Remembered(w)
           \/ hash \in Readings /\ hash \in dailyOrders[Current(w)]
    PROVE  /\ daemons' \in [Daemons -> [due: BOOLEAN, lease: {"none", "live", "over"},
                                        previous: Readings \union {NeverRun}, last: Outcomes]]
           /\ SeenOnlyIfOrdered'
<1>1. /\ Current(w) \in Daemons /\ hash \in Readings \union {NeverRun}
      /\ hash /= NeverRun => hash \in dailyOrders[Current(w)]
  BY DaemonAtWork
<1>2. daemons' = [daemons EXCEPT ![Current(w)] =
                    [due |-> FALSE, lease |-> "none", previous |-> hash, last |-> status]]
  BY DEF Saved
<1> QED BY <1>1, <1>2 DEF DaemonsInv, DaemonsTypeOK, SeenOnlyIfOrdered

\* A step that leaves daemons alone, or moves only what nothing is said of.
LEMMA DaemonsTogether ==
    ASSUME DaemonsInv, SchedulersOK', SeenOnlyIfOrdered', \A v \in Schedulers : Earned(v)',
           evidence' \in [Daemons -> Readings], dailyOrders' \in [Daemons -> SUBSET Readings],
           daemons' \in [Daemons -> [due: BOOLEAN, lease: {"none", "live", "over"},
                                     previous: Readings \union {NeverRun}, last: Outcomes]]
    PROVE  DaemonsInv'
BY DEF DaemonsInv, DaemonsTypeOK, SchedulersOK, Orders

\* A scheduler that has just leased.
LEMMA AsleepWith ==
    ASSUME NEW leased
    PROVE  [Asleep EXCEPT !.at = "read", !.batch = leased]
             = [at |-> "read", batch |-> leased, signals |-> NoSignals, status |-> "never"]
<1> DEFINE read == [at |-> "read", batch |-> <<>>, signals |-> NoSignals, status |-> "never"]
<1>1. [Asleep EXCEPT !.at = "read"] = read
  BY DEF Asleep
<1>2. [read EXCEPT !.batch = leased]
        = [at |-> "read", batch |-> leased, signals |-> NoSignals, status |-> "never"]
  OBVIOUS
<1>3. [Asleep EXCEPT !.at = "read", !.batch = leased] = [[Asleep EXCEPT !.at = "read"] EXCEPT !.batch = leased]
  BY DEF Asleep
<1> HIDE DEF read
<1> QED BY <1>1, <1>2, <1>3

LEMMA StepLeaseDaemons ==
    ASSUME DaemonsInv, IsFiniteSet(Daemons), NEW w \in Schedulers, LeaseDaemons(w)
    PROVE  DaemonsInv'
<1> DEFINE ready == {d \in Daemons : Due(d)}
<1>1. /\ ready /= {} /\ IsFiniteSet(ready) /\ UNCHANGED <<evidence, dailyOrders, incidents>>
      /\ daemons' = [d \in Daemons |-> IF d \in ready THEN [daemons[d] EXCEPT !.lease = "live"] ELSE daemons[d]]
  BY FS_Subset DEF LeaseDaemons
<1>2. PICK batch \in [1..Cardinality(ready) -> ready] :
         schedulers' = [schedulers EXCEPT ![w] =
            [Asleep EXCEPT !.at = "read",
               !.batch = [i \in DOMAIN batch |->
                  [daemon |-> batch[i], previous |-> daemons[batch[i]].previous]]]]
  BY DEF LeaseDaemons
<1> DEFINE leased == [i \in DOMAIN batch |-> [daemon |-> batch[i], previous |-> daemons[batch[i]].previous]]
           new == [at |-> "read", batch |-> leased, signals |-> NoSignals, status |-> "never"]
<1>3. leased \in [1..Cardinality(ready) -> Orders]
  BY <1>2 DEF Orders, DaemonsInv, DaemonsTypeOK
<1>4. leased \in Seq(Orders) /\ leased /= <<>>
  <2> HIDE DEF leased
  <2> QED BY <1>1, <1>3, BatchIsASequence
<1>5. \A i \in DOMAIN leased :
         leased[i].previous /= NeverRun => leased[i].previous \in dailyOrders[leased[i].daemon]
  <2>1. \A i \in DOMAIN batch : batch[i] \in Daemons
    OBVIOUS
  <2> QED BY <2>1 DEF DaemonsInv, SeenOnlyIfOrdered
<1>6. schedulers' = [schedulers EXCEPT ![w] = new]
  <2>1. [Asleep EXCEPT !.at = "read", !.batch = leased] = new
    <3> HIDE DEF leased
    <3> QED BY AsleepWith
  <2> QED BY <1>2, <2>1
<1>7. schedulers \in [Schedulers ->
         [at: {"idle", "read", "pack", "enqueue", "save", "log", "fail"},
          batch: Seq(Orders), signals: Readings, status: Outcomes]]
  BY DEF DaemonsInv, DaemonsTypeOK, Orders
<1> HIDE DEF leased
<1>8. /\ schedulers'[w] = new /\ \A v \in Schedulers \ {w} : schedulers'[v] = schedulers[v]
  BY <1>6, <1>7
<1>9. SchedulersOK'
  BY <1>4, <1>6, <1>7 DEF SchedulersOK, DaemonsInv, DaemonsTypeOK, Readings, Outcomes
<1>10. ASSUME NEW v \in Schedulers
       PROVE  Earned(v)'
  <2>1. CASE v = w
    BY <1>1, <1>5, <1>8, <2>1 DEF Earned, SchedulerAt
  <2>2. CASE v /= w
    <3>1. schedulers'[v] = schedulers[v] /\ Current(v)' = Current(v)
      BY <1>8, <2>2 DEF Current
    <3> QED BY <1>1, <3>1 DEF Earned, DaemonsInv, SchedulerAt
  <2> QED BY <2>1, <2>2
<1>11. daemons' \in [Daemons -> [due: BOOLEAN, lease: {"none", "live", "over"},
                                 previous: Readings \union {NeverRun}, last: Outcomes]]
       /\ \A d \in Daemons : daemons'[d].previous = daemons[d].previous
  <2>1. daemons \in [Daemons -> [due: BOOLEAN, lease: {"none", "live", "over"},
                                 previous: Readings \union {NeverRun}, last: Outcomes]]
    BY DEF DaemonsInv, DaemonsTypeOK
  <2> HIDE DEF ready
  <2> QED BY <1>1, <2>1
<1>12. SeenOnlyIfOrdered'
  BY <1>1, <1>11 DEF SeenOnlyIfOrdered, DaemonsInv
<1> QED BY <1>1, <1>9, <1>10, <1>11, <1>12, DaemonsTogether DEF DaemonsInv, DaemonsTypeOK

\* The steps that change nothing but where a scheduler is and what it has read.
LEMMA StepOfScheduler ==
    ASSUME DaemonsInv, NEW w \in Schedulers,
           \/ ReadSignals(w) \/ BuildDaemonPack(w) \/ EnqueueOrder(w) \/ SaveRun(w)
           \/ SchedulerThrows(w) \/ SchedulerLost(w)
    PROVE  DaemonsInv'
<1>1. /\ schedulers \in [Schedulers ->
            [at: {"idle", "read", "pack", "enqueue", "save", "log", "fail"},
             batch: Seq(Orders), signals: Readings, status: Outcomes]]
      /\ dailyOrders \in [Daemons -> SUBSET Readings] /\ evidence \in [Daemons -> Readings]
      /\ ~SchedulerAt(w, "idle") /\ UNCHANGED <<evidence, daemons>>
  BY DEF DaemonsInv, DaemonsTypeOK, Orders, ReadSignals, BuildDaemonPack, EnqueueOrder, SaveRun,
         SchedulerThrows, SchedulerLost, SchedulerAt
<1>2. Current(w) \in Daemons
  BY <1>1, DaemonAtWork
<1> DEFINE Done ==
      /\ SchedulersOK' /\ (\A v \in Schedulers : Earned(v)')
      /\ dailyOrders' \in [Daemons -> SUBSET Readings]
      /\ \A d \in Daemons : dailyOrders[d] \subseteq dailyOrders'[d]
<1>3. ASSUME ReadSignals(w)
      PROVE  Done
  <2> DEFINE signals == evidence[Current(w)]
             status == schedulers[w].status
  <2>1. schedulers' = [schedulers EXCEPT ![w].at = "pack", ![w].signals = signals, ![w].status = status]
    BY <1>1, <1>3 DEF ReadSignals
  <2>2. signals \in Readings /\ status \in Outcomes /\ UNCHANGED dailyOrders
    BY <1>1, <1>2, <1>3 DEF ReadSignals
  <2> HIDE DEF signals, status
  <2> QED BY <1>1, <2>1, <2>2, SchedulerMoves
<1>4. ASSUME BuildDaemonPack(w)
      PROVE  Done
  <2> DEFINE signals == schedulers[w].signals
             step == IF evidence[Current(w)] = NoSignals THEN "save" ELSE "enqueue"
  <2>1. schedulers' = [schedulers EXCEPT ![w].at = step, ![w].signals = signals,
                                         ![w].status = "waiting-evidence"]
    BY <1>1, <1>4 DEF BuildDaemonPack
  <2>2. signals \in Readings /\ UNCHANGED dailyOrders /\ step \in {"save", "enqueue"}
        /\ "waiting-evidence" \in Outcomes
    BY <1>1, <1>4 DEF BuildDaemonPack, Outcomes
  <2> HIDE DEF signals, step
  <2> QED BY <1>1, <2>1, <2>2, SchedulerMoves
<1>5. ASSUME EnqueueOrder(w)
      PROVE  Done
  <2> DEFINE d == Current(w)
             signals == schedulers[w].signals
             orders == [dailyOrders EXCEPT ![d] = @ \union {signals}]
             status == OrderStatusFor(d, signals, Remembered(w))
  <2>1. signals \in Readings /\ orders \in [Daemons -> SUBSET Readings] /\ dailyOrders' = orders
        /\ signals \in orders[Current(w)]
    BY <1>1, <1>2, <1>5 DEF EnqueueOrder
  <2>2. \A x \in Daemons : dailyOrders[x] \subseteq orders[x]
    BY <1>1, <1>2
  <2>3. PICK step \in {"save", "fail"}, outcome \in Outcomes :
            schedulers' = [schedulers EXCEPT ![w].at = step, ![w].signals = signals, ![w].status = outcome]
    <3>1. CASE schedulers' = [schedulers EXCEPT ![w].at = "save",
                                ![w].status = IF status = "queued" THEN "queued" ELSE "skipped"]
      <4>1. (IF status = "queued" THEN "queued" ELSE "skipped") \in Outcomes
        BY DEF Outcomes
      <4> HIDE DEF status
      <4> QED BY <1>1, <3>1, <4>1
    <3>2. CASE SchedulerTo(w, "fail")
      <4>1. schedulers[w].status \in Outcomes
        BY <1>1
      <4> QED BY <1>1, <3>2, <4>1 DEF SchedulerTo
    <3> QED BY <1>5, <3>1, <3>2 DEF EnqueueOrder
  <2> HIDE DEF d, signals, orders, status
  <2> QED BY <1>1, <2>1, <2>2, <2>3, SchedulerMoves
<1>6. ASSUME SaveRun(w) \/ SchedulerLost(w)
      PROVE  Done
  <2>1. UNCHANGED dailyOrders /\ (NextDaemon(w) \/ schedulers' = [schedulers EXCEPT ![w] = Asleep])
    BY <1>6 DEF SaveRun, SchedulerLost
  <2> QED BY <1>1, <2>1, SchedulerGoesOn
<1>7. ASSUME SchedulerThrows(w)
      PROVE  Done
  <2> DEFINE signals == schedulers[w].signals
             status == schedulers[w].status
  <2>1. schedulers' = [schedulers EXCEPT ![w].at = "fail", ![w].signals = signals, ![w].status = status]
    BY <1>1, <1>7 DEF SchedulerThrows, SchedulerTo
  <2>2. signals \in Readings /\ status \in Outcomes /\ UNCHANGED dailyOrders
    BY <1>1, <1>7 DEF SchedulerThrows
  <2> HIDE DEF signals, status
  <2> QED BY <1>1, <2>1, <2>2, SchedulerMoves
<1>8. Done
  BY <1>3, <1>4, <1>5, <1>6, <1>7
<1>9. SeenOnlyIfOrdered'
  BY <1>1, <1>8 DEF SeenOnlyIfOrdered, DaemonsInv
<1> QED BY <1>1, <1>8, <1>9, DaemonsTogether DEF DaemonsInv, DaemonsTypeOK

LEMMA StepCompleteState ==
    ASSUME DaemonsInv, NEW w \in Schedulers, CompleteState(w)
    PROVE  DaemonsInv'
<1> DEFINE signals == schedulers[w].signals
           status == schedulers[w].status
           hash == HashAfter(w)
<1>1. /\ schedulers \in [Schedulers ->
            [at: {"idle", "read", "pack", "enqueue", "save", "log", "fail"},
             batch: Seq(Orders), signals: Readings, status: Outcomes]]
      /\ dailyOrders \in [Daemons -> SUBSET Readings] /\ evidence \in [Daemons -> Readings]
      /\ SchedulerAt(w, "save") /\ ~SchedulerAt(w, "idle") /\ UNCHANGED <<evidence, dailyOrders>>
      /\ Saved(w, hash, status)
  BY DEF DaemonsInv, DaemonsTypeOK, Orders, CompleteState, SchedulerAt
<1>2. signals \in Readings /\ status \in Outcomes
  BY <1>1
<1>3. PICK step \in {"log", "fail"} :
         schedulers' = [schedulers EXCEPT ![w].at = step, ![w].signals = signals, ![w].status = status]
  BY <1>1 DEF CompleteState, SchedulerTo
<1>4. hash = Remembered(w) \/ (hash \in Readings /\ hash \in dailyOrders[Current(w)])
  BY <1>1, <1>2 DEF HashAfter, DaemonsInv, Earned
<1> HIDE DEF signals, status, hash
<1>5. SchedulersOK' /\ \A v \in Schedulers : Earned(v)'
  BY <1>1, <1>2, <1>3, SchedulerMoves
<1>6. /\ daemons' \in [Daemons -> [due: BOOLEAN, lease: {"none", "live", "over"},
                                   previous: Readings \union {NeverRun}, last: Outcomes]]
      /\ SeenOnlyIfOrdered'
  BY <1>1, <1>2, <1>4, StateSaved
<1> QED BY <1>1, <1>5, <1>6, DaemonsTogether

LEMMA StepRecordFailure ==
    ASSUME DaemonsInv, NEW w \in Schedulers, RecordFailure(w)
    PROVE  DaemonsInv'
<1>1. /\ dailyOrders \in [Daemons -> SUBSET Readings] /\ evidence \in [Daemons -> Readings]
      /\ ~SchedulerAt(w, "idle") /\ UNCHANGED <<evidence, dailyOrders>>
      /\ Saved(w, Remembered(w), "failed") /\ "failed" \in Outcomes
      /\ NextDaemon(w) \/ schedulers' = [schedulers EXCEPT ![w] = Asleep]
  BY DEF DaemonsInv, DaemonsTypeOK, RecordFailure, SchedulerAt, Outcomes
<1>2. SchedulersOK' /\ \A v \in Schedulers : Earned(v)'
  BY <1>1, SchedulerGoesOn
<1>3. /\ daemons' \in [Daemons -> [due: BOOLEAN, lease: {"none", "live", "over"},
                                   previous: Readings \union {NeverRun}, last: Outcomes]]
      /\ SeenOnlyIfOrdered'
  BY <1>1, StateSaved
<1> QED BY <1>1, <1>2, <1>3, DaemonsTogether

LEMMA StepOfDaemon ==
    ASSUME DaemonsInv, NEW d \in Daemons, EvidenceChanges(d) \/ DaemonLeaseEnds(d) \/ IntervalPasses(d)
    PROVE  DaemonsInv'
<1>1. /\ UNCHANGED <<schedulers, dailyOrders>> /\ dailyOrders \in [Daemons -> SUBSET Readings]
      /\ evidence' \in [Daemons -> Readings]
  BY DEF DaemonsInv, DaemonsTypeOK, EvidenceChanges, DaemonLeaseEnds, IntervalPasses
<1>2. /\ daemons' \in [Daemons -> [due: BOOLEAN, lease: {"none", "live", "over"},
                                   previous: Readings \union {NeverRun}, last: Outcomes]]
      /\ \A x \in Daemons : daemons'[x].previous = daemons[x].previous
  <2>1. daemons \in [Daemons -> [due: BOOLEAN, lease: {"none", "live", "over"},
                                 previous: Readings \union {NeverRun}, last: Outcomes]]
    BY DEF DaemonsInv, DaemonsTypeOK
  <2>2. CASE UNCHANGED daemons
    BY <2>1, <2>2
  <2>3. CASE daemons' = [daemons EXCEPT ![d].lease = "over"]
    BY <2>1, <2>3
  <2>4. CASE daemons' = [daemons EXCEPT ![d].due = TRUE]
    BY <2>1, <2>4
  <2> QED BY <2>2, <2>3, <2>4 DEF EvidenceChanges, DaemonLeaseEnds, IntervalPasses
<1>3. SchedulersOK' /\ (\A v \in Schedulers : Earned(v)') /\ SeenOnlyIfOrdered'
  BY <1>1, <1>2 DEF DaemonsInv, DaemonsTypeOK, SchedulersOK, Orders, Earned, SeenOnlyIfOrdered, SchedulerAt,
                    Current
<1> QED BY <1>1, <1>2, <1>3, DaemonsTogether

LEMMA StepDaemons ==
    ASSUME DaemonsInv, IsFiniteSet(Daemons), DaemonsNext
    PROVE  DaemonsInv'
BY StepLeaseDaemons, StepOfScheduler, StepCompleteState, StepRecordFailure, StepOfDaemon
   DEF DaemonsNext, SchedulerStep

LEMMA RestDaemons ==
    ASSUME DaemonsInv, UNCHANGED daemonVars
    PROVE  DaemonsInv'
BY DEF DaemonsInv, DaemonsTypeOK, daemonVars, Earned, SeenOnlyIfOrdered, SchedulerAt, Current

-----------------------------------------------------------------------------
(* Conclusions.                                                            *)

\* A workflow is proposed on fresh evidence and with its limits.
LEMMA WorkflowsStand ==
    ASSUME NEW s, RunWorkflow(s).status = "proposed"
    PROVE  /\ s.named /\ s.policy /\ s.supplier = "fresh" /\ s.synced
           /\ s.listing = "fresh" /\ s.profit = "fresh"
           /\ s.of = "stock.sync" => "stock-ceiling" \in s.parameters
           /\ s.of = "stock.autopause" => "stock-floor" \in s.parameters
<1>1. WorkflowReady(s)
  BY DEF RunWorkflow
<1>2. PlannedKinds(s.of) \subseteq AvailableKinds(s) /\ BusinessMissing(s) = {}
  BY <1>1 DEF WorkflowReady
<1>3. {"supplier-evidence", "listing-snapshot", "economic-snapshot", "policy-version"} \subseteq AvailableKinds(s)
  BY <1>2 DEF PlannedKinds, CommonKinds
<1>4. /\ s.named /\ s.policy /\ s.supplier = "fresh" /\ s.synced
      /\ s.listing = "fresh" /\ s.profit = "fresh"
  BY <1>3 DEF AvailableKinds
<1>5. s.of = "stock.sync" => "stock-ceiling" \in s.parameters
  BY <1>2 DEF BusinessMissing
<1>6. s.of = "stock.autopause" => "stock-floor" \in s.parameters
  BY <1>2 DEF BusinessMissing
<1> QED BY <1>4, <1>5, <1>6

\* A confident verdict rests on whole evidence.
LEMMA VerdictsStand ==
    ASSUME NEW p
    PROVE  LET verdict == ClassifyProductLifecycle(p)
           IN /\ verdict.confidence /= "low" =>
                   p.fresh /\ p.referenced /\ LifecycleMissing(p) = {}
              /\ p.active = "yes" /\ p.sold90 = "some" => verdict.status /= "obsolete-candidate"
BY DEF ClassifyProductLifecycle, Verdict, Outdated, Obsolete, LifecycleMissing, SeasonKnown

\* Rounding up keeps the order of costs.
LEMMA CostGrows ==
    ASSUME NEW total \in Nat, NEW most \in Nat, total <= most
    PROVE  -((-total) \div TokenUnit) <= -((-most) \div TokenUnit)
BY DEF TokenUnit

\* No usage within the tokens that were granted costs more than was foreseen: a token
\* read from the cache is the cheaper one.
LEMMA CostIsForeseen ==
    ASSUME NEW price \in {Pricing(RouteLlmModel(t)) : t \in FlashTasks \union ProTasks},
           NEW usage \in [hit: Nat, miss: Nat, prompt: Nat, output: Nat],
           NEW prompt \in Nat, NEW output \in Nat,
           ValidUsage(usage), usage.prompt <= prompt, usage.output <= output
    PROVE  ModelCost(price, usage, TokenUnit) <= MaximumCost(price, prompt, output, TokenUnit)
<1>1. \/ price = [hit |-> 2800, miss |-> 140000, output |-> 280000]
      \/ price = [hit |-> 3625, miss |-> 435000, output |-> 870000]
  BY DEF Pricing, RouteLlmModel, FlashTasks, ProTasks
<1> DEFINE total == usage.hit * price.hit + usage.miss * price.miss + usage.output * price.output
           most == 0 * price.hit + prompt * price.miss + output * price.output
<1>2. total \in Nat /\ most \in Nat /\ total <= most
  BY <1>1 DEF ValidUsage
<1>3. MaximumCost(price, prompt, output, TokenUnit) = -((-most) \div TokenUnit)
  BY DEF MaximumCost, ModelCost
<1>4. ModelCost(price, usage, TokenUnit) = -((-total) \div TokenUnit)
  BY DEF ModelCost
<1> HIDE DEF total, most
<1> QED BY <1>2, <1>3, <1>4, CostGrows

\* A conclusion is what its study gives.
AnalysisInv ==
    /\ part = "analysis" => study \in Studies
    /\ conclusion /= NothingYet => study \in Studies /\ conclusion = Conclusion(study)

LEMMA AnalysisHolds == Spec => []AnalysisInv
<1>1. Init => AnalysisInv
  BY DEF Init, AnalysisInit, AnalysisInv
<1>2. AnalysisInv /\ [Next]_vars => AnalysisInv'
  BY DEF AnalysisInv, Next, Requesting, Remembering, Scheduling, Concluding, AnalysisNext, Conclude,
         vars, analysisVars
<1> QED BY <1>1, <1>2, PTL DEF Spec

LEMMA RunsStand ==
    ASSUME NEW r \in Studies, r.call = "run"
    PROVE  LET run == RunModel(r)
           IN /\ run.status /= "blocked" /\ ValidUsage(r.usage)
                 /\ r.usage.prompt <= r.maxPrompt /\ r.usage.output <= r.maxOutput
                   => run.status = "completed"
              /\ run.status = "completed" => run.cost <= r.budget
<1> DEFINE price == Pricing(RouteLlmModel(r.of))
           cost == ModelCost(price, r.usage, TokenUnit)
           foreseen == MaximumCost(price, r.maxPrompt, r.maxOutput, TokenUnit)
<1>1. /\ r.of \in FlashTasks \union ProTasks
      /\ r.maxPrompt \in Nat /\ r.maxOutput \in Nat /\ r.budget \in Nat
      /\ r.usage \in [hit: Nat, miss: Nat, prompt: Nat, output: Nat]
  BY StudiesAssumption
<1>2. ASSUME ValidUsage(r.usage), r.usage.prompt <= r.maxPrompt, r.usage.output <= r.maxOutput
      PROVE  cost <= foreseen
  BY <1>1, <1>2, CostIsForeseen
<1>3. cost \in Int /\ foreseen \in Int
  <2>1. price.hit \in Nat /\ price.miss \in Nat /\ price.output \in Nat
    BY <1>1 DEF Pricing, RouteLlmModel, FlashTasks, ProTasks
  <2> HIDE DEF price
  <2> QED BY <1>1, <2>1 DEF MaximumCost, ModelCost, TokenUnit
<1>4. RunModel(r) = IF foreseen > r.budget THEN [status |-> "blocked", cost |-> Null]
                    ELSE IF ValidUsage(r.usage) /\ cost <= r.budget
                    THEN [status |-> "completed", cost |-> cost]
                    ELSE [status |-> "failed", cost |-> Null]
  BY DEF RunModel
<1> HIDE DEF cost, foreseen
<1> QED BY <1>1, <1>2, <1>3, <1>4

\* Of the catalog's daemons only two can find all they ask for, and their agents may do what
\* they order.
LEMMA CompleteDaemons ==
    ASSUME NEW daemon \in DaemonCatalog, daemon.kinds \subseteq ReaderKinds(daemon.subject)
    PROVE  \/ daemon.id = "unit-economics" /\ daemon.capability = "economics.read"
           \/ daemon.id = "catalog" /\ daemon.capability = "catalog.read"
BY DEF DaemonCatalog, Daemon, ReaderKinds

LEMMA ContractsSuffice ==
    /\ "economics.read" \in ToSet(Contract("unit-economics").allowed)
    /\ "catalog.read" \in ToSet(Contract("catalog").allowed)
    /\ "economics.read" \notin GlobalForbidden /\ "catalog.read" \notin GlobalForbidden
<1> DEFINE economist == Specialist("unit-economics", "finance-director",
                            <<"economics.read", "portfolio.read", "proposal.create">>,
                            {"economic-snapshot"}, {"economic-truth"}, "high")
           cataloguer == Specialist("catalog", "portfolio-director",
                            <<"catalog.read", "proposal.create">>,
                            {"listing-snapshot"}, {"catalog-research"}, "medium")
<1>1. economist \in Catalog /\ cataloguer \in Catalog
  BY DEF Catalog, FinanceSpecialists, PortfolioSpecialists
<1>2. economist.id = "unit-economics" /\ cataloguer.id = "catalog"
  BY DEF Specialist
<1>3. Contract("unit-economics") \in Catalog /\ Contract("unit-economics").id = "unit-economics"
  BY <1>1, <1>2 DEF Contract
<1>4. Contract("catalog") \in Catalog /\ Contract("catalog").id = "catalog"
  BY <1>1, <1>2 DEF Contract
<1>5. ASSUME NEW c \in Catalog
      PROVE  /\ c.id = "unit-economics" =>
                   c.allowed = <<"economics.read", "portfolio.read", "proposal.create">>
             /\ c.id = "catalog" => c.allowed = <<"catalog.read", "proposal.create">>
  <2>1. CASE c \in {Ceo} \union Directors
    <3>1. c = Ceo \/ \E id \in {"finance-director", "portfolio-director", "supply-director",
                                "operations-director", "growth-director", "expansion-director",
                                "governance-director"} : c = Director(id)
      BY <2>1 DEF Directors
    <3>2. Ceo.id = "ceo" /\ \A id : Director(id).id = id
      BY DEF Ceo, Director
    <3>3. c.id /= "unit-economics" /\ c.id /= "catalog"
      BY <3>1, <3>2
    <3> QED BY <3>3
  <2>2. CASE c \in FinanceSpecialists \union PortfolioSpecialists
    BY <2>2 DEF FinanceSpecialists, PortfolioSpecialists, Specialist
  <2>3. CASE c \in SupplySpecialists \union OperationsSpecialists
    BY <2>3 DEF SupplySpecialists, OperationsSpecialists, Specialist
  <2>4. CASE c \in GrowthSpecialists \union ExpansionSpecialists
    BY <2>4 DEF GrowthSpecialists, ExpansionSpecialists, Specialist
  <2>5. CASE c \in GovernanceSpecialists
    BY <2>5 DEF GovernanceSpecialists, Specialist
  <2> QED BY <2>1, <2>2, <2>3, <2>4, <2>5 DEF Catalog
<1>6. /\ Contract("unit-economics").allowed = <<"economics.read", "portfolio.read", "proposal.create">>
      /\ Contract("catalog").allowed = <<"catalog.read", "proposal.create">>
  BY <1>3, <1>4, <1>5
<1>7. "economics.read" \notin GlobalForbidden /\ "catalog.read" \notin GlobalForbidden
  BY DEF GlobalForbidden
<1>8. /\ "economics.read" \in ToSet(<<"economics.read", "portfolio.read", "proposal.create">>)
      /\ "catalog.read" \in ToSet(<<"catalog.read", "proposal.create">>)
  BY DEF ToSet
<1> QED BY <1>6, <1>7, <1>8

\* What a daemon orders is allowed, and it orders only with all it asked for.
LEMMA OrdersStand ==
    ASSUME NEW d, \E x \in DaemonCatalog : x.id = d.of
    PROVE  LET order == DaemonOutcome(d)
           IN /\ order.status /= "failed"
              /\ order.status /= "no order" =>
                   \E daemon \in DaemonCatalog : daemon.id = d.of /\ daemon.kinds \subseteq order.found
<1> DEFINE daemon == CHOOSE x \in DaemonCatalog : x.id = d.of
           found == d.kinds \intersect ReaderKinds(daemon.subject)
           complete == found /= {} /\ MissingForDaemon(daemon, found) = {}
<1>1. daemon \in DaemonCatalog /\ daemon.id = d.of
  OBVIOUS
<1> HIDE DEF daemon
<1>2. MissingForDaemon(daemon, found) = {} =>
         /\ daemon.kinds \subseteq found
         /\ daemon.capability \in ToSet(Contract(daemon.id).allowed) /\ daemon.capability \notin GlobalForbidden
  <2> SUFFICES ASSUME MissingForDaemon(daemon, found) = {}
               PROVE  /\ daemon.kinds \subseteq found
                      /\ daemon.capability \in ToSet(Contract(daemon.id).allowed)
                      /\ daemon.capability \notin GlobalForbidden
    OBVIOUS
  <2>1. daemon.kinds \subseteq found /\ daemon.kinds \subseteq ReaderKinds(daemon.subject)
    BY DEF MissingForDaemon
  <2> QED BY <1>1, <2>1, CompleteDaemons, ContractsSuffice
<1>3. DaemonOutcome(d).found = found
  BY DEF DaemonOutcome, daemon
<1>4. /\ ~complete => DaemonOutcome(d).status = "no order"
      /\ complete => DaemonOutcome(d).status \in {"waiting-evidence", "queued", "skipped"}
  BY <1>2 DEF DaemonOutcome, daemon
<1> QED BY <1>1, <1>2, <1>3, <1>4

-----------------------------------------------------------------------------
(* Least numbers and sums.                                                 *)

\* Every set of natural numbers that has an element has a least one.
LEMMA LeastNumber ==
    ASSUME NEW U, U \subseteq Nat, U /= {}
    PROVE  \E n \in U : \A m \in U : n <= m
<1>1. \E n \in U : \A m \in U : ~(<<m, n>> \in OpToRel(<, Nat))
  BY NatLessThanWellFounded, WFMin
<1>2. ASSUME NEW m \in Nat, NEW n \in Nat, <<m, n>> \notin OpToRel(<, Nat) PROVE n <= m
  BY <1>2 DEF OpToRel
<1> QED BY <1>1, <1>2

\* g is the function by which MapThenSumSet adds up f over the subsets of S.
Adds(g, f, S) ==
    g = [s \in SUBSET S |->
           IF s = {} THEN 0 ELSE f[CHOOSE x \in s : TRUE] + g[s \ {CHOOSE x \in s : TRUE}]]

\* The same for the subsets of at most n elements.
Small(S, n) == {s \in SUBSET S : Cardinality(s) <= n}
AddsSmall(g, f, S, n) ==
    g = [s \in Small(S, n) |->
           IF s = {} THEN 0 ELSE f[CHOOSE x \in s : TRUE] + g[s \ {CHOOSE x \in s : TRUE}]]

LEMMA OneLess ==
    ASSUME NEW S, IsFiniteSet(S), NEW s \in SUBSET S, s /= {}
    PROVE  LET x == CHOOSE y \in s : TRUE
           IN /\ x \in s /\ s \ {x} \in SUBSET S /\ IsFiniteSet(s)
              /\ Cardinality(s) \in Nat /\ Cardinality(s \ {x}) \in Nat
              /\ Cardinality(s \ {x}) = Cardinality(s) - 1
<1> DEFINE x == CHOOSE y \in s : TRUE
<1>1. x \in s
  OBVIOUS
<1> HIDE DEF x
<1>2. IsFiniteSet(s) /\ Cardinality(s) \in Nat
  BY FS_Subset, FS_CardinalityType
<1>3. IsFiniteSet(s \ {x}) /\ Cardinality(s \ {x}) = Cardinality(s) - 1
  BY <1>1, <1>2, FS_RemoveElement
<1>4. Cardinality(s \ {x}) \in Nat
  BY <1>3, FS_CardinalityType
<1> QED BY <1>1, <1>2, <1>3, <1>4 DEF x

\* The sum exists: it is built one cardinality at a time.
LEMMA AddsSmallStep ==
    ASSUME NEW S, IsFiniteSet(S), NEW f, NEW n \in Nat, NEW g, AddsSmall(g, f, S, n)
    PROVE  \E h : AddsSmall(h, f, S, n + 1)
<1> DEFINE h == [s \in Small(S, n + 1) |->
                   IF s = {} THEN 0 ELSE f[CHOOSE x \in s : TRUE] + g[s \ {CHOOSE x \in s : TRUE}]]
<1>1. ASSUME NEW s \in Small(S, n + 1), s /= {}
      PROVE  s \ {CHOOSE x \in s : TRUE} \in Small(S, n)
  BY <1>1, OneLess DEF Small
<1>2. \A s \in Small(S, n) : s \in Small(S, n + 1)
  <2> TAKE s \in Small(S, n)
  <2>1. IsFiniteSet(s)
    BY FS_Subset DEF Small
  <2>2. Cardinality(s) \in Nat
    BY <2>1, FS_CardinalityType
  <2> QED BY <2>2 DEF Small
<1>3. \A s \in Small(S, n) : h[s] = g[s]
  BY <1>2 DEF AddsSmall
<1>4. h = [s \in Small(S, n + 1) |-> h[s]]
  OBVIOUS
<1>5. \A s \in Small(S, n + 1) :
         h[s] = IF s = {} THEN 0 ELSE f[CHOOSE x \in s : TRUE] + g[s \ {CHOOSE x \in s : TRUE}]
  OBVIOUS
<1> HIDE DEF h
<1>6. \A s \in Small(S, n + 1) :
         h[s] = IF s = {} THEN 0 ELSE f[CHOOSE x \in s : TRUE] + h[s \ {CHOOSE x \in s : TRUE}]
  BY <1>1, <1>3, <1>5
<1>7. AddsSmall(h, f, S, n + 1)
  BY <1>4, <1>6, Zenon DEF AddsSmall
<1> QED BY <1>7

LEMMA AddsSmallExists ==
    ASSUME NEW S, IsFiniteSet(S), NEW f
    PROVE  \A n \in Nat : \E g : AddsSmall(g, f, S, n)
<1> DEFINE Without == {n \in Nat : ~\E g : AddsSmall(g, f, S, n)}
<1>1. 0 \notin Without
  <2> DEFINE g == [s \in Small(S, 0) |-> 0]
  <2>1. \A s \in Small(S, 0) : s = {}
    BY FS_Subset, FS_CardinalityType, FS_EmptySet DEF Small
  <2>2. g = [s \in Small(S, 0) |->
               IF s = {} THEN 0 ELSE f[CHOOSE x \in s : TRUE] + g[s \ {CHOOSE x \in s : TRUE}]]
    BY <2>1
  <2> QED BY <2>2 DEF AddsSmall
<1>2. ASSUME Without /= {} PROVE FALSE
  <2>1. PICK n \in Without : \A m \in Without : n <= m
    BY <1>2, LeastNumber
  <2>2. n - 1 \in Nat /\ n - 1 \notin Without
    BY <1>1, <2>1
  <2>3. \E g : AddsSmall(g, f, S, (n - 1) + 1)
    BY <2>2, AddsSmallStep
  <2>4. (n - 1) + 1 = n
    BY <2>2
  <2> QED BY <2>1, <2>3, <2>4
<1> QED BY <1>2

LEMMA SumExists ==
    ASSUME NEW S, IsFiniteSet(S), NEW f
    PROVE  \E g : Adds(g, f, S)
<1>1. Cardinality(S) \in Nat
  BY FS_CardinalityType
<1>2. Small(S, Cardinality(S)) = SUBSET S
  BY FS_Subset DEF Small
<1>3. \E g : AddsSmall(g, f, S, Cardinality(S))
  BY <1>1, AddsSmallExists
<1> QED BY <1>2, <1>3 DEF Adds, AddsSmall

\* A sum of numbers between low and high is between as many times either.
LEMMA SumBounded ==
    ASSUME NEW S, IsFiniteSet(S), NEW f, NEW low \in Nat, NEW high \in Nat,
           \A x \in S : f[x] \in Nat /\ low <= f[x] /\ f[x] <= high,
           NEW g, Adds(g, f, S)
    PROVE  g[S] \in Nat /\ low * Cardinality(S) <= g[S] /\ g[S] <= high * Cardinality(S)
<1> DEFINE Bounded(s) ==
             g[s] \in Nat /\ low * Cardinality(s) <= g[s] /\ g[s] <= high * Cardinality(s)
           Off == {n \in Nat : \E s \in SUBSET S : Cardinality(s) = n /\ ~Bounded(s)}
<1>1. \A s \in SUBSET S : Cardinality(s) \in Nat
  BY FS_Subset, FS_CardinalityType
<1>2. ASSUME Off /= {} PROVE FALSE
  <2>1. PICK n \in Off : \A m \in Off : n <= m
    BY <1>2, LeastNumber
  <2>2. PICK s \in SUBSET S : Cardinality(s) = n /\ ~Bounded(s)
    BY <2>1
  <2>3. CASE s = {}
    <3>1. g[s] = 0 /\ Cardinality(s) = 0
      BY <2>3, FS_EmptySet DEF Adds
    <3> QED BY <2>2, <3>1
  <2>4. CASE s /= {}
    <3> DEFINE x == CHOOSE y \in s : TRUE
               rest == s \ {x}
    <3>1. x \in s /\ rest \in SUBSET S /\ Cardinality(rest) \in Nat /\ Cardinality(rest) = n - 1
      BY <2>2, <2>4, OneLess
    <3>2. g[s] = f[x] + g[rest]
      BY <2>4 DEF Adds
    <3> HIDE DEF x, rest
    <3>3. n - 1 \notin Off
      BY <2>1, <3>1
    <3>4. Bounded(rest)
      BY <3>1, <3>3
    <3>5. f[x] \in Nat /\ low <= f[x] /\ f[x] <= high
      BY <3>1
    <3>6. low * (n - 1) <= g[rest] /\ g[rest] <= high * (n - 1) /\ g[rest] \in Nat
      BY <3>1, <3>4
    <3>7. low * (n - 1) = low * n - low /\ high * (n - 1) = high * n - high
      BY <2>1
    <3>8. g[s] \in Nat /\ low * n <= g[s] /\ g[s] <= high * n
      BY <2>1, <3>2, <3>5, <3>6, <3>7
    <3> QED BY <2>2, <3>8
  <2> QED BY <2>3, <2>4
<1>3. S \in SUBSET S /\ Cardinality(S) \notin Off
  BY <1>2
<1> QED BY <1>1, <1>3

-----------------------------------------------------------------------------
(* Ordering by counting what comes before.                                 *)

\* How many elements of S come before x.
Place(x, S, R) == Cardinality({y \in S : <<y, x>> \in R})

\* In a finite set that R orders, each place is taken, by one element.
LEMMA PlacesAreFilled ==
    ASSUME NEW S, IsFiniteSet(S), NEW R,
           \A x, y \in S : x /= y => <<x, y>> \in R \/ <<y, x>> \in R,
           \A x \in S : <<x, x>> \notin R,
           \A x, y, z \in S : <<x, y>> \in R /\ <<y, z>> \in R => <<x, z>> \in R
    PROVE  /\ \A x \in S : Place(x, S, R) \in Nat
           /\ \A x, y \in S : Place(x, S, R) = Place(y, S, R) => x = y
           /\ \A i \in 1..Cardinality(S) : \E x \in S : Place(x, S, R) = i - 1
<1> DEFINE Below(x) == {y \in S : <<y, x>> \in R}
           n == Cardinality(S)
           place == [x \in S |-> Cardinality(Below(x)) + 1]
<1>1. n \in Nat
  BY FS_CardinalityType
<1>2. ASSUME NEW x \in S
      PROVE  /\ IsFiniteSet(Below(x)) /\ Cardinality(Below(x)) \in Nat /\ Cardinality(Below(x)) < n
  <2>1. Below(x) \in SUBSET S /\ Below(x) /= S
    OBVIOUS
  <2> HIDE DEF Below
  <2>2. IsFiniteSet(Below(x)) /\ Cardinality(Below(x)) <= n /\ Cardinality(Below(x)) /= n
    BY <2>1, FS_Subset
  <2>3. Cardinality(Below(x)) \in Nat
    BY <2>2, FS_CardinalityType
  <2> QED BY <1>1, <2>2, <2>3
<1>3. ASSUME NEW x \in S, NEW y \in S, <<x, y>> \in R
      PROVE  Cardinality(Below(x)) < Cardinality(Below(y))
  <2>1. Below(x) \in SUBSET Below(y) /\ Below(x) /= Below(y)
    BY <1>3
  <2> HIDE DEF Below
  <2> QED BY <1>2, <2>1, FS_Subset
<1>4. place \in [S -> 1..n]
  <2> SUFFICES ASSUME NEW x \in S PROVE Cardinality(Below(x)) + 1 \in 1..n
    OBVIOUS
  <2> QED BY <1>1, <1>2
<1>5. \A x, y \in S : place[x] = place[y] => x = y
  <2> SUFFICES ASSUME NEW x \in S, NEW y \in S, place[x] = place[y], x /= y PROVE FALSE
    OBVIOUS
  <2>1. Cardinality(Below(x)) = Cardinality(Below(y))
    BY <1>2
  <2>2. <<x, y>> \in R \/ <<y, x>> \in R
    OBVIOUS
  <2>3. Cardinality(Below(x)) < Cardinality(Below(y)) \/ Cardinality(Below(y)) < Cardinality(Below(x))
    BY <1>3, <2>2
  <2> HIDE DEF Below
  <2> QED BY <1>2, <2>1, <2>3
<1>6. place \in Injection(S, 1..n)
  BY <1>4, <1>5 DEF Injection, IsInjective
<1>7. IsFiniteSet(1..n) /\ Cardinality(1..n) = n
  BY <1>1, FS_Interval
<1>8. place \in Surjection(S, 1..n)
  BY <1>6, <1>7, FS_Injection
<1>9. \A i \in 1..n : \E x \in S : place[x] = i
  BY <1>8 DEF Surjection
<1>10. \A x \in S : Cardinality(Below(x)) \in Nat /\ place[x] = Cardinality(Below(x)) + 1
  BY <1>2
<1> HIDE DEF Below, place, n
<1>11. \A x, y \in S : Cardinality(Below(x)) = Cardinality(Below(y)) => x = y
  BY <1>5, <1>10
<1>12. \A i \in 1..n : \E x \in S : Cardinality(Below(x)) = i - 1
  BY <1>1, <1>9, <1>10
<1> QED BY <1>10, <1>11, <1>12 DEF Below, n, Place
-----------------------------------------------------------------------------
(* The catalog of agents.                                                  *)

AllSpecialists ==
    FinanceSpecialists \union PortfolioSpecialists \union SupplySpecialists
    \union OperationsSpecialists \union GrowthSpecialists \union ExpansionSpecialists
    \union GovernanceSpecialists

Agents == Directors \union AllSpecialists

\* What the specialists and directors may do.
Capabilities ==
    ReadOnly \union {"plan.create", "evidence.request", "brief.create", "content.draft",
                     "memory.propose", "review.create"}

LEMMA CapabilitiesAllowed == ReadOnly \subseteq Capabilities /\ Capabilities \intersect GlobalForbidden = {}
BY DEF Capabilities, ReadOnly, GlobalForbidden

\* A list of capabilities whose first reads, plans, packages or proposes.
Tame(a) == a \in Seq(Capabilities) /\ a /= <<>> /\ a[1] \in ReadOnly

LEMMA TameLists ==
    /\ \A x \in ReadOnly, y \in Capabilities : Tame(<<x, y>>)
    /\ \A x \in ReadOnly, y, z \in Capabilities : Tame(<<x, y, z>>)
    /\ \A x \in ReadOnly, y, z, t \in Capabilities : Tame(<<x, y, z, t>>)
BY CapabilitiesAllowed DEF Tame

LEMMA SpecialistFields ==
    \A id, parent, allowed, required, skills, risk :
       LET c == Specialist(id, parent, allowed, required, skills, risk)
       IN c.id = id /\ c.allowed = allowed /\ c.level = "specialist"
BY DEF Specialist

LEMMA DirectorFields ==
    \A id : LET d == Director(id)
            IN /\ d.id = id /\ d.level = "director"
               /\ d.allowed = <<"plan.create", "evidence.request", "proposal.create", "brief.create">>
BY DEF Director

LEMMA SpecialistsAreTame == \A c \in AllSpecialists : c.level = "specialist" /\ Tame(c.allowed)
<1>1. \A c \in FinanceSpecialists : c.level = "specialist" /\ Tame(c.allowed)
  <2>1. /\ {"orders.read", "economics.read", "ads.read"} \subseteq ReadOnly
        /\ {"economics.read", "portfolio.read", "catalog.read", "proposal.create"} \subseteq Capabilities
    BY DEF ReadOnly, Capabilities
  <2> QED BY <2>1, TameLists, SpecialistFields DEF FinanceSpecialists
<1>2. \A c \in PortfolioSpecialists : c.level = "specialist" /\ Tame(c.allowed)
  <2>1. /\ {"analytics.read", "catalog.read", "research.read"} \subseteq ReadOnly
        /\ {"portfolio.read", "catalog.read", "analytics.read", "content.read", "proposal.create"}
              \subseteq Capabilities
    BY DEF ReadOnly, Capabilities
  <2> QED BY <2>1, TameLists, SpecialistFields DEF PortfolioSpecialists
<1>3. \A c \in SupplySpecialists : c.level = "specialist" /\ Tame(c.allowed)
  <2>1. /\ {"supplier.read", "inventory.read"} \subseteq ReadOnly
        /\ {"orders.read", "economics.read", "proposal.create"} \subseteq Capabilities
    BY DEF ReadOnly, Capabilities
  <2> QED BY <2>1, TameLists, SpecialistFields DEF SupplySpecialists
<1>4. \A c \in OperationsSpecialists : c.level = "specialist" /\ Tame(c.allowed)
  <2>1. /\ {"orders.read", "claims.read", "shipping.read"} \subseteq ReadOnly
        /\ {"questions.read", "reputation.read", "orders.read", "proposal.create"} \subseteq Capabilities
    BY DEF ReadOnly, Capabilities
  <2> QED BY <2>1, TameLists, SpecialistFields DEF OperationsSpecialists
<1>5. \A c \in GrowthSpecialists : c.level = "specialist" /\ Tame(c.allowed)
  <2>1. /\ {"content.read", "catalog.read", "ads.read"} \subseteq ReadOnly
        /\ {"catalog.read", "research.read", "content.draft", "economics.read", "proposal.create"}
              \subseteq Capabilities
    BY DEF ReadOnly, Capabilities
  <2> QED BY <2>1, TameLists, SpecialistFields DEF GrowthSpecialists
<1>6. \A c \in ExpansionSpecialists : c.level = "specialist" /\ Tame(c.allowed)
  <2>1. /\ {"web.read", "research.read"} \subseteq ReadOnly
        /\ {"catalog.read", "economics.read", "proposal.create"} \subseteq Capabilities
    BY DEF ReadOnly, Capabilities
  <2> QED BY <2>1, TameLists, SpecialistFields DEF ExpansionSpecialists
<1>7. \A c \in GovernanceSpecialists : c.level = "specialist" /\ Tame(c.allowed)
  <2>1. /\ {"memory.read", "research.read", "experiment.plan", "policy.read", "evidence.read",
            "scorecards.read"} \subseteq ReadOnly
        /\ {"outcomes.read", "memory.propose", "evidence.package", "proposal.create", "receipts.read",
            "review.create"} \subseteq Capabilities
    BY DEF ReadOnly, Capabilities
  <2> QED BY <2>1, TameLists, SpecialistFields DEF GovernanceSpecialists
<1> QED BY <1>1, <1>2, <1>3, <1>4, <1>5, <1>6, <1>7 DEF AllSpecialists

\* The planner finds an agent of every contract by its name.
LEMMA NamesAreUnique == \A c, d \in Catalog : c.id = d.id => c = d
<1>1. \A c, d \in AllSpecialists : c.id = d.id => c = d
  BY SpecialistFields
  DEF AllSpecialists, FinanceSpecialists, PortfolioSpecialists, SupplySpecialists, OperationsSpecialists,
      GrowthSpecialists, ExpansionSpecialists, GovernanceSpecialists
<1>2. \A c, d \in Directors : c.id = d.id => c = d
  BY DirectorFields DEF Directors
<1>3. \A c \in Directors :
         c.id \in {"finance-director", "portfolio-director", "supply-director", "operations-director",
                   "growth-director", "expansion-director", "governance-director"}
  BY DirectorFields DEF Directors
<1>4. Ceo.id = "ceo"
  BY DEF Ceo
<1>5. \A c \in AllSpecialists :
         c.id \notin {"ceo", "finance-director", "portfolio-director", "supply-director",
                      "operations-director", "growth-director", "expansion-director",
                      "governance-director"}
  BY SpecialistFields
  DEF AllSpecialists, FinanceSpecialists, PortfolioSpecialists, SupplySpecialists, OperationsSpecialists,
      GrowthSpecialists, ExpansionSpecialists, GovernanceSpecialists
<1>6. \A c \in Catalog : c = Ceo \/ c \in Directors \/ c \in AllSpecialists
  BY DEF Catalog, AllSpecialists
<1> QED BY <1>1, <1>2, <1>3, <1>4, <1>5, <1>6

LEMMA ContractsAreFound ==
    \A c \in Agents : c \in Catalog /\ Contract(c.id) = c
<1>1. Agents \subseteq Catalog
  BY DEF Agents, AllSpecialists, Catalog
<1>2. ASSUME NEW c \in Catalog PROVE Contract(c.id) = c
  BY NamesAreUnique DEF Contract
<1> QED BY <1>1, <1>2

\* Every agent is in the list of names, once.
LEMMA NamesAreListed ==
    \A c \in Agents :
       Name(c.id) \in 1..36 /\ \A d \in Agents : Name(c.id) = Name(d.id) => c = d
<1> DEFINE Listed(id) == \E i \in 1..36 : Alphabetical[i] = id
<1>1. ASSUME NEW id \in {"acquisition-imports", "ads-profitability", "agent-evaluator", "analytics", "catalog",
                         "claims-reputation", "copy-social", "creative-studio", "critic-auditor",
                         "economic-ingestion", "expansion-director", "experimentation"}
      PROVE  Listed(id)
  BY DEF Alphabetical
<1>2. ASSUME NEW id \in {"finance-director", "governance-director", "growth-director", "image-production",
                         "inventory-forecast", "listing-retread", "marketplace-expansion",
                         "memory-learning", "operations-director", "owned-ecommerce",
                         "portfolio-director", "pricing"}
      PROVE  Listed(id)
  BY DEF Alphabetical
<1>3. ASSUME NEW id \in {"product-ads", "product-launch", "product-recognition", "product-research",
                         "research", "risk-compliance", "sales-service", "shipping-logistics",
                         "supplier-manager", "supply-director", "unit-economics", "video-production"}
      PROVE  Listed(id)
  BY DEF Alphabetical
<1>4. DOMAIN Alphabetical = 1..36
  BY DEF Alphabetical
<1> HIDE DEF Listed
<1>5. \A c \in Directors : Listed(c.id)
  BY <1>1, <1>2, <1>3, DirectorFields DEF Directors
<1>6. \A c \in FinanceSpecialists \union PortfolioSpecialists \union SupplySpecialists :
         Listed(c.id)
  BY <1>1, <1>2, <1>3, SpecialistFields DEF FinanceSpecialists, PortfolioSpecialists, SupplySpecialists
<1>7. \A c \in OperationsSpecialists \union GrowthSpecialists :
         Listed(c.id)
  BY <1>1, <1>2, <1>3, SpecialistFields DEF OperationsSpecialists, GrowthSpecialists
<1>8. \A c \in ExpansionSpecialists \union GovernanceSpecialists :
         Listed(c.id)
  BY <1>1, <1>2, <1>3, SpecialistFields DEF ExpansionSpecialists, GovernanceSpecialists
<1>9. \A c \in Agents : Name(c.id) \in 1..36 /\ Alphabetical[Name(c.id)] = c.id
  BY <1>4, <1>5, <1>6, <1>7, <1>8 DEF Agents, AllSpecialists, Name, Listed
<1> QED BY <1>9, ContractsAreFound, NamesAreUnique

\* The agent of a task may do what the task asks.
LEMMA ActionsAreAllowed ==
    ASSUME NEW c \in Agents
    PROVE  /\ TaskAction(c) \in ToSet(Contract(c.id).allowed) \ GlobalForbidden
           /\ c \in AllSpecialists => TaskAction(c) \in ReadOnly
<1>1. Contract(c.id) = c
  BY ContractsAreFound
<1>2. CASE c \in Directors
  <2>1. c.level = "director" /\ c.allowed = <<"plan.create", "evidence.request", "proposal.create", "brief.create">>
    BY <1>2, DirectorFields DEF Directors
  <2>2. c.allowed[1] = "plan.create" /\ 1 \in DOMAIN c.allowed
    BY <2>1
  <2>3. "plan.create" \notin GlobalForbidden
    BY DEF GlobalForbidden
  <2>4. c \notin AllSpecialists
    BY <2>1, SpecialistsAreTame
  <2> QED BY <1>1, <2>1, <2>2, <2>3, <2>4 DEF TaskAction, ToSet
<1>3. CASE c \in AllSpecialists
  <2>1. c.level = "specialist" /\ Tame(c.allowed)
    BY <1>3, SpecialistsAreTame
  <2> DEFINE a == c.allowed
             fitting == {i \in 1..Len(a) : a[i] \in ReadOnly}
             first == SelectInSeq(a, LAMBDA x : x \in ReadOnly)
  <2>2. a \in Seq(Capabilities) /\ DOMAIN a = 1..Len(a) /\ 1 \in fitting /\ fitting \subseteq Nat
    BY <2>1 DEF Tame
  <2>3. first = Min(fitting)
    BY <2>2 DEF SelectInSeq
  <2>4. Min(fitting) \in fitting
    <3> HIDE DEF fitting
    <3>1. \E n \in fitting : \A m \in fitting : n <= m
      BY <2>2, LeastNumber
    <3> QED BY <3>1 DEF Min
  <2> HIDE DEF first
  <2>5. first > 0 /\ first \in DOMAIN a /\ a[first] \in ReadOnly
    BY <2>2, <2>3, <2>4
  <2>6. SelectReadOnlyAction(c) = a[first]
    <3>1. SelectReadOnlyAction(c) = a[IF first > 0 THEN first ELSE 1]
      BY DEF SelectReadOnlyAction, first
    <3> QED BY <2>5, <3>1
  <2>7. TaskAction(c) = a[first] /\ a[first] \in ToSet(c.allowed)
    BY <2>1, <2>5, <2>6 DEF TaskAction, ToSet
  <2> QED BY <1>1, <2>5, <2>7, CapabilitiesAllowed
<1> QED BY <1>2, <1>3 DEF Agents

-----------------------------------------------------------------------------
(* The chain of command of a governed order.                               *)

\* What any agent may do, and what some skill forbids.
Granted == Capabilities \union {"work-order.create"}
Prohibited ==
    GlobalForbidden \union
    {"economics.estimate-missing", "listing.write", "supplier.purchase", "inventory.write",
     "question.reply", "claim.intervene", "order.cancel", "content.publish", "ads.write",
     "budget.spend", "web.deploy", "web.write", "action.execute", "review-own-proposal",
     "memory-operational-write", "autonomy.promote", "experiment.activate", "experiment.rollback"}

LEMMA GrantedIsNotProhibited == Granted \intersect Prohibited = {}
BY DEF Granted, Capabilities, ReadOnly, Prohibited, GlobalForbidden

LEMMA SkillFields ==
    \A id, allowed, forbidden, required : \A approval \in BOOLEAN :
       LET s == Skill(id, allowed, forbidden, required, approval)
       IN s.id = id /\ s.forbidden = forbidden \union GlobalForbidden /\ s.required = required
BY DEF Skill

\* No skill forbids what a contract may allow, and the two skills of those who delegate ask for
\* nothing but what the processor claims.
SkillFits(s) ==
    /\ s.forbidden \subseteq Prohibited
    /\ s.id \in {"evidence-analysis", "governance-review"} => s.required \subseteq ProcessorKinds

LEMMA SkillsFit == \A s \in Skills : SkillFits(s)
<1>1. \A id, allowed, required : \A approval \in BOOLEAN, forbidden \in SUBSET Prohibited :
         Skill(id, allowed, forbidden, required, approval).forbidden \subseteq Prohibited
  BY SkillFields DEF Prohibited
<1>2. \A s \in AnalysisSkills : s.forbidden \subseteq Prohibited
  <2>1. /\ {} \in SUBSET Prohibited /\ {"economics.estimate-missing"} \in SUBSET Prohibited
        /\ {"listing.write"} \in SUBSET Prohibited /\ {"listing.write", "supplier.purchase"} \in SUBSET Prohibited
        /\ {"supplier.purchase", "inventory.write"} \in SUBSET Prohibited
        /\ {"question.reply", "claim.intervene", "order.cancel"} \in SUBSET Prohibited
        /\ {"content.publish"} \in SUBSET Prohibited
    BY DEF Prohibited
  <2> QED BY <1>1, <2>1 DEF AnalysisSkills
<1>3. \A s \in GrowthSkills : s.forbidden \subseteq Prohibited
  <2>1. /\ {"listing.write"} \in SUBSET Prohibited /\ {"ads.write", "budget.spend"} \in SUBSET Prohibited
        /\ {"web.deploy", "web.write"} \in SUBSET Prohibited
    BY DEF Prohibited
  <2> QED BY <1>1, <2>1 DEF GrowthSkills
<1>4. \A s \in GovernanceSkills : s.forbidden \subseteq Prohibited
  <2>1. /\ {"action.execute", "review-own-proposal"} \in SUBSET Prohibited
        /\ {"memory-operational-write", "autonomy.promote"} \in SUBSET Prohibited
        /\ {"action.execute"} \in SUBSET Prohibited
        /\ {"experiment.activate", "experiment.rollback"} \in SUBSET Prohibited
    BY DEF Prohibited
  <2> QED BY <1>1, <2>1 DEF GovernanceSkills
<1>5. \A s \in Skills :
         /\ s.id = "evidence-analysis" => s.required = {"source-provenance"}
         /\ s.id = "governance-review" => s.required = {"policy-version", "receipt-chain"}
  <2> DEFINE Asks(s) == /\ s.id = "evidence-analysis" => s.required = {"source-provenance"}
                        /\ s.id = "governance-review" => s.required = {"policy-version", "receipt-chain"}
           Others == {"economic-truth", "portfolio-analysis", "catalog-research", "supplier-analysis",
                    "customer-operations", "content-production", "product-launch", "ads-analysis",
                    "web-channel", "memory-learning", "research", "experimentation"}
  <2>1. \A id \in Others, approval \in BOOLEAN : \A allowed, forbidden, required :
           Asks(Skill(id, allowed, forbidden, required, approval))
    BY SkillFields
  <2>2. \A approval \in BOOLEAN : \A allowed, forbidden :
           /\ Asks(Skill("evidence-analysis", allowed, forbidden, {"source-provenance"}, approval))
           /\ Asks(Skill("governance-review", allowed, forbidden, {"policy-version", "receipt-chain"}, approval))
    BY SkillFields
  <2>3. /\ "economic-truth" \in Others /\ "portfolio-analysis" \in Others /\ "catalog-research" \in Others
        /\ "supplier-analysis" \in Others /\ "customer-operations" \in Others
        /\ "content-production" \in Others /\ "product-launch" \in Others /\ "ads-analysis" \in Others
        /\ "web-channel" \in Others /\ "memory-learning" \in Others /\ "research" \in Others
        /\ "experimentation" \in Others
    OBVIOUS
  <2> HIDE DEF Asks, Others
  <2>4. \A s \in AnalysisSkills : Asks(s)
    BY <2>1, <2>2, <2>3 DEF AnalysisSkills
  <2>5. \A s \in GrowthSkills : Asks(s)
    BY <2>1, <2>3 DEF GrowthSkills
  <2>6. \A s \in GovernanceSkills : Asks(s)
    BY <2>1, <2>2, <2>3 DEF GovernanceSkills
  <2>7. \A s \in Skills : Asks(s)
    BY <2>4, <2>5, <2>6 DEF Skills
  <2> QED BY <2>7 DEF Asks
<1>6. {"source-provenance"} \subseteq ProcessorKinds /\ {"policy-version", "receipt-chain"} \subseteq ProcessorKinds
  BY DEF ProcessorKinds
<1>7. \A s \in Skills : s.forbidden \subseteq Prohibited
  BY <1>2, <1>3, <1>4 DEF Skills
<1> QED BY <1>5, <1>6, <1>7 DEF SkillFits

\* The contracts of the directors and of the CEO, and the parents of the specialists.
DirectorIds ==
    {"finance-director", "portfolio-director", "supply-director", "operations-director",
     "growth-director", "expansion-director", "governance-director"}

LEMMA SpecialistPlaces ==
    \A c \in AllSpecialists : c.active = TRUE /\ c.budget = 10000 /\ c.parent \in DirectorIds
<1>1. \A id, parent, allowed, required, skills, risk :
         LET c == Specialist(id, parent, allowed, required, skills, risk)
         IN c.active = TRUE /\ c.budget = 10000 /\ c.parent = parent
  BY DEF Specialist
<1>2. \A c \in FinanceSpecialists \union PortfolioSpecialists :
         c.active = TRUE /\ c.budget = 10000 /\ c.parent \in DirectorIds
  BY <1>1 DEF FinanceSpecialists, PortfolioSpecialists, DirectorIds
<1>3. \A c \in SupplySpecialists \union OperationsSpecialists :
         c.active = TRUE /\ c.budget = 10000 /\ c.parent \in DirectorIds
  BY <1>1 DEF SupplySpecialists, OperationsSpecialists, DirectorIds
<1>4. \A c \in GrowthSpecialists :
         c.active = TRUE /\ c.budget = 10000 /\ c.parent \in DirectorIds
  BY <1>1 DEF GrowthSpecialists, DirectorIds
<1>5. \A c \in ExpansionSpecialists \union GovernanceSpecialists :
         c.active = TRUE /\ c.budget = 10000 /\ c.parent \in DirectorIds
  BY <1>1 DEF ExpansionSpecialists, GovernanceSpecialists, DirectorIds
<1> QED BY <1>2, <1>3, <1>4, <1>5 DEF AllSpecialists

\* A contract that may take an order: active, with a budget, and with granted capabilities.
Able(c) ==
    /\ c.active = TRUE /\ c.budget \in Nat /\ c.level \in {"ceo", "director", "specialist"}
    /\ c.allowed \in Seq(Granted) /\ c.allowed /= <<>>

\* One that delegates: it may delegate, and its evidence is what the processor claims.
Delegates(c) ==
    /\ c.level \in {"ceo", "director"} /\ DelegationCapability(c) \in ToSet(c.allowed)
    /\ c.required \subseteq ProcessorKinds /\ c.skills = {"evidence-analysis", "governance-review"}

LEMMA CeoDelegates == Able(Ceo) /\ Delegates(Ceo) /\ Ceo.level = "ceo" /\ Ceo.id = "ceo"
<1>1. /\ Ceo.active = TRUE /\ Ceo.budget = 100000 /\ Ceo.level = "ceo" /\ Ceo.id = "ceo"
      /\ Ceo.allowed = <<"plan.create", "work-order.create", "evidence.request", "brief.create">>
      /\ Ceo.required = {"company-state", "policy-version"}
      /\ Ceo.skills = {"evidence-analysis", "governance-review"}
  BY DEF Ceo
<1>2. {"plan.create", "work-order.create", "evidence.request", "brief.create"} \subseteq Granted
  BY DEF Granted, Capabilities
<1>3. Ceo.allowed \in Seq(Granted) /\ Ceo.allowed /= <<>>
  BY <1>1, <1>2
<1>4. DelegationCapability(Ceo) = Ceo.allowed[2] /\ 2 \in DOMAIN Ceo.allowed
  BY <1>1 DEF DelegationCapability
<1>5. DelegationCapability(Ceo) \in ToSet(Ceo.allowed)
  BY <1>4 DEF ToSet
<1> QED BY <1>1, <1>3, <1>5 DEF Able, Delegates, ProcessorKinds

LEMMA DirectorsDelegate ==
    \A d \in Directors : Able(d) /\ Delegates(d) /\ d.level = "director" /\ d.parent = "ceo"
<1> TAKE d \in Directors
<1>1. /\ d.active = TRUE /\ d.budget \in Nat /\ d.level = "director" /\ d.parent = "ceo"
      /\ d.allowed = <<"plan.create", "evidence.request", "proposal.create", "brief.create">>
      /\ d.required = {"account-state", "policy-version"}
      /\ d.skills = {"evidence-analysis", "governance-review"}
  BY DEF Directors, Director
<1>2. {"plan.create", "evidence.request", "proposal.create", "brief.create"} \subseteq Granted
  BY DEF Granted, Capabilities, ReadOnly
<1>3. d.allowed \in Seq(Granted) /\ d.allowed /= <<>>
  BY <1>1, <1>2
<1>4. DelegationCapability(d) = d.allowed[1] /\ 1 \in DOMAIN d.allowed
  BY <1>1 DEF DelegationCapability
<1>5. DelegationCapability(d) \in ToSet(d.allowed)
  BY <1>4 DEF ToSet
<1> QED BY <1>1, <1>3, <1>5 DEF Able, Delegates, ProcessorKinds

LEMMA AllAreAble == \A c \in Catalog : Able(c)
<1>1. \A c \in AllSpecialists : Able(c)
  <2> TAKE c \in AllSpecialists
  <2>1. c.level = "specialist" /\ c.allowed \in Seq(Capabilities) /\ c.allowed /= <<>>
    BY SpecialistsAreTame DEF Tame
  <2>2. c.allowed \in Seq(Granted)
    <3>1. Capabilities \subseteq Granted
      BY DEF Granted
    <3> QED BY <2>1, <3>1
  <2> QED BY <2>1, <2>2, SpecialistPlaces DEF Able
<1>2. \A c \in Catalog : c = Ceo \/ c \in Directors \/ c \in AllSpecialists
  BY DEF Catalog, AllSpecialists
<1> QED BY <1>1, <1>2, CeoDelegates, DirectorsDelegate

\* The chain of command of a contract: from the CEO, each the parent of the next, to itself.
ChainOf(leaf, chain) ==
    /\ chain \in Seq(Catalog) /\ Len(chain) = DepthFor(leaf.level) + 1 /\ Len(chain) \in 1..3
    /\ chain[1] = Ceo /\ chain[Len(chain)] = leaf
    /\ \A i \in 1..(Len(chain) - 1) :
         Delegates(chain[i]) /\ chain[i].id /= leaf.id /\ chain[i + 1].parent = chain[i].id

LEMMA ContractIsFound == \A c \in Catalog : Contract(c.id) = c
BY NamesAreUnique DEF Contract

LEMMA DirectorFound == \A id \in DirectorIds : Director(id) \in Directors /\ Director(id).id = id
BY DirectorFields DEF Directors, DirectorIds

LEMMA ChainsHold == \A leaf \in Catalog : ChainOf(leaf, ContractChain(leaf.id))
<1> TAKE leaf \in Catalog
<1> DEFINE chain == ContractChain(leaf.id)
<1>1. Contract(leaf.id) = leaf /\ Ceo \in Catalog /\ Contract("ceo") = Ceo
  BY ContractIsFound, CeoDelegates DEF Catalog
<1>2. Directors \subseteq Catalog
  BY DEF Catalog
<1>3. CASE leaf = Ceo
  <2>1. chain = <<leaf>> /\ DepthFor(leaf.level) = 0
    BY <1>1, <1>3, CeoDelegates DEF ContractChain, DepthFor
  <2> QED BY <1>3, <2>1 DEF ChainOf
<1>4. CASE leaf \in Directors
  <2>1. chain = <<Ceo, leaf>> /\ DepthFor(leaf.level) = 1
    BY <1>1, <1>4, DirectorsDelegate DEF ContractChain, DepthFor
  <2>2. leaf.id /= "ceo"
    BY <1>4, DirectorFields DEF Directors
  <2> QED BY <1>1, <1>4, <2>1, <2>2, CeoDelegates, DirectorsDelegate DEF ChainOf
<1>5. CASE leaf \in AllSpecialists
  <2> DEFINE d == Director(leaf.parent)
  <2>1. d \in Directors /\ d.id = leaf.parent /\ Contract(leaf.parent) = d
    BY <1>2, <1>5, SpecialistPlaces, DirectorFound, ContractIsFound
  <2>2. d.parent = "ceo" /\ Delegates(d) /\ d.level = "director"
    BY <2>1, DirectorsDelegate
  <2>3. leaf.level = "specialist"
    BY <1>5, SpecialistsAreTame
  <2> HIDE DEF d
  <2>4. chain = <<Ceo, d, leaf>> /\ DepthFor(leaf.level) = 2
    BY <1>1, <2>1, <2>2, <2>3 DEF ContractChain, DepthFor
  <2>5. leaf /= Ceo /\ leaf /= d
    BY <2>2, <2>3, CeoDelegates
  <2>6. leaf.id /= Ceo.id /\ leaf.id /= d.id
    BY <1>1, <1>2, <2>1, <2>5, NamesAreUnique
  <2> QED BY <1>1, <1>2, <2>1, <2>2, <2>4, <2>6, CeoDelegates DEF ChainOf
<1> QED BY <1>3, <1>4, <1>5 DEF Catalog, AllSpecialists

\* An order names a capability of its agent, or none; for any other resolveCapability throws.
Unnamed(requested) == requested = ""
MayAsk(leaf, requested) == Unnamed(requested) \/ requested \in ToSet(leaf.allowed)

\* What an order asks of its leaf is a capability of the leaf.
LEMMA LeafIsAsked ==
    ASSUME NEW leaf \in Catalog, NEW requested, MayAsk(leaf, requested)
    PROVE  ResolveCapability(requested, leaf) \in ToSet(leaf.allowed)
<1> DEFINE preferred == <<"proposal.create", "brief.create", "evidence.request">>
           found == {i \in 1..Len(preferred) : preferred[i] \in ToSet(leaf.allowed)}
           selected == SelectInSeq(preferred, LAMBDA c : c \in ToSet(leaf.allowed))
<1>1. leaf.allowed \in Seq(Granted) /\ leaf.allowed /= <<>>
  BY AllAreAble DEF Able
<1>2. Head(leaf.allowed) \in ToSet(leaf.allowed)
  <2> DEFINE a == leaf.allowed
  <2> HIDE DEF a
  <2>1. a \in Seq(Granted) /\ a /= <<>>
    BY <1>1 DEF a
  <2>2. Head(a) = a[1] /\ 1 \in DOMAIN a
    BY <2>1
  <2>3. Head(a) \in ToSet(a)
    BY <2>2 DEF ToSet
  <2> QED BY <2>3 DEF a
<1>7. Len(preferred) = 3
  OBVIOUS
<1> HIDE DEF preferred
<1>3. selected = IF found /= {} THEN Min(found) ELSE 0
  BY DEF SelectInSeq
<1>4. ASSUME found /= {} PROVE Min(found) \in found
  <2>1. found \subseteq Nat
    BY <1>7
  <2> HIDE DEF found
  <2>2. \E n \in found : \A m \in found : n <= m
    BY <1>4, <2>1, LeastNumber
  <2> QED BY <2>2 DEF Min
<1>5. selected > 0 => preferred[selected] \in ToSet(leaf.allowed)
  BY <1>3, <1>4
<1>6. ResolveCapability(requested, leaf) =
         IF ~Unnamed(requested) THEN requested
         ELSE IF selected > 0 THEN preferred[selected] ELSE Head(leaf.allowed)
  BY DEF ResolveCapability, preferred, Unnamed
<1> HIDE DEF selected
<1> QED BY <1>2, <1>5, <1>6 DEF MayAsk

\* No contract of a chain denies a capability that it lists; what it lacks is all it can ask for.
LEMMA NoneDenies ==
    ASSUME NEW c \in Catalog, NEW leafId, NEW requested, NEW packKinds, NEW budget \in Nat,
           GovernedRequest(c, leafId, requested, packKinds, budget).action \in ToSet(c.allowed)
    PROVE  GovernedVerdict(c, leafId, requested, packKinds, budget)
             = IF GovernedMissing(c, packKinds) = {} THEN "allow" ELSE "ask"
<1> DEFINE r == GovernedRequest(c, leafId, requested, packKinds, budget)
           skills == SkillsOf(c)
<1>1. Able(c)
  BY AllAreAble
<1>2. /\ r.available = ProcessorKinds \union packKinds /\ r.autonomy = "inform"
      /\ r.depth = DepthFor(c.level) /\ r.spent = 0 /\ r.policy = TRUE
      /\ r.requested = IF budget < c.budget THEN budget ELSE c.budget
  BY DEF GovernedRequest
<1>3. r.action \in ToSet(c.allowed)
  OBVIOUS
<1> HIDE DEF r
<1>4. r.action \in Granted
  BY <1>1, <1>3 DEF Able, ToSet
<1>5. \A s \in skills : s.forbidden \subseteq Prohibited
  BY SkillsFit DEF SkillsOf, SkillFits
<1>6. ActionAllowed(c, skills, r.action)
  <2>1. r.action \notin ForbiddenCapabilities(c, skills)
    BY <1>4, <1>5, GrantedIsNotProhibited DEF ForbiddenCapabilities, Prohibited
  <2> QED BY <1>3, <2>1 DEF ActionAllowed, AllowedCapabilities
<1>7. BudgetAllowed(c, r.requested, r.spent)
  BY <1>1, <1>2 DEF BudgetAllowed, Able
<1>8. GovernedMissing(c, packKinds) = MissingKinds(c, skills, r.available)
  BY <1>2 DEF GovernedMissing
<1>9. GovernedVerdict(c, leafId, requested, packKinds, budget) = Preflight(c, skills, r)
  BY DEF GovernedVerdict, r
<1> HIDE DEF skills
<1>10. Preflight(c, skills, r) = IF MissingKinds(c, skills, r.available) = {} THEN "allow" ELSE "ask"
  BY <1>1, <1>2, <1>6, <1>7 DEF Preflight, Able
<1> QED BY <1>8, <1>9, <1>10

LEMMA DelegatesLackNothing ==
    ASSUME NEW c \in Catalog, Delegates(c), NEW packKinds
    PROVE  GovernedMissing(c, packKinds) = {}
<1>1. \A s \in SkillsOf(c) : s.required \subseteq ProcessorKinds
  BY SkillsFit DEF SkillsOf, SkillFits, Delegates
<1> QED BY <1>1 DEF GovernedMissing, MissingKinds, RequiredKinds, Delegates

-----------------------------------------------------------------------------
(* The plan of an objective.                                               *)

Outranks(score, a, b) ==
    \/ score[a.id] > score[b.id]
    \/ score[a.id] = score[b.id] /\ Name(a.id) < Name(b.id)

\* The contracts an objective names.
Named(contracts, score) == {c \in contracts : score[c.id] > 0}

\* They are all ranked, each once.
LEMMA RankingIsWhole ==
    ASSUME NEW contracts, contracts \subseteq Agents, NEW score \in [{c.id : c \in contracts} -> Nat]
    PROVE  LET named == Named(contracts, score)
               ranked == ScoreContracts(contracts, score)
           IN /\ IsFiniteSet(named)
              /\ ranked \in [1..Cardinality(named) -> named]
              /\ \A i, j \in 1..Cardinality(named) : ranked[i] = ranked[j] => i = j
<1> DEFINE named == Named(contracts, score)
           R == {p \in named \X named : Outranks(score, p[1], p[2])}
           name == [c \in named |-> Name(c.id)]
           ranked == ScoreContracts(contracts, score)
<1>1. /\ named \subseteq Agents
      /\ \A c \in named : score[c.id] \in Nat /\ Name(c.id) \in 1..36
      /\ \A c, d \in named : Name(c.id) = Name(d.id) => c = d
  BY NamesAreListed DEF Named
<1>2. IsFiniteSet(named)
  <2>1. name \in Injection(named, 1..36)
    BY <1>1 DEF Injection, IsInjective
  <2> HIDE DEF named, name
  <2>2. IsFiniteSet(1..36)
    <3>1. 1 \in Int /\ 36 \in Int
      OBVIOUS
    <3> QED BY <3>1, FS_Interval
  <2> QED BY <2>1, <2>2, FS_Injection
<1>3. \A c, d \in named : <<c, d>> \in R <=> Outranks(score, c, d)
  OBVIOUS
<1>4. ranked = [i \in 1..Cardinality(named) |->
                  CHOOSE c \in named : Cardinality({d \in named : Outranks(score, d, c)}) = i - 1]
  BY DEF ScoreContracts, InOrder, Outranks, Named
<1>5. \A c \in named : Cardinality({d \in named : Outranks(score, d, c)}) = Place(c, named, R)
  <2> SUFFICES ASSUME NEW c \in named
               PROVE  {d \in named : Outranks(score, d, c)} = {d \in named : <<d, c>> \in R}
    BY DEF Place
  <2> QED BY <1>3
<1> HIDE DEF named, R, ranked
<1>6. /\ \A c, d \in named : c /= d => <<c, d>> \in R \/ <<d, c>> \in R
      /\ \A c \in named : <<c, c>> \notin R
      /\ \A c, d, e \in named : <<c, d>> \in R /\ <<d, e>> \in R => <<c, e>> \in R
  BY <1>1, <1>3 DEF Outranks
<1>7. \A i \in 1..Cardinality(named) : \E c \in named : Place(c, named, R) = i - 1
  BY <1>2, <1>6, PlacesAreFilled
<1>8. \A i \in 1..Cardinality(named) : ranked[i] \in named /\ Place(ranked[i], named, R) = i - 1
  BY <1>4, <1>5, <1>7
<1>9. Cardinality(named) \in Nat
  BY <1>2, FS_CardinalityType
<1>10. \A i, j \in 1..Cardinality(named) : ranked[i] = ranked[j] => i = j
  BY <1>8, <1>9
<1>11. ranked \in [1..Cardinality(named) -> named]
  BY <1>4, <1>8
<1> QED BY <1>2, <1>10, <1>11 DEF named, ranked

\* What a plan gives out are equal shares of its budget.
LEMMA SharesAreWithin ==
    ASSUME NEW n \in Nat, NEW budget \in Nat, NEW tasks, DOMAIN tasks = 1..n,
           n > 0 => \A i \in 1..n : tasks[i].budget = budget \div n
    PROVE  MapThenSumSet(LAMBDA i : tasks[i].budget, DOMAIN tasks) <= budget
<1> DEFINE S == 1..n
           share == IF n > 0 THEN budget \div n ELSE 0
           f == [i \in S |-> share]
           Sums(g) == g = [s \in SUBSET S |->
              IF s = {} THEN 0 ELSE tasks[CHOOSE x \in s : TRUE].budget + g[s \ {CHOOSE x \in s : TRUE}]]
           sum == CHOOSE g : Sums(g)
<1>1. IsFiniteSet(S) /\ Cardinality(S) = n
  BY FS_Interval
<1>2. \A s \in SUBSET S : s /= {} => (CHOOSE x \in s : TRUE) \in S
  OBVIOUS
<1>3. share \in Nat /\ share * n <= budget
  OBVIOUS
<1>4. \A i \in S : f[i] = share /\ tasks[i].budget = share
  OBVIOUS
<1>5. ASSUME NEW g PROVE Adds(g, f, S) <=> Sums(g)
  <2>1. \A s \in SUBSET S : s /= {} => tasks[CHOOSE x \in s : TRUE].budget = f[CHOOSE x \in s : TRUE]
    BY <1>2, <1>4
  <2> HIDE DEF f, S
  <2> QED BY <2>1 DEF Adds
<1>6. MapThenSumSet(LAMBDA i : tasks[i].budget, DOMAIN tasks) = sum[S]
  BY DEF MapThenSumSet, MapThenFoldSet
<1> HIDE DEF Sums, f, S, share
<1>7. \E g : Adds(g, f, S)
  BY <1>1, SumExists
<1>8. Adds(sum, f, S)
  BY <1>5, <1>7
<1> HIDE DEF sum
<1>9. sum[S] <= share * Cardinality(S) /\ sum[S] \in Nat
  <2>1. \A i \in S : f[i] \in Nat /\ share <= f[i] /\ f[i] <= share
    BY <1>3, <1>4
  <2>2. IsFiniteSet(S) /\ share \in Nat
    BY <1>1, <1>3
  <2> QED BY ONLY <2>1, <2>2, <1>8, SumBounded
<1> QED BY <1>1, <1>3, <1>6, <1>9

\* The plan of an objective stands: what PlansKeepTheirBounds asks of it.
PlanStands(plan, contracts, score, budget) ==
    LET tasks == plan.tasks
    IN /\ plan.clarify = (\A id \in DOMAIN score : score[id] = 0)
       /\ Len(tasks) <= 5
       /\ \A i, j \in DOMAIN tasks : tasks[i].agent = tasks[j].agent => i = j
       /\ \A i \in DOMAIN tasks :
            /\ tasks[i].action \in ToSet(Contract(tasks[i].agent).allowed) \ GlobalForbidden
            /\ contracts \subseteq AllSpecialists => tasks[i].action \in ReadOnly
       /\ MapThenSumSet(LAMBDA i : tasks[i].budget, DOMAIN tasks) <= budget

LEMMA PlansStand ==
    ASSUME NEW contracts, contracts \subseteq Agents, NEW score \in [{c.id : c \in contracts} -> Nat],
           NEW limit \in Int, NEW budget \in Nat
    PROVE  PlanStands(PlanFor(contracts, score, limit, budget), contracts, score, budget)
<1> DEFINE named == Named(contracts, score)
           ranked == ScoreContracts(contracts, score)
           n == Min({TaskLimit(limit), Len(ranked)})
           chosen == SubSeq(ranked, 1, n)
           plan == PlanFor(contracts, score, limit, budget)
           tasks == plan.tasks
<1>1. /\ IsFiniteSet(named) /\ ranked \in [1..Cardinality(named) -> named]
      /\ \A i, j \in 1..Cardinality(named) : ranked[i] = ranked[j] => i = j
  BY RankingIsWhole
<1>2. Cardinality(named) \in Nat
  BY <1>1, FS_CardinalityType
<1>3. ranked \in Seq(named) /\ Len(ranked) = Cardinality(named)
  <2> HIDE DEF named, ranked
  <2> QED BY <1>1, <1>2
<1>4. TaskLimit(limit) \in 1..5
  BY DEF TaskLimit
<1>5. n \in Nat /\ n <= 5 /\ n <= Cardinality(named) /\ (n = 0 <=> Cardinality(named) = 0)
  <2>1. n = IF TaskLimit(limit) <= Len(ranked) THEN TaskLimit(limit) ELSE Len(ranked)
    BY <1>2, <1>3, <1>4 DEF Min
  <2> QED BY <1>2, <1>3, <1>4, <2>1
<1>6. /\ chosen \in Seq(named) /\ Len(chosen) = n /\ DOMAIN chosen = 1..n
      /\ \A i \in 1..n : chosen[i] = ranked[i]
  <2> HIDE DEF named, ranked, n
  <2> QED BY <1>2, <1>3, <1>5
<1>7. /\ plan.clarify = (chosen = <<>>)
      /\ tasks = Tasks(chosen, score, budget)
  BY DEF PlanFor
<1>8. /\ DOMAIN tasks = 1..n
      /\ \A i \in 1..n : /\ tasks[i].agent = chosen[i].id /\ tasks[i].action = TaskAction(chosen[i])
                         /\ tasks[i].budget = Share(chosen, budget)
  <2> HIDE DEF chosen, tasks
  <2> QED BY <1>6, <1>7 DEF Tasks
<1>9. n > 0 => Share(chosen, budget) = budget \div n
  BY <1>6 DEF Share
<1>10. \A i \in 1..n : chosen[i] \in contracts /\ chosen[i] \in Agents
  <2>1. \A i \in 1..n : chosen[i] \in named
    <3> HIDE DEF named, chosen, n
    <3> QED BY <1>6
  <2> QED BY <2>1 DEF Named
<1>11. \A i, j \in 1..n : chosen[i] = chosen[j] => i = j
  BY <1>1, <1>2, <1>5, <1>6
<1>12. plan.clarify = (\A id \in DOMAIN score : score[id] = 0)
  <2>1. n = 0 <=> named = {}
    BY <1>1, <1>5, FS_EmptySet
  <2>2. named = {} <=> \A c \in contracts : score[c.id] = 0
    BY DEF Named
  <2>3. chosen = <<>> <=> n = 0
    <3> HIDE DEF chosen, n
    <3> QED BY <1>5, <1>6
  <2> QED BY <1>7, <2>1, <2>2, <2>3
<1> HIDE DEF named, ranked, n, chosen, plan, tasks
<1>13. Len(tasks) <= 5
  BY <1>5, <1>8
<1>14. \A i, j \in DOMAIN tasks : tasks[i].agent = tasks[j].agent => i = j
  BY <1>8, <1>10, <1>11, ContractsAreFound
<1>15. \A i \in DOMAIN tasks :
          /\ tasks[i].action \in ToSet(Contract(tasks[i].agent).allowed) \ GlobalForbidden
          /\ contracts \subseteq AllSpecialists => tasks[i].action \in ReadOnly
  BY <1>8, <1>10, ActionsAreAllowed
<1>16. MapThenSumSet(LAMBDA i : tasks[i].budget, DOMAIN tasks) <= budget
  BY <1>5, <1>8, <1>9, SharesAreWithin
<1> QED BY <1>12, <1>13, <1>14, <1>15, <1>16 DEF PlanStands, plan, tasks

-----------------------------------------------------------------------------
(* The account brain.                                                      *)

Dimension == [documents: Nat, missing: BOOLEAN, warnings: Nat, criticals: Nat]

LEMMA HealthyScores ==
    ASSUME NEW d \in Dimension, DimensionStatus(d) = "healthy"
    PROVE  ~Unscored(d) /\ DimensionScore(d) \in Nat
           /\ 7000 <= DimensionScore(d) /\ DimensionScore(d) <= 9000
<1>1. ~Unscored(d) /\ ~(DimensionScore(d) < 7000)
  BY DEF DimensionStatus
<1>2. DimensionScore(d) \in Nat /\ DimensionScore(d) <= 9000
  BY DEF DimensionScore, Dimension
<1> QED BY <1>1, <1>2

\* A rounded mean is no less than the least that is averaged.
LEMMA MeanIsAbove ==
    ASSUME NEW size \in Nat, size > 0, NEW total \in Nat, NEW low \in Nat, low * size <= total
    PROVE  (2 * total + size) \div (2 * size) >= low
<1> DEFINE a == 2 * total + size
           b == 2 * size
           q == a \div b
<1>1. a \in Nat /\ b \in Nat /\ b > 0 /\ q \in Int
  OBVIOUS
<1>2. a < (q + 1) * b
  <2> HIDE DEF a, b
  <2>1. a = b * q + (a % b) /\ a % b < b
    BY <1>1
  <2>2. (q + 1) * b = b * q + b
    BY <1>1
  <2> HIDE DEF q
  <2> QED BY <1>1, <2>1, <2>2
<1>3. low * b <= a
  <2>1. low * b = 2 * (low * size)
    OBVIOUS
  <2> QED BY <2>1
<1> HIDE DEF a, b, q
<1>4. low * b < (q + 1) * b
  BY <1>1, <1>2, <1>3
<1>5. low < q + 1
  BY <1>1, <1>4
<1> QED BY <1>1, <1>5 DEF q, a, b

LEMMA BrainsStand ==
    ASSUME NEW b, b.order \in Seq(DOMAIN b.read), b.order /= <<>>, ToSet(b.order) = DOMAIN b.read,
           b.read \in [DOMAIN b.read -> Dimension], RebuildBrain(b).priorities = <<>>
    PROVE  RebuildBrain(b).status = "complete" /\ RebuildBrain(b).score >= 7000
<1> DEFINE order == b.order
           read == b.read
           dims == DOMAIN read
           unhealthy == {i \in DOMAIN order : DimensionStatus(read[order[i]]) /= "healthy"}
           scored == {d \in dims : ~Unscored(read[d])}
           score == [d \in dims |-> DimensionScore(read[d])]
           Sums(g) == g = [s \in SUBSET scored |->
              IF s = {} THEN 0
              ELSE DimensionScore(read[CHOOSE x \in s : TRUE]) + g[s \ {CHOOSE x \in s : TRUE}]]
           sum == CHOOSE g : Sums(g)
           total == sum[scored]
           size == Cardinality(scored)
<1>1. DOMAIN order = 1..Len(order) /\ Len(order) \in Nat /\ 1 \in DOMAIN order
      /\ \A i \in DOMAIN order : order[i] \in dims
  OBVIOUS
<1>2. \A d \in dims : \E i \in DOMAIN order : order[i] = d
  BY DEF ToSet
<1>3. IsFiniteSet(dims) /\ dims /= {}
  <2>1. order \in [1..Len(order) -> dims]
    OBVIOUS
  <2> HIDE DEF order, dims
  <2>2. order \in Surjection(1..Len(order), dims)
    BY <1>1, <1>2, <2>1 DEF Surjection
  <2>3. 1 \in Int /\ Len(order) \in Int
    BY <1>1
  <2>4. IsFiniteSet(1..Len(order))
    BY <2>3, FS_Interval
  <2>5. IsFiniteSet(dims)
    BY <2>2, <2>4, FS_Surjection
  <2> QED BY <1>1, <2>5
<1>4. unhealthy = {}
  <2>1. IsFiniteSet(1..Len(order))
    <3>1. 1 \in Int /\ Len(order) \in Int
      BY <1>1
    <3> HIDE DEF order
    <3> QED BY <3>1, FS_Interval
  <2>2. unhealthy \in SUBSET (1..Len(order))
    BY <1>1
  <2>3. DOMAIN RebuildBrain(b).priorities = 1..Cardinality(unhealthy)
    BY DEF RebuildBrain, Priorities, InOrder
  <2>4. DOMAIN RebuildBrain(b).priorities = {}
    OBVIOUS
  <2> HIDE DEF unhealthy, order
  <2>5. IsFiniteSet(unhealthy)
    BY <2>1, <2>2, FS_Subset
  <2>6. Cardinality(unhealthy) \in Nat /\ 1..Cardinality(unhealthy) = {}
    BY <2>3, <2>4, <2>5, FS_CardinalityType
  <2> QED BY <2>5, <2>6, FS_EmptySet
<1>5. \A d \in dims : read[d] \in Dimension /\ DimensionStatus(read[d]) = "healthy"
  BY <1>2, <1>4
<1>6. \A d \in dims : /\ score[d] = DimensionScore(read[d])
                      /\ score[d] \in Nat /\ 7000 <= score[d] /\ score[d] <= 9000
  BY <1>5, HealthyScores
<1>7. \A d \in dims : ~Unscored(read[d])
  BY <1>5, HealthyScores
<1>8. scored = dims
  <2> HIDE DEF read, dims
  <2> QED BY <1>7
<1>9. RebuildBrain(b).status = "complete"
  <2>1. \A d \in dims : read[d].documents /= 0 /\ ~read[d].missing
    <3> HIDE DEF dims, read
    <3> QED BY ONLY <1>7 DEF Unscored
  <2> QED BY <1>3, <2>1 DEF RebuildBrain
<1>10. ASSUME NEW g PROVE Adds(g, score, dims) <=> Sums(g)
  <2>1. \A s \in SUBSET dims : s /= {} => (CHOOSE x \in s : TRUE) \in dims
    OBVIOUS
  <2>2. \A s \in SUBSET dims : s /= {} => DimensionScore(read[CHOOSE x \in s : TRUE]) = score[CHOOSE x \in s : TRUE]
    BY <1>6, <2>1
  <2> HIDE DEF score, dims, scored, read
  <2> QED BY <1>8, <2>2 DEF Adds
<1>11. RebuildBrain(b).score = IF scored = {} THEN Null ELSE (2 * total + size) \div (2 * size)
  BY DEF RebuildBrain, OverallScore, MapThenSumSet, MapThenFoldSet
<1> HIDE DEF Sums, score, dims, scored, read
<1>12. \E g : Adds(g, score, dims)
  BY <1>3, SumExists
<1>13. Adds(sum, score, dims)
  BY <1>10, <1>12
<1> HIDE DEF sum
<1>14. total \in Nat /\ 7000 * Cardinality(dims) <= total
  <2>1. total = sum[dims]
    BY <1>8
  <2>2. \A x \in dims : score[x] \in Nat /\ 7000 <= score[x] /\ score[x] <= 9000
    BY <1>6
  <2>3. 7000 \in Nat /\ 9000 \in Nat
    OBVIOUS
  <2> HIDE DEF total
  <2>4. sum[dims] \in Nat /\ 7000 * Cardinality(dims) <= sum[dims]
    BY ONLY <1>3, <1>13, <2>2, <2>3, SumBounded
  <2> QED BY <2>1, <2>4
<1>15. size \in Nat /\ size > 0 /\ size = Cardinality(dims)
  BY <1>3, <1>8, FS_CardinalityType, FS_EmptySet
<1> HIDE DEF total, size
<1>16. (2 * total + size) \div (2 * size) >= 7000
  BY <1>14, <1>15, MeanIsAbove
<1> QED BY <1>3, <1>8, <1>9, <1>11, <1>16

\* The two sets of contracts a plan is made from are of agents, a department's specialists.
LEMMA PlannersAreAgents ==
    Directors \subseteq Agents /\ \A d : Department(d) \subseteq AllSpecialists /\ Department(d) \subseteq Agents
<1>1. Ceo.level /= "specialist" /\ \A c \in Directors : c.level /= "specialist"
  BY DirectorFields DEF Ceo, Directors
<1>2. \A c \in Catalog : c = Ceo \/ c \in Directors \/ c \in AllSpecialists
  BY DEF Catalog, AllSpecialists
<1> QED BY <1>1, <1>2 DEF Department, Agents

-----------------------------------------------------------------------------
(* The runtime.                                                            *)

CompanyInv ==
    /\ part \in {"requests", "memory", "daemons", "analysis"} /\ incidents \in 0..MaxIncidents
    /\ RequestsInv /\ MemoryInv /\ DaemonsInv

\* An incident is counted once, and no component takes one back.
LEMMA IncidentsGrow ==
    ASSUME incidents \in 0..MaxIncidents, [Next]_vars
    PROVE  incidents' \in 0..MaxIncidents /\ incidents' >= incidents
<1>1. incidents' \in {incidents, incidents + 1} /\ (incidents' /= incidents => incidents < MaxIncidents)
  <2>1. CASE RequestsNext
    BY <2>1 DEF RequestsNext, PublishMessage, RequestEvidence, RouterStep, LeaseRequests, Respond, SaveResponse,
                CloseRequest, FailRequest, RouterThrows, RouterLost, LeaseEnds, RetryComes, Incident
  <2>2. CASE MemoryNext
    BY <2>2 DEF MemoryNext, Remember, MarkSuperseded, InsertEntry, WriterLost, Incident
  <2>3. CASE DaemonsNext
    BY <2>3 DEF DaemonsNext, EvidenceChanges, DaemonLeaseEnds, IntervalPasses, SchedulerStep, LeaseDaemons,
                ReadSignals, BuildDaemonPack, EnqueueOrder, CompleteState, SaveRun, RecordFailure,
                SchedulerThrows, SchedulerLost, Incident
  <2>4. CASE UNCHANGED incidents
    BY <2>4
  <2> QED BY <2>1, <2>2, <2>3, <2>4 DEF Next, Concluding, vars
<1> QED BY <1>1, IncidentsAssumption

LEMMA CompanyInvariant == Spec => []CompanyInv
<1>1. Init => CompanyInv
  BY InitRequests, InitMemory, InitDaemons, IncidentsAssumption DEF Init, CompanyInv
<1>2. ASSUME CompanyInv, [Next]_vars
      PROVE  CompanyInv'
  <2>1. incidents' \in 0..MaxIncidents /\ incidents' >= incidents /\ incidents \in Nat /\ incidents' \in Nat
    BY <1>2, IncidentsGrow, IncidentsAssumption DEF CompanyInv
  <2>2. UNCHANGED incidents \/ incidents' /= 0
    BY <2>1
  <2>3. part' = part
    BY <1>2 DEF Next, Requesting, Remembering, Scheduling, Concluding, vars
  <2>4. RequestsInv'
    <3>1. RequestsNext \/ UNCHANGED requestVars
      BY <1>2 DEF Next, Requesting, Remembering, Scheduling, Concluding, vars
    <3> QED BY <1>2, <2>1, <2>2, <3>1, StepRequests, RestRequests, RequestsAssumption DEF CompanyInv
  <2>5. MemoryInv'
    <3>1. MemoryNext \/ UNCHANGED memoryVars
      BY <1>2 DEF Next, Requesting, Remembering, Scheduling, Concluding, vars
    <3> QED BY <1>2, <2>1, <3>1, StepMemory, RestMemory DEF CompanyInv
  <2>6. DaemonsInv'
    <3>1. DaemonsNext \/ UNCHANGED daemonVars
      BY <1>2 DEF Next, Requesting, Remembering, Scheduling, Concluding, vars
    <3> QED BY <1>2, <3>1, StepDaemons, RestDaemons, DaemonsAssumption DEF CompanyInv
  <2> QED BY <1>2, <2>1, <2>3, <2>4, <2>5, <2>6 DEF CompanyInv
<1> QED BY <1>1, <1>2, PTL DEF Spec

\* The state of the company intelligence runtime is always what its tables can hold.
THEOREM TypeCorrect == Spec => []TypeOK
<1>1. CompanyInv => TypeOK
  BY DEF CompanyInv, RequestsInv, MemoryInv, DaemonsInv, TypeOK
<1> QED BY <1>1, CompanyInvariant, PTL

\* A request for evidence is closed as answered only over a stored response, and until a call
\* fails or a lease runs out under its holder the response says what the request says
\* (closeRequest, evidence_responses).
THEOREM AnswersRestOnResponses == Spec => []AnswersAreBacked
<1>1. CompanyInv => AnswersAreBacked
  BY DEF CompanyInv, RequestsInv, BackedInv, UntroubledInv, AnswersAreBacked
<1> QED BY <1>1, CompanyInvariant, PTL

\* What is remembered as superseded has a successor, and what supersedes has replaced its
\* target, unless a call failed between the two writes (the memory service's remember).
THEOREM KnowledgeIsReplaced == Spec => []SupersessionIsWhole
<1>1. CompanyInv => SupersessionIsWhole
  BY DEF CompanyInv, MemoryInv
<1> QED BY <1>1, CompanyInvariant, PTL

\* Two entries one scope sees have the same revision only when their writers overlapped.
THEOREM RevisionsGrow == Spec => []RevisionsForkOnlyByOverlap
<1>1. CompanyInv => RevisionsForkOnlyByOverlap
  BY DEF CompanyInv, MemoryInv
<1> QED BY <1>1, CompanyInvariant, PTL

\* However schedulers overlap, die or fail between two writes, a daemon's state never calls
\* signals seen for which no order was recorded.
THEOREM SeenMeansOrdered == Spec => []SeenOnlyIfOrdered
<1>1. CompanyInv => SeenOnlyIfOrdered
  BY DEF CompanyInv, DaemonsInv
<1> QED BY <1>1, CompanyInvariant, PTL

\* A supply workflow is proposed only on fresh evidence of its listing and with its limits, a
\* product is judged with confidence only on fresh and whole evidence and never retired
\* while it sells, a run of a model that was let through is paid within its budget and not
\* refused for its cost, a daemon orders only with all the evidence it asked for, a brain with
\* nothing to do has read every dimension and found none lacking, and the tasks of a plan go to
\* different agents that may do them and share a budget; whatever the calls read
\* (companySupplyWorkflowService's readiness, classifyProductLifecycle, ShadowLlmService.run,
\* OperationalIntelligenceService, rebuildAccountBrain, companyPlanner).
THEOREM ConclusionsAreBacked == Spec => []ConclusionsRestOnEvidence
<1>1. AnalysisInv => WorkflowsRestOnEvidence
  <2> SUFFICES ASSUME AnalysisInv, Concluded("workflow"), conclusion.status = "proposed"
               PROVE  WorkflowsRestOnEvidence
    BY DEF WorkflowsRestOnEvidence
  <2>1. conclusion = RunWorkflow(study)
    BY DEF AnalysisInv, Concluded, Conclusion
  <2> QED BY <2>1, WorkflowsStand DEF WorkflowsRestOnEvidence
<1>2. AnalysisInv => VerdictsRestOnEvidence
  <2> SUFFICES ASSUME AnalysisInv, Concluded("lifecycle")
               PROVE  VerdictsRestOnEvidence
    BY DEF VerdictsRestOnEvidence
  <2>1. conclusion = ClassifyProductLifecycle(study)
    BY DEF AnalysisInv, Concluded, Conclusion
  <2>2. study.sold30 = "some" => study.sold90 = "some"
    BY StudiesAssumption DEF AnalysisInv, Concluded
  <2> QED BY <2>1, <2>2, VerdictsStand DEF VerdictsRestOnEvidence
<1>3. AnalysisInv => RunsKeepTheirBudget
  <2> SUFFICES ASSUME AnalysisInv, Concluded("run")
               PROVE  RunsKeepTheirBudget
    BY DEF RunsKeepTheirBudget
  <2>1. study \in Studies /\ study.call = "run" /\ conclusion = RunModel(study)
    BY DEF AnalysisInv, Concluded, Conclusion
  <2> QED BY <2>1, RunsStand DEF RunsKeepTheirBudget
<1>4. AnalysisInv => OrdersRestOnEvidence
  <2> SUFFICES ASSUME AnalysisInv, Concluded("daemon")
               PROVE  OrdersRestOnEvidence
    BY DEF OrdersRestOnEvidence
  <2>1. /\ study \in Studies /\ study.call = "daemon" /\ conclusion = DaemonOutcome(study)
    BY DEF AnalysisInv, Concluded, Conclusion
  <2>2. \E x \in DaemonCatalog : x.id = study.of
    BY <2>1, DaemonsOfTheCatalog
  <2> QED BY <2>1, <2>2, OrdersStand DEF OrdersRestOnEvidence
<1>5. AnalysisInv => BrainsRestOnEvidence
  <2> SUFFICES ASSUME AnalysisInv, Concluded("brain"), conclusion.priorities = <<>>
               PROVE  BrainsRestOnEvidence
    BY DEF BrainsRestOnEvidence
  <2>1. study \in Studies /\ study.call = "brain" /\ conclusion = RebuildBrain(study)
    BY DEF AnalysisInv, Concluded, Conclusion
  <2>2. /\ study.order \in Seq(DOMAIN study.read) /\ study.order /= <<>>
        /\ ToSet(study.order) = DOMAIN study.read /\ study.read \in [DOMAIN study.read -> Dimension]
    BY <2>1, StudiesAssumption DEF Dimension
  <2> QED BY <2>1, <2>2, BrainsStand DEF BrainsRestOnEvidence
<1>6. AnalysisInv => PlansKeepTheirBounds
  <2> SUFFICES ASSUME AnalysisInv, Concluded("plan") \/ Concluded("department")
               PROVE  PlansKeepTheirBounds
    BY DEF PlansKeepTheirBounds
  <2>1. study \in Studies /\ study.limit \in Int /\ study.budget \in Nat
    BY StudiesAssumption DEF AnalysisInv, Concluded
  <2>2. ASSUME study.call = "plan" PROVE PlanStands(conclusion, Directors, study.score, study.budget)
    <3>1. conclusion = PlanFor(Directors, study.score, study.limit, study.budget)
      BY <2>2 DEF AnalysisInv, Concluded, Conclusion, PlanCompanyObjective
    <3>2. study.score \in [{c.id : c \in Directors} -> Nat]
      BY <2>1, <2>2, StudiesAssumption
    <3>3. Directors \subseteq Agents
      BY PlannersAreAgents
    <3> QED BY ONLY <2>1, <3>1, <3>2, <3>3, PlansStand
  <2>3. ASSUME study.call = "department"
        PROVE  PlanStands(conclusion, Department(study.of), study.score, study.budget)
    <3>1. conclusion = PlanFor(Department(study.of), study.score, study.limit, study.budget)
      BY <2>3 DEF AnalysisInv, Concluded, Conclusion, PlanDepartmentObjective
    <3>2. study.score \in [{c.id : c \in Department(study.of)} -> Nat]
      BY <2>1, <2>3, StudiesAssumption
    <3>3. Department(study.of) \subseteq Agents
      BY PlannersAreAgents
    <3> QED BY ONLY <2>1, <3>1, <3>2, <3>3, PlansStand
  <2>4. \E contracts : /\ PlanStands(conclusion, contracts, study.score, study.budget)
                       /\ Concluded("department") => contracts \subseteq AllSpecialists
    BY <2>2, <2>3, PlannersAreAgents DEF Concluded
  <2> QED BY <2>4 DEF PlanStands, PlansKeepTheirBounds
<1>7. AnalysisInv => ConclusionsRestOnEvidence
  BY <1>1, <1>2, <1>3, <1>4, <1>5, <1>6 DEF ConclusionsRestOnEvidence
<1> QED BY <1>7, AnalysisHolds, PTL

\* A work order for any agent of the catalog, whatever its pack and its budget, is denied at no
\* level of its chain of command, which is one level longer than the agent is deep: the CEO
\* and the director let it through, and the session of its agent is queued, or waits for
\* evidence that is missing, never for an approval (GovernedWorkOrderProcessor.process,
\* contractChain, runAgentPreflight, AgentOsService.createSession, over companyCatalog).
THEOREM OnlyEvidenceHoldsOrders ==
    ASSUME NEW leaf \in Catalog, NEW requested, MayAsk(leaf, requested),
           NEW packKinds, NEW budget \in Nat
    PROVE  LET chain == ContractChain(leaf.id)
               verdict(i) == GovernedVerdict(chain[i], leaf.id, requested, packKinds, budget)
           IN /\ ChainOf(leaf, chain)
              /\ \A i \in 1..(Len(chain) - 1) : verdict(i) = "allow"
              /\ SessionStatusFor(verdict(Len(chain)), GovernedMissing(leaf, packKinds))
                   = IF GovernedMissing(leaf, packKinds) = {} THEN "queued" ELSE "waiting-evidence"
<1> DEFINE chain == ContractChain(leaf.id)
           verdict(i) == GovernedVerdict(chain[i], leaf.id, requested, packKinds, budget)
<1>1. ChainOf(leaf, chain)
  BY ChainsHold
<1> HIDE DEF chain
<1>2. ASSUME NEW i \in 1..(Len(chain) - 1) PROVE verdict(i) = "allow"
  <2> DEFINE c == chain[i]
  <2>1. c \in Catalog /\ Delegates(c) /\ c.id /= leaf.id
    <3>1. chain \in Seq(Catalog) /\ Len(chain) \in 1..3
      BY <1>1 DEF ChainOf
    <3> DEFINE n == Len(chain)
    <3> HIDE DEF n
    <3>2. n \in 1..3 /\ i \in 1..(n - 1)
      BY <3>1 DEF n
    <3>3. i \in 1..n
      BY <3>2
    <3>4. chain[i] \in Catalog
      BY <3>1, <3>3, ElementOfSeq DEF n
    <3>5. Delegates(chain[i]) /\ chain[i].id /= leaf.id
      BY <1>1 DEF ChainOf
    <3> QED BY <3>4, <3>5
  <2> HIDE DEF c
  <2>2. GovernedRequest(c, leaf.id, requested, packKinds, budget).action = DelegationCapability(c)
    BY <2>1 DEF GovernedRequest
  <2>3. DelegationCapability(c) \in ToSet(c.allowed)
    BY <2>1 DEF Delegates
  <2>4. GovernedVerdict(c, leaf.id, requested, packKinds, budget) = "allow"
    BY <2>1, <2>2, <2>3, NoneDenies, DelegatesLackNothing
  <2> QED BY <2>4 DEF c
<1>3. verdict(Len(chain)) = IF GovernedMissing(leaf, packKinds) = {} THEN "allow" ELSE "ask"
  <2>1. GovernedRequest(leaf, leaf.id, requested, packKinds, budget).action = ResolveCapability(requested, leaf)
    BY DEF GovernedRequest
  <2>2. chain[Len(chain)] = leaf
    BY <1>1 DEF ChainOf
  <2>3. ResolveCapability(requested, leaf) \in ToSet(leaf.allowed)
    BY LeafIsAsked
  <2>4. GovernedVerdict(leaf, leaf.id, requested, packKinds, budget)
          = IF GovernedMissing(leaf, packKinds) = {} THEN "allow" ELSE "ask"
    BY <2>1, <2>3, NoneDenies
  <2> QED BY <2>2, <2>4
<1>4. SessionStatusFor(verdict(Len(chain)), GovernedMissing(leaf, packKinds))
         = IF GovernedMissing(leaf, packKinds) = {} THEN "queued" ELSE "waiting-evidence"
  BY <1>3 DEF SessionStatusFor
<1> QED BY <1>1, <1>2, <1>4 DEF chain
=============================================================================
