------------------------ MODULE OperatorSessionsProofs ------------------------
(***************************************************************************)
(* Theorems about OperatorSessions, for every set of sessions, threads and *)
(* clients, and any number of failures, restarts and expiries.             *)
(***************************************************************************)
EXTENDS OperatorSessions, TLAPS

-----------------------------------------------------------------------------
(* The server.  A pair that a session has now is nobody's predecessor, and *)
(* no two sessions have the same: so a pair can be replaced only once.     *)

PairsOK ==
    /\ parent \in Seq(Nat)
    /\ row \in [Sessions -> Row]
    /\ \A q \in Pairs : parent[q] <= Len(parent)
    /\ \A s \in Sessions : row[s].pair <= Len(parent)

Unreplaced ==
    \A s \in Sessions, q \in Pairs : row[s].pair # 0 => parent[q] # row[s].pair

OwnPair ==
    \A s, u \in Sessions : row[s].pair = row[u].pair /\ row[s].pair # 0 => s = u

PayloadFollows == \A s \in Sessions : row[s].payloadRevoked => row[s].revoked

ServerInv == PairsOK /\ Unreplaced /\ OwnPair /\ PayloadFollows /\ OneSuccessor

\* A session that is not revoked gets a pair that nobody has, the successor of p.
Issues(s, p) ==
    /\ parent' = Append(parent, p)
    /\ row' \in [Sessions -> Row]
    /\ row'[s].pair = Len(parent) + 1
    /\ row'[s].revoked = row[s].revoked
    /\ row'[s].payloadRevoked => row[s].payloadRevoked
    /\ ~row[s].revoked
    /\ \A u \in Sessions \ {s} : row'[u] = row[u]

LEMMA IssueStep ==
    ASSUME ServerInv, NEW s \in Sessions, NEW p \in Nat, Issues(s, p),
           p = row[s].pair
    PROVE  ServerInv'
<1> DEFINE n == Len(parent)
<1>1. /\ n \in Nat /\ parent' \in Seq(Nat) /\ Len(parent') = n + 1
      /\ parent'[n + 1] = p /\ \A q \in Pairs : parent'[q] = parent[q]
      /\ Pairs = 1..n /\ Pairs' = 1..(n + 1)
  BY DEF ServerInv, PairsOK, Issues, Pairs
<1>2. p <= n /\ \A q \in Pairs : parent[q] \in Nat /\ parent[q] <= n
  BY <1>1 DEF ServerInv, PairsOK, Row
<1>3. \A u \in Sessions : row[u].pair \in Nat /\ row[u].pair <= n
  BY DEF ServerInv, PairsOK, Row
<1>4. PairsOK'
  <2>1. row' \in [Sessions -> Row]
    BY DEF Issues
  <2>2. \A q \in 1..(n + 1) : parent'[q] <= n + 1
    <3>1. ASSUME NEW q \in 1..(n + 1) PROVE parent'[q] <= n + 1
      <4>1. CASE q = n + 1
        BY <1>1, <1>2, <4>1
      <4>2. CASE q \in 1..n
        BY <1>1, <1>2, <4>2
      <4> QED BY <1>1, <3>1, <4>1, <4>2
    <3> QED BY <3>1
  <2>3. \A u \in Sessions : row'[u].pair <= n + 1
    BY SMTT(30), <1>1, <1>3 DEF Issues
  <2> QED BY <1>1, <2>1, <2>2, <2>3 DEF PairsOK
<1>5. Unreplaced'
  <2>1. ASSUME NEW u \in Sessions, NEW q \in 1..(n + 1), row'[u].pair # 0
        PROVE parent'[q] # row'[u].pair
    <3>1. CASE u = s
      BY <1>1, <1>2, <2>1, <3>1 DEF Issues
    <3>2. CASE u # s /\ q = n + 1
      BY <1>1, <1>3, <2>1, <3>2 DEF Issues, ServerInv, OwnPair
    <3>3. CASE u # s /\ q \in 1..n
      BY <1>1, <2>1, <3>3 DEF Issues, ServerInv, Unreplaced
    <3> QED BY <1>1, <2>1, <3>1, <3>2, <3>3
  <2> QED BY <1>1, <2>1 DEF Unreplaced
<1>6. OwnPair'
  BY <1>1, <1>3 DEF Issues, ServerInv, OwnPair
<1>7. PayloadFollows'
  BY DEF Issues, ServerInv, PayloadFollows
<1>8. OneSuccessor'
  <2>1. \A q \in 1..n : p # 0 => parent[q] # p
    BY <1>1 DEF ServerInv, Unreplaced
  <2> QED BY <1>1, <2>1 DEF ServerInv, OneSuccessor
<1> QED BY <1>4, <1>5, <1>6, <1>7, <1>8 DEF ServerInv

\* What a step may do to the server: nothing, issue a pair as the
\* successor of the one the session has, or of none, or revoke a session.
IssuesSome ==
    \E s \in Sessions, p \in Nat : Issues(s, p) /\ p = row[s].pair

RevokesSome == \E t \in Threads : Revokes(target[t], held[t]) /\ UNCHANGED parent

LEMMA ReplacesIssues ==
    ASSUME ServerInv, NEW p, Replaces(p)
    PROVE  IssuesSome
<1>1. PICK s \in Sessions :
          /\ Matches(s, p)
          /\ row' = [row EXCEPT ![s].pair = Len(parent) + 1, ![s].payloadRevoked = FALSE]
  BY DEF Replaces
<1>2. row[s] \in Row /\ p = row[s].pair /\ p \in Nat /\ ~row[s].revoked
  BY <1>1 DEF Matches, Has, ServerInv, PairsOK, Row
<1>3. Len(parent) + 1 \in Nat /\ row \in [Sessions -> Row]
  BY DEF ServerInv, PairsOK
<1>4. /\ row' = [row EXCEPT ![s] = [row[s] EXCEPT !.pair = Len(parent) + 1,
                                                   !.payloadRevoked = FALSE]]
      /\ [row[s] EXCEPT !.pair = Len(parent) + 1, !.payloadRevoked = FALSE] \in Row
  BY <1>1, <1>2, <1>3 DEF Row
<1>5. Issues(s, p)
  BY <1>2, <1>3, <1>4 DEF Replaces, Issues, Row
<1> QED BY <1>2, <1>5 DEF IssuesSome

LEMMA EnrollIssues ==
    ASSUME ServerInv, NEW t \in Threads, Enroll(t)
    PROVE  IssuesSome
<1>1. PICK s \in Sessions : row[s] = Free /\ row' = [row EXCEPT ![s].pair = Len(parent) + 1]
  BY DEF Enroll
<1>2. Len(parent) + 1 \in Nat /\ row \in [Sessions -> Row] /\ row[s] \in Row
  BY DEF ServerInv, PairsOK
<1>3. /\ row' = [row EXCEPT ![s] = [row[s] EXCEPT !.pair = Len(parent) + 1]]
      /\ [row[s] EXCEPT !.pair = Len(parent) + 1] \in Row
  BY <1>1, <1>2 DEF Row
<1>4. ~row[s].revoked /\ row[s].pair = 0 /\ parent' = Append(parent, 0)
  BY <1>1 DEF Free, Enroll
<1>5. /\ row' \in [Sessions -> Row]
      /\ row'[s] = [row[s] EXCEPT !.pair = Len(parent) + 1]
      /\ \A u \in Sessions \ {s} : row'[u] = row[u]
  BY <1>2, <1>3
<1>6. /\ row'[s].pair = Len(parent) + 1
      /\ row'[s].revoked = row[s].revoked
      /\ row'[s].payloadRevoked = row[s].payloadRevoked
  BY <1>2, <1>5 DEF Row
<1>7. Issues(s, 0)
  BY <1>4, <1>5, <1>6 DEF Issues
<1> QED BY <1>4, <1>7 DEF IssuesSome

LEMMA ServerSteps ==
    ASSUME ServerInv, [Next]_vars
    PROVE  UNCHANGED server \/ IssuesSome \/ RevokesSome
<1>1. ASSUME NEW t \in Threads, Enroll(t) PROVE IssuesSome
  BY <1>1, EnrollIssues
<1>2. ASSUME NEW t \in Threads, Rotate(t) \/ ServerError(t) PROVE UNCHANGED server \/ IssuesSome
  BY <1>2, ReplacesIssues DEF Rotate, ServerError
<1>3. ASSUME NEW p, RotateOrphan(p) PROVE UNCHANGED server \/ IssuesSome
  BY <1>3, ReplacesIssues DEF RotateOrphan
<1>4. ASSUME NEW t \in Threads, Revoke(t) \/ CallFails(t) PROVE UNCHANGED server \/ RevokesSome
  BY <1>4 DEF Revoke, CallFails, RevokesSome, server
<1>5. ASSUME NEW t \in Threads,
             \/ StartRequest(t) \/ StartLogout(t) \/ SaveEnrolled(t) \/ Answered(t) \/ Refused(t)
             \/ Refresh(t) \/ FindRefresh(t) \/ RotateRefused(t) \/ SaveSession(t)
             \/ ClearSession(t) \/ Settle(t) \/ FindAccess(t) \/ Leave(t)
      PROVE UNCHANGED server
  BY <1>5 DEF StartRequest, StartLogout, SaveEnrolled, Answered, Refused, Refresh, FindRefresh,
              RotateRefused, SaveSession, ClearSession, Settle, FindAccess, Leave
<1>6. ASSUME \E p \in Pairs : Age(p) PROVE UNCHANGED server
  BY <1>6 DEF Age
<1>7. Restart \/ UNCHANGED vars => UNCHANGED server
  BY DEF Restart, vars
<1> QED BY <1>1, <1>2, <1>3, <1>4, <1>5, <1>6, <1>7 DEF Next, Proceed

LEMMA RevokeStep ==
    ASSUME ServerInv, RevokesSome
    PROVE  ServerInv' /\ \A s \in Sessions : row[s].payloadRevoked => row'[s].payloadRevoked
<1>1. PICK x : /\ row' = [row EXCEPT ![x].revoked = TRUE, ![x].payloadRevoked = TRUE]
               /\ UNCHANGED parent
  BY DEF RevokesSome, Revokes
<1>2. row \in [Sessions -> Row]
  BY DEF ServerInv, PairsOK
<1>3. \A s \in Sessions :
          /\ row'[s] \in Row /\ row'[s].pair = row[s].pair
          /\ row'[s].revoked = (row[s].revoked \/ s = x)
          /\ row'[s].payloadRevoked = (row[s].payloadRevoked \/ s = x)
  BY <1>1, <1>2 DEF Row
<1>4. row' \in [Sessions -> Row]
  BY <1>1, <1>2, <1>3
<1> QED BY <1>1, <1>3, <1>4
        DEF ServerInv, PairsOK, Unreplaced, OwnPair, PayloadFollows, OneSuccessor, Pairs

LEMMA ServerInit == Init => ServerInv
<1> SUFFICES ASSUME Init PROVE ServerInv
  OBVIOUS
<1>1. parent = <<>> /\ Pairs = {} /\ Len(parent) = 0 /\ parent \in Seq(Nat)
  BY DEF Init, Pairs
<1>2. row \in [Sessions -> Row] /\ \A s \in Sessions : row[s] = Free
  BY DEF Init, Free, Row
<1> QED BY <1>1, <1>2
        DEF ServerInv, PairsOK, Unreplaced, OwnPair, PayloadFollows, OneSuccessor, Free

LEMMA ServerStep ==
    ASSUME ServerInv, [Next]_vars
    PROVE  ServerInv' /\ \A s \in Sessions : row[s].payloadRevoked => row'[s].payloadRevoked
<1>1. CASE UNCHANGED server
  BY <1>1 DEF server, ServerInv, PairsOK, Unreplaced, OwnPair, PayloadFollows, OneSuccessor, Pairs
<1>2. CASE IssuesSome
  <2>1. PICK s \in Sessions, p \in Nat : Issues(s, p) /\ p = row[s].pair
    BY <1>2 DEF IssuesSome
  <2>2. \A u \in Sessions : row[u].payloadRevoked => row'[u].payloadRevoked
    BY <2>1 DEF Issues, ServerInv, PayloadFollows
  <2> QED BY <2>1, <2>2, IssueStep
<1>3. CASE RevokesSome
  BY <1>3, RevokeStep
<1> QED BY <1>1, <1>2, <1>3, ServerSteps

\* "Dos refresh simultáneos no pueden producir dos sesiones activas", whatever is
\* sent, lost or repeated: no pair is rotated twice.
THEOREM RotatedOnce == Spec => []OneSuccessor
<1>1. ServerInv => OneSuccessor
  BY DEF ServerInv
<1>2. Spec => []ServerInv
  BY ServerInit, ServerStep, PTL DEF Spec
<1> QED BY <1>1, <1>2, PTL

\* "La revocación es persistente": no step of any caller or handler makes a
\* revoked session look active again.
THEOREM RevocationIsFinal == Spec => RevokedStays
<1>1. ServerInv /\ [Next]_vars
        => [\A s \in Sessions : row[s].payloadRevoked => row'[s].payloadRevoked]_vars
  BY ServerStep
<1> QED BY <1>1, ServerInit, ServerStep, PTL DEF Spec, RevokedStays

-----------------------------------------------------------------------------
(* The app.  A client refreshes for one thread at a time, and only the     *)
(* threads of a client can be waiting for it.                              *)

Waits == {"fetch", "refused", "joined"} \cup InRefresh

ThreadsOK ==
    /\ inFlight \in [Clients -> Threads \cup {Nobody}]
    /\ pc       \in [Threads -> Place]
    /\ client   \in [Threads -> Clients \cup {Nobody}]
    /\ target   \in [Threads -> Sessions \cup {Nobody}]
    /\ \A t \in Threads : client[t] # Nobody <=> pc[t] \in Waits
    /\ \A t \in Threads, c \in Clients :
           inFlight[c] = t <=> client[t] = c /\ pc[t] \in InRefresh
    /\ \A t \in Threads : pc[t] = "joined" => inFlight[client[t]] # Nobody

ValuesOK ==
    /\ stored  \in Pairs \cup {0} /\ shown \in BOOLEAN
    /\ held    \in [Threads -> Pairs \cup {0}]
    /\ got     \in [Threads -> Pairs \cup {0}]
    /\ orphans \in SUBSET Pairs
    /\ aged    \in SUBSET Pairs /\ expired \in SUBSET aged
    /\ agings \in Nat /\ faults \in Nat

\* A thread that waits for a request or a refresh has sent a pair.
Sent == \A t \in Threads : pc[t] \in Waits => held[t] # 0

AppInv == ServerInv /\ ThreadsOK /\ ValuesOK /\ Sent

LEMMA AppInvImplies == AppInv => TypeOK
<1> SUFFICES ASSUME AppInv PROVE TypeOK
  OBVIOUS
<1>1. \A s \in Sessions : row[s].pair \in Pairs \cup {0}
  <2>1. Len(parent) \in Nat
    BY DEF AppInv, ServerInv, PairsOK
  <2>2. \A s \in Sessions : row[s].pair \in Nat /\ row[s].pair <= Len(parent)
    BY DEF AppInv, ServerInv, PairsOK, Row
  <2>3. ASSUME NEW n \in Nat, NEW p \in Nat, p <= n
        PROVE  p \in (1..n) \cup {0}
    BY <2>3
  <2> QED BY <2>1, <2>2, <2>3 DEF Pairs
<1> QED BY <1>1 DEF AppInv, ServerInv, PairsOK, ThreadsOK, ValuesOK, TypeOK, Waits

LEMMA AppInit == Init => AppInv
<1> SUFFICES ASSUME Init PROVE AppInv
  OBVIOUS
<1>1. ThreadsOK
  BY NobodyAssumption DEF Init, ThreadsOK, Place, Waits, InRefresh
<1>2. ValuesOK
  BY BoundsAssumption DEF Init, ValuesOK
<1>3. Sent
  BY DEF Init, Sent, Waits, InRefresh
<1> QED BY <1>1, <1>2, <1>3, ServerInit DEF AppInv

\* The pairs issued so far remain issued.
LEMMA PairsGrow ==
    ASSUME ServerInv, [Next]_vars
    PROVE  /\ Pairs \subseteq Pairs' /\ Len(parent) \in Nat
           /\ UNCHANGED parent \/ Len(parent') \in Pairs'
<1>1. Len(parent) \in Nat /\ parent \in Seq(Nat)
  BY DEF ServerInv, PairsOK
<1>2. CASE UNCHANGED server \/ RevokesSome
  BY <1>1, <1>2 DEF server, RevokesSome, Pairs
<1>3. CASE IssuesSome
  <2>1. PICK p \in Nat : parent' = Append(parent, p)
    BY <1>3 DEF IssuesSome, Issues
  <2>2. Len(parent') = Len(parent) + 1
    BY <1>1, <2>1
  <2> QED BY <1>1, <2>2 DEF Pairs
<1> QED BY <1>2, <1>3, ServerSteps

\* One thread goes on, outside of a refresh or within it.
Moves(t) ==
    /\ pc'     \in [Threads -> Place]
    /\ client' \in [Threads -> Clients \cup {Nobody}]
    /\ target' \in [Threads -> Sessions \cup {Nobody}]
    /\ \A d \in Threads \ {t} : pc'[d] = pc[d] /\ client'[d] = client[d] /\ target'[d] = target[d]
    /\ pc'[t] \in InRefresh <=> pc[t] \in InRefresh
    /\ pc'[t] \in InRefresh => client'[t] = client[t]
    /\ client'[t] # Nobody <=> pc'[t] \in Waits
    /\ pc'[t] # "joined"
    /\ UNCHANGED inFlight

LEMMA MoveStep ==
    ASSUME ThreadsOK, NEW t \in Threads, Moves(t)
    PROVE  ThreadsOK'
<1>1. \A d \in Threads : client'[d] # Nobody <=> pc'[d] \in Waits
  BY DEF ThreadsOK, Moves
<1>2. \A d \in Threads, c \in Clients :
         inFlight'[c] = d <=> client'[d] = c /\ pc'[d] \in InRefresh
  BY DEF ThreadsOK, Moves
<1>3. \A d \in Threads : pc'[d] = "joined" => inFlight'[client'[d]] # Nobody
  BY DEF ThreadsOK, Moves
<1> QED BY <1>1, <1>2, <1>3 DEF ThreadsOK, Moves

LEMMA ThreadsStep ==
    ASSUME ThreadsOK, [Next]_vars
    PROVE  ThreadsOK'
<1>1. ASSUME NEW t \in Threads,
             Enroll(t) \/ SaveEnrolled(t) \/ StartRequest(t) \/ Answered(t) \/ Refused(t)
      PROVE  Moves(t)
  BY <1>1, NobodyAssumption DEF ThreadsOK, Moves, Enroll, SaveEnrolled, StartRequest, Answered,
     Refused, Goes, Finish, device, Place, Waits, InRefresh
<1>2. ASSUME NEW t \in Threads,
             \/ FindRefresh(t) \/ Rotate(t) \/ RotateRefused(t) \/ SaveSession(t) \/ ClearSession(t)
             \/ ServerError(t)
      PROVE  Moves(t)
  BY <1>2 DEF ThreadsOK, Moves, FindRefresh, Rotate, RotateRefused, SaveSession, ClearSession,
     ServerError, Goes, device, Place, Waits, InRefresh
<1>3. ASSUME NEW t \in Threads, StartLogout(t) \/ FindAccess(t) \/ Revoke(t) \/ Leave(t)
      PROVE  Moves(t)
  BY <1>3 DEF ThreadsOK, Moves, StartLogout, FindAccess, Revoke, Leave, Goes, Finish, device,
     Place, Waits, InRefresh
<1>4. ASSUME NEW t \in Threads, CallFails(t)
      PROVE  Moves(t)
  BY <1>4 DEF ThreadsOK, Moves, CallFails, Goes, Finish, device, Place, Waits, InRefresh
<1>5. ASSUME NEW t \in Threads, Refresh(t)
      PROVE  ThreadsOK'
  <2>1. /\ pc[t] = "refused" /\ client[t] \in Clients
        /\ UNCHANGED <<client, target>>
    BY <1>5 DEF Refresh, ThreadsOK, Waits
  <2>2. CASE inFlight[client[t]] = Nobody
    <3>1. inFlight' = [inFlight EXCEPT ![client[t]] = t] /\ pc' = [pc EXCEPT ![t] = "find"]
      BY <1>5, <2>2 DEF Refresh, Goes
    <3>2. \A d \in Threads, c \in Clients :
             inFlight'[c] = d <=> client[d] = c /\ pc'[d] \in InRefresh
      BY <2>1, <2>2, <3>1, NobodyAssumption DEF ThreadsOK, InRefresh
    <3>3. \A d \in Threads : pc'[d] = "joined" => inFlight'[client[d]] # Nobody
      BY <2>1, <3>1, NobodyAssumption DEF ThreadsOK
    <3>4. \A d \in Threads : client[d] # Nobody <=> pc'[d] \in Waits
      BY <2>1, <3>1 DEF ThreadsOK, Waits, InRefresh
    <3>5. inFlight' \in [Clients -> Threads \cup {Nobody}] /\ pc' \in [Threads -> Place]
      BY <3>1 DEF ThreadsOK, Place
    <3> QED BY <2>1, <3>2, <3>3, <3>4, <3>5 DEF ThreadsOK
  <2>3. CASE inFlight[client[t]] # Nobody
    <3>1. UNCHANGED inFlight /\ pc' = [pc EXCEPT ![t] = "joined"]
      BY <1>5, <2>3 DEF Refresh, Goes
    <3>2. \A d \in Threads, c \in Clients :
             inFlight[c] = d <=> client[d] = c /\ pc'[d] \in InRefresh
      BY <2>1, <3>1 DEF ThreadsOK, InRefresh
    <3>3. \A d \in Threads : pc'[d] = "joined" => inFlight[client[d]] # Nobody
      BY <2>3, <3>1 DEF ThreadsOK
    <3>4. \A d \in Threads : client[d] # Nobody <=> pc'[d] \in Waits
      BY <2>1, <3>1 DEF ThreadsOK, Waits
    <3>5. pc' \in [Threads -> Place]
      BY <3>1 DEF ThreadsOK, Place
    <3> QED BY <2>1, <3>1, <3>2, <3>3, <3>4, <3>5 DEF ThreadsOK
  <2> QED BY <2>2, <2>3
<1>6. ASSUME NEW t \in Threads, Settle(t)
      PROVE  ThreadsOK'
  <2>1. PICK c \in Clients : c = client[t]
    BY <1>6 DEF Settle, ThreadsOK, Waits, InRefresh
  <2> DEFINE done == {d \in Threads : client[d] = c /\ (pc[d] = "joined" \/ inFlight[c] = d)}
  <2>2. /\ inFlight' = [inFlight EXCEPT ![c] = Nobody] /\ UNCHANGED target
        /\ pc'     = [d \in Threads |-> IF d \in done THEN "idle" ELSE pc[d]]
        /\ client' = [d \in Threads |-> IF d \in done THEN Nobody ELSE client[d]]
    BY <1>6, <2>1 DEF Settle, DoneWith
  <2>3. \A d \in Threads : d \in done <=> client[d] = c /\ pc[d] \in InRefresh \cup {"joined"}
    BY <2>1 DEF ThreadsOK
  <2> HIDE DEF done
  <2>4. \A d \in Threads, e \in Clients :
           inFlight'[e] = d <=> client'[d] = e /\ pc'[d] \in InRefresh
    BY <2>2, <2>3, NobodyAssumption DEF ThreadsOK, InRefresh
  <2>5. \A d \in Threads : pc'[d] = "joined" => inFlight'[client'[d]] # Nobody
    BY <2>2, <2>3 DEF ThreadsOK, Waits
  <2>6. \A d \in Threads : client'[d] # Nobody <=> pc'[d] \in Waits
    BY <2>2 DEF ThreadsOK, Waits, InRefresh
  <2>7. /\ inFlight' \in [Clients -> Threads \cup {Nobody}] /\ pc' \in [Threads -> Place]
        /\ client' \in [Threads -> Clients \cup {Nobody}]
    BY <2>2 DEF ThreadsOK, Place
  <2> QED BY <2>2, <2>4, <2>5, <2>6, <2>7 DEF ThreadsOK
<1>7. ASSUME Restart
      PROVE  ThreadsOK'
  BY <1>7, NobodyAssumption DEF Restart, ThreadsOK, Place, Waits, InRefresh
<1>8. CASE (\E p \in Pairs : RotateOrphan(p) \/ Age(p)) \/ UNCHANGED vars
  <2>1. UNCHANGED <<inFlight, pc, client, target>>
    BY <1>8 DEF RotateOrphan, Age, vars, device, threads
  <2> QED BY <2>1 DEF ThreadsOK
<1> QED BY <1>1, <1>2, <1>3, <1>4, <1>5, <1>6, <1>7, <1>8, MoveStep DEF Next, Proceed

LEMMA ValuesStep ==
    ASSUME AppInv, [Next]_vars
    PROVE  ValuesOK'
<1>0. /\ ServerInv /\ ThreadsOK /\ ValuesOK
      /\ Pairs \subseteq Pairs' /\ (UNCHANGED parent \/ Len(parent') \in Pairs')
  BY PairsGrow DEF AppInv
<1>1. stored' \in Pairs' \cup {0} /\ shown' \in BOOLEAN
  <2>1. \A t \in Threads : held[t] \in Pairs' \cup {0} /\ got[t] \in Pairs' \cup {0}
    BY <1>0 DEF ValuesOK
  <2>2. stored \in Pairs' \cup {0} /\ shown \in BOOLEAN
    BY <1>0 DEF ValuesOK
  <2>3. ASSUME NEW t \in Threads,
               SaveEnrolled(t) \/ SaveSession(t) \/ ClearSession(t) \/ Settle(t) \/ Leave(t) \/ Refresh(t)
        PROVE  stored' \in Pairs' \cup {0} /\ shown' \in BOOLEAN
    BY <2>1, <2>2, <2>3 DEF SaveEnrolled, SaveSession, ClearSession, Settle, Leave, Refresh
  <2>4. ASSUME Restart \/ (\E p \in Pairs : RotateOrphan(p) \/ Age(p)) \/ UNCHANGED vars
        PROVE  stored' \in Pairs' \cup {0} /\ shown' \in BOOLEAN
    BY <2>2, <2>4 DEF Restart, RotateOrphan, Age, vars, device
  <2>5. ASSUME NEW t \in Threads,
               \/ Enroll(t) \/ StartRequest(t) \/ StartLogout(t) \/ CallFails(t) \/ ServerError(t)
               \/ Answered(t) \/ Refused(t) \/ FindRefresh(t) \/ Rotate(t) \/ RotateRefused(t)
               \/ FindAccess(t) \/ Revoke(t)
        PROVE  stored' \in Pairs' \cup {0} /\ shown' \in BOOLEAN
    BY <2>2, <2>5 DEF Enroll, StartRequest, StartLogout, CallFails, ServerError, Answered, Refused,
       FindRefresh, Rotate, RotateRefused, FindAccess, Revoke, device
  <2> QED BY <2>3, <2>4, <2>5 DEF Next, Proceed
<1>2. held' \in [Threads -> Pairs' \cup {0}] /\ got' \in [Threads -> Pairs' \cup {0}]
  <2>1. held \in [Threads -> Pairs' \cup {0}] /\ got \in [Threads -> Pairs' \cup {0}]
        /\ stored \in Pairs' \cup {0}
    BY <1>0 DEF ValuesOK
  <2>2. ASSUME NEW t \in Threads, Enroll(t) \/ Rotate(t)
        PROVE  held' \in [Threads -> Pairs' \cup {0}] /\ got' \in [Threads -> Pairs' \cup {0}]
    <3>1. Len(parent') \in Pairs'
      <4>1. PICK p : parent' = Append(parent, p)
        BY <2>2 DEF Enroll, Rotate, Replaces
      <4>2. parent' # parent
        BY <1>0, <4>1 DEF ServerInv, PairsOK
      <4> QED BY <1>0, <4>2
    <3> QED BY <2>1, <2>2, <3>1 DEF Enroll, Rotate
  <2>3. ASSUME NEW t \in Threads,
               \/ SaveEnrolled(t) \/ StartRequest(t) \/ Answered(t) \/ StartLogout(t) \/ Leave(t)
               \/ CallFails(t) \/ Settle(t)
        PROVE  held' \in [Threads -> Pairs' \cup {0}] /\ got' \in [Threads -> Pairs' \cup {0}]
    BY <2>1, <2>3 DEF SaveEnrolled, StartRequest, Answered, StartLogout, Leave, CallFails, Settle,
       Finish, DoneWith
  <2>4. ASSUME NEW t \in Threads,
               \/ Refused(t) \/ Refresh(t) \/ FindRefresh(t) \/ RotateRefused(t) \/ SaveSession(t)
               \/ ClearSession(t) \/ ServerError(t) \/ FindAccess(t) \/ Revoke(t)
        PROVE  held' \in [Threads -> Pairs' \cup {0}] /\ got' \in [Threads -> Pairs' \cup {0}]
    BY <2>1, <2>4 DEF Refused, Refresh, FindRefresh, RotateRefused, SaveSession, ClearSession,
       ServerError, FindAccess, Revoke
  <2>5. ASSUME Restart \/ (\E p \in Pairs : RotateOrphan(p) \/ Age(p)) \/ UNCHANGED vars
        PROVE  held' \in [Threads -> Pairs' \cup {0}] /\ got' \in [Threads -> Pairs' \cup {0}]
    BY <2>1, <2>5 DEF Restart, RotateOrphan, Age, vars, threads
  <2> QED BY <2>2, <2>3, <2>4, <2>5 DEF Next, Proceed
<1>3. orphans' \in SUBSET Pairs'
  <2>1. /\ orphans \in SUBSET Pairs'
        /\ \A t \in Threads : pc[t] = "rotate" => held[t] \in Pairs'
    BY <1>0 DEF AppInv, ValuesOK, Sent, Waits, InRefresh
  <2>2. ASSUME NEW p \in Pairs, RotateOrphan(p) \/ Age(p)
        PROVE  orphans' \in SUBSET Pairs'
    BY <2>1, <2>2 DEF RotateOrphan, Age, threads
  <2>3. ASSUME NEW t \in Threads, CallFails(t)
        PROVE  orphans' \in SUBSET Pairs'
    BY <2>1, <2>3 DEF CallFails
  <2>4. ASSUME Restart
        PROVE  orphans' \in SUBSET Pairs'
    BY <2>1, <2>4 DEF Restart
  <2>5. ASSUME NEW t \in Threads,
               \/ Enroll(t) \/ StartRequest(t) \/ StartLogout(t) \/ ServerError(t) \/ Proceed(t)
               \/ UNCHANGED vars
        PROVE  UNCHANGED orphans
    BY <2>5 DEF Enroll, StartRequest, StartLogout, ServerError, Proceed, SaveEnrolled, Answered,
       Refused, Refresh, FindRefresh, Rotate, RotateRefused, SaveSession, ClearSession, Settle,
       FindAccess, Revoke, Leave, vars, threads
  <2>6. UNCHANGED vars => UNCHANGED orphans
    BY DEF vars, threads
  <2> QED BY <2>1, <2>2, <2>3, <2>4, <2>5, <2>6 DEF Next
<1>4. /\ aged' \in SUBSET Pairs' /\ expired' \in SUBSET aged' /\ agings' \in Nat
  <2>1. aged \in SUBSET Pairs' /\ expired \in SUBSET aged /\ agings \in Nat
    BY <1>0 DEF ValuesOK
  <2>2. ASSUME NEW p \in Pairs, Age(p)
        PROVE  aged' \in SUBSET Pairs' /\ expired' \in SUBSET aged' /\ agings' \in Nat
    BY <1>0, <2>1, <2>2 DEF Age
  <2>3. ASSUME NEW t \in Threads,
               \/ Enroll(t) \/ StartRequest(t) \/ StartLogout(t) \/ CallFails(t) \/ ServerError(t)
               \/ Proceed(t)
        PROVE  UNCHANGED time
    BY <2>3 DEF Enroll, StartRequest, StartLogout, CallFails, ServerError, Proceed, SaveEnrolled,
       Answered, Refused, Refresh, FindRefresh, Rotate, RotateRefused, SaveSession, ClearSession,
       Settle, FindAccess, Revoke, Leave
  <2>4. ASSUME Restart \/ (\E p \in Pairs : RotateOrphan(p)) \/ UNCHANGED vars
        PROVE  UNCHANGED time
    BY <2>4 DEF Restart, RotateOrphan, vars
  <2>5. UNCHANGED time => aged' \in SUBSET Pairs' /\ expired' \in SUBSET aged' /\ agings' \in Nat
    BY <2>1 DEF time
  <2> QED BY <2>2, <2>3, <2>4, <2>5 DEF Next
<1>5. faults' \in Nat
  <2>1. faults \in Nat
    BY <1>0 DEF ValuesOK
  <2>2. ASSUME NEW t \in Threads,
               Enroll(t) \/ StartRequest(t) \/ StartLogout(t) \/ Proceed(t)
        PROVE  UNCHANGED faults
    BY <2>2 DEF Enroll, StartRequest, StartLogout, Proceed, SaveEnrolled,
       Answered, Refused, Refresh, FindRefresh, Rotate, RotateRefused, SaveSession, ClearSession,
       Settle, FindAccess, Revoke, Leave
  <2>3. ASSUME NEW t \in Threads, CallFails(t) \/ ServerError(t)
        PROVE  Fault
    BY <2>3 DEF CallFails, ServerError
  <2>4. (\E p \in Pairs : RotateOrphan(p) \/ Age(p)) \/ UNCHANGED vars => UNCHANGED faults
    BY DEF RotateOrphan, Age, vars
  <2>5. Restart => Fault
    BY DEF Restart
  <2>6. Fault \/ UNCHANGED faults => faults' \in Nat
    BY <2>1 DEF Fault
  <2> QED BY <2>2, <2>3, <2>4, <2>5, <2>6 DEF Next
<1> QED BY <1>1, <1>2, <1>3, <1>4, <1>5 DEF ValuesOK

LEMMA SentStep ==
    ASSUME ThreadsOK, ValuesOK, Sent, [Next]_vars
    PROVE  Sent'
<1>1. pc \in [Threads -> Place] /\ held \in [Threads -> Pairs \cup {0}]
  BY DEF ThreadsOK, ValuesOK
<1>2. ASSUME NEW t \in Threads, StartRequest(t)
      PROVE  Sent'
  <2>1. stored # 0 /\ held' = [held EXCEPT ![t] = stored] /\ pc' = [pc EXCEPT ![t] = "fetch"]
    BY <1>2 DEF StartRequest, Goes
  <2> QED BY <1>1, <2>1 DEF Sent
<1>3. ASSUME NEW t \in Threads,
             \/ Refused(t) \/ Refresh(t) \/ FindRefresh(t) \/ Rotate(t) \/ RotateRefused(t)
             \/ SaveSession(t) \/ ClearSession(t) \/ ServerError(t)
      PROVE  Sent'
  BY <1>1, <1>3 DEF Sent, Refused, Refresh, FindRefresh, Rotate, RotateRefused, SaveSession,
     ClearSession, ServerError, Goes, Waits, InRefresh
<1>4. ASSUME NEW t \in Threads,
             Enroll(t) \/ SaveEnrolled(t) \/ Answered(t) \/ StartLogout(t) \/ Leave(t)
      PROVE  Sent'
  BY <1>1, <1>4 DEF Sent, Enroll, SaveEnrolled, Answered, StartLogout, Leave, Finish, Goes, Waits,
     InRefresh
<1>5. ASSUME NEW t \in Threads, FindAccess(t) \/ Revoke(t)
      PROVE  Sent'
  BY <1>1, <1>5 DEF Sent, FindAccess, Revoke, Goes, Waits, InRefresh
<1>6. ASSUME NEW t \in Threads, CallFails(t)
      PROVE  Sent'
  BY <1>1, <1>6 DEF Sent, CallFails, Finish, Goes, Waits, InRefresh
<1>7. ASSUME NEW t \in Threads, Settle(t)
      PROVE  Sent'
  BY <1>1, <1>7 DEF Sent, Settle, DoneWith, Waits, InRefresh
<1>8. ASSUME Restart
      PROVE  Sent'
  BY <1>8 DEF Restart, Sent, Waits, InRefresh
<1>9. CASE (\E p \in Pairs : RotateOrphan(p) \/ Age(p)) \/ UNCHANGED vars
  <2>1. UNCHANGED <<pc, held>>
    BY <1>9 DEF RotateOrphan, Age, vars, threads
  <2> QED BY <2>1 DEF Sent
<1> QED BY <1>2, <1>3, <1>4, <1>5, <1>6, <1>7, <1>8, <1>9 DEF Next, Proceed

LEMMA AppStep == AppInv /\ [Next]_vars => AppInv'
<1> SUFFICES ASSUME AppInv, [Next]_vars PROVE AppInv'
  OBVIOUS
<1>1. ServerInv /\ ThreadsOK /\ ValuesOK /\ Sent
  BY DEF AppInv
<1> QED BY <1>1, ServerStep, ThreadsStep, ValuesStep, SentStep DEF AppInv

\* The type invariant holds of every reachable state, for any number of threads, clients,
\* sessions and failures; that a client has one refresh in flight, of a thread of its own,
\* is part of it.
THEOREM TypeCorrect == Spec => []TypeOK
<1>1. Spec => []AppInv
  BY AppInit, AppStep, PTL DEF Spec
<1> QED BY <1>1, AppInvImplies, PTL

-----------------------------------------------------------------------------
(* Logout.  A thread has a target only between the SELECT that found its   *)
(* session and the end of the logout, and leaves with it only after the    *)
(* UPDATE; nothing takes the revocation back.                              *)

LogoutInv ==
    \A t \in Threads :
        /\ pc[t] = "revoke" => target[t] # Nobody
        /\ target[t] # Nobody => pc[t] \in {"revoke", "leave"}
        /\ pc[t] = "leave" /\ target[t] # Nobody => row[target[t]].payloadRevoked

LEMMA LogoutStep ==
    ASSUME AppInv, LogoutInv, [Next]_vars
    PROVE  LogoutInv'
<1>0. /\ pc \in [Threads -> Place] /\ target \in [Threads -> Sessions \cup {Nobody}]
      /\ row \in [Sessions -> Row]
      /\ \A s \in Sessions : row[s].payloadRevoked => row'[s].payloadRevoked
      /\ \A t \in Threads, c \in Clients : inFlight[c] = t => pc[t] \in InRefresh
  BY ServerStep DEF AppInv, ThreadsOK, ServerInv, PairsOK
<1>1. ASSUME NEW t \in Threads,
             \/ Enroll(t) \/ StartRequest(t) \/ Refused(t) \/ Refresh(t) \/ FindRefresh(t)
             \/ Rotate(t) \/ RotateRefused(t) \/ SaveSession(t) \/ ClearSession(t) \/ ServerError(t)
             \/ StartLogout(t)
      PROVE  LogoutInv'
  <2>1. /\ UNCHANGED target /\ target[t] = Nobody /\ pc'[t] # "revoke"
        /\ \A d \in Threads \ {t} : pc'[d] = pc[d]
    BY <1>0, <1>1 DEF LogoutInv, Enroll, StartRequest, Refused, Refresh, FindRefresh, Rotate,
       RotateRefused, SaveSession, ClearSession, ServerError, StartLogout, Goes
  <2> QED BY <1>0, <2>1 DEF LogoutInv
<1>2. ASSUME NEW t \in Threads, SaveEnrolled(t) \/ Answered(t) \/ Leave(t)
      PROVE  LogoutInv'
  <2>1. /\ pc'[t] = "idle" /\ target'[t] = Nobody
        /\ \A d \in Threads \ {t} : pc'[d] = pc[d] /\ target'[d] = target[d]
    BY <1>0, <1>2 DEF SaveEnrolled, Answered, Leave, Finish, Goes
  <2> QED BY <1>0, <2>1 DEF LogoutInv
<1>3. ASSUME NEW t \in Threads, Settle(t)
      PROVE  LogoutInv'
  <2>1. PICK c \in Clients : c = client[t]
    BY <1>3 DEF Settle, AppInv, ThreadsOK, Waits, InRefresh
  <2>2. \A d \in Threads :
           \/ pc'[d] = pc[d]
           \/ pc'[d] = "idle" /\ (pc[d] = "joined" \/ inFlight[c] = d)
    BY <1>3, <2>1 DEF Settle, DoneWith
  <2>3. UNCHANGED target
    BY <1>3 DEF Settle
  <2> QED BY <1>0, <2>2, <2>3 DEF LogoutInv, InRefresh
<1>4. ASSUME NEW t \in Threads, FindAccess(t)
      PROVE  LogoutInv'
  <2>1. /\ pc[t] = "logout" /\ \A d \in Threads \ {t} : pc'[d] = pc[d] /\ target'[d] = target[d]
        /\ \/ pc'[t] = "revoke" /\ target'[t] # Nobody
           \/ pc'[t] = "leave" /\ target'[t] = target[t]
    BY <1>0, <1>4, NobodyAssumption DEF FindAccess, Goes
  <2> QED BY <1>0, <2>1 DEF LogoutInv
<1>5. ASSUME NEW t \in Threads, Revoke(t)
      PROVE  LogoutInv'
  <2>1. /\ pc[t] = "revoke" /\ pc'[t] = "leave" /\ \A d \in Threads \ {t} : pc'[d] = pc[d]
        /\ UNCHANGED target /\ Revokes(target[t], held[t])
    BY <1>0, <1>5 DEF Revoke, Goes
  <2>2. target[t] \in Sessions
    BY <1>0, <2>1 DEF LogoutInv
  <2>3. row'[target[t]].payloadRevoked
    BY <1>0, <2>1, <2>2 DEF Revokes, Row
  <2> QED BY <1>0, <2>1, <2>3 DEF LogoutInv
<1>6. ASSUME NEW t \in Threads, CallFails(t)
      PROVE  LogoutInv'
  <2>1. /\ \A d \in Threads \ {t} : pc'[d] = pc[d] /\ target'[d] = target[d]
        /\ target'[t] = Nobody /\ pc'[t] # "revoke"
    BY <1>0, <1>6 DEF CallFails, Finish, Goes, LogoutInv
  <2> QED BY <1>0, <2>1 DEF LogoutInv
<1>7. ASSUME Restart
      PROVE  LogoutInv'
  BY <1>7 DEF Restart, LogoutInv
<1>8. CASE (\E p \in Pairs : RotateOrphan(p) \/ Age(p)) \/ UNCHANGED vars
  <2>1. UNCHANGED <<pc, target>>
    BY <1>8 DEF RotateOrphan, Age, vars, threads
  <2> QED BY <1>0, <2>1 DEF LogoutInv
<1> QED BY <1>1, <1>2, <1>3, <1>4, <1>5, <1>6, <1>7, <1>8 DEF Next, Proceed

\* "POST /v1/auth/logout revoca access y refresh de la misma sesión": a logout whose token
\* was known leaves its session revoked, though a rotation may have run in between.
THEOREM LogoutIsEffective == Spec => []LogoutEndsSession
<1>1. Init => LogoutInv
  BY DEF Init, LogoutInv
<1>2. AppInv /\ LogoutInv /\ [Next]_vars => LogoutInv'
  BY LogoutStep
<1>3. LogoutInv => LogoutEndsSession
  BY DEF LogoutInv, LogoutEndsSession
<1> QED BY <1>1, <1>2, <1>3, AppInit, AppStep, PTL DEF Spec

-----------------------------------------------------------------------------
(* The refinement.  An enrolment opens a session of the ledger, a rotation *)
(* renews one, a revocation ends one, and everything else stutters; so     *)
(* does the revocation of a session that had ended.                        *)

LEMMA LedgerStep ==
    ASSUME ServerInv, [Next]_vars
    PROVE  [Ledger!Next]_(Ledger!ledger)
<1> DEFINE pairs == [s \in Sessions |-> row[s].pair]
           over  == {s \in Sessions : row[s].payloadRevoked}
<1>0. row \in [Sessions -> Row]
  BY DEF ServerInv, PairsOK
<1>1. CASE UNCHANGED server
  BY <1>1 DEF server, Ledger!ledger
<1>2. CASE IssuesSome
  <2>1. PICK s \in Sessions, p \in Nat : Issues(s, p) /\ p = row[s].pair
    BY <1>2 DEF IssuesSome
  <2>2. pairs' = [pairs EXCEPT ![s] = Len(parent) + 1]
    BY <1>0, <2>1 DEF Issues
  <2>3. s \notin over /\ over' = over
    BY <1>0, <2>1 DEF Issues, ServerInv, PayloadFollows
  <2>4. parent' = Append(parent, pairs[s])
    BY <2>1 DEF Issues
  <2> HIDE DEF pairs, over
  <2>5. Ledger!Issue(s)
    BY <2>2, <2>3, <2>4 DEF Ledger!Issue, pairs, over
  <2>6. Ledger!Open(s) \/ Ledger!Renew(s)
    BY <2>3, <2>5 DEF Ledger!Open, Ledger!Renew, over
  <2> QED BY <2>6 DEF Ledger!Next
<1>3. CASE RevokesSome
  <2>1. PICK x : /\ row' = [row EXCEPT ![x].revoked = TRUE, ![x].payloadRevoked = TRUE]
                 /\ UNCHANGED parent
    BY <1>3 DEF RevokesSome, Revokes
  <2>2. \A s \in Sessions :
            /\ row'[s].pair = row[s].pair
            /\ row'[s].payloadRevoked = (row[s].payloadRevoked \/ s = x)
    BY <1>0, <2>1 DEF Row
  <2>3. pairs' = pairs
    BY <2>2
  <2>4. CASE x \in Sessions
    <3>1. over' = over \cup {x}
      BY <2>2, <2>4
    <3> HIDE DEF pairs, over
    <3>2. Ledger!End(x)
      BY <2>1, <2>3, <3>1 DEF Ledger!End, pairs, over
    <3> QED BY <2>4, <3>2 DEF Ledger!Next
  <2>5. CASE x \notin Sessions
    <3>1. over' = over
      BY <2>2, <2>5
    <3> HIDE DEF pairs, over
    <3> QED BY <2>1, <2>3, <3>1 DEF Ledger!ledger, pairs, over
  <2> QED BY <2>4, <2>5
<1> QED BY <1>1, <1>2, <1>3, ServerSteps

\* The handlers, the app and their failures implement the ledger: a session has one pair, a
\* pair is replaced only while it is the session's and the session is not over, and an ended
\* session stays so.
THEOREM ImplementsLedger == Spec => LedgerSpec
<1>1. Init => Ledger!Init
  <2> SUFFICES ASSUME Init PROVE Ledger!Init
    OBVIOUS
  <2>1. \A s \in Sessions : row[s] = Free
    BY DEF Init
  <2>2. \A s \in Sessions : row[s].pair = 0 /\ ~row[s].payloadRevoked
    <3>1. Free.pair = 0 /\ ~Free.payloadRevoked
      BY DEF Free
    <3> QED BY <2>1, <3>1
  <2>3. [s \in Sessions |-> row[s].pair] = [s \in Sessions |-> 0]
    BY <2>2
  <2>4. {s \in Sessions : row[s].payloadRevoked} = {}
    BY <2>2
  <2> QED BY <2>3, <2>4 DEF Init, Ledger!Init
<1> QED BY <1>1, LedgerStep, ServerInit, ServerStep, PTL DEF Spec, LedgerSpec, Ledger!Spec
=============================================================================
