--------------------------- MODULE OperatorSessions ---------------------------
(***************************************************************************)
(* Sessions of an operator: SessionService with its PostgreSQL repository, *)
(* and the mobile app that holds the tokens, i.e. its secure store and the *)
(* two API clients (api.ts and agentOsApi.ts), each of which refreshes on  *)
(* a 401 and keeps a refresh in flight of its own.                         *)
(*                                                                         *)
(* An access token and a refresh token are issued together and named by    *)
(* one number, in the order of issue; 0 is no pair.  A thread is a call of *)
(* the app: a request, a logout or an enrolment; a request without a       *)
(* stored session, and the retry that follows a refresh, change nothing    *)
(* and are left out.                                                       *)
(***************************************************************************)
EXTENDS Naturals, Sequences

CONSTANTS
    Sessions,    \* ids of operator_sessions
    Threads,     \* concurrent calls of the app
    Clients,     \* api, agentOsApi
    Nobody,      \* no thread, no session, no client
    MaxAgings,   \* bound: tokens that reach the end of their ttl
    MaxFaults    \* bound: lost or failed calls, and restarts of the app

ASSUME NobodyAssumption == Nobody \notin Threads \cup Sessions \cup Clients
ASSUME BoundsAssumption == MaxAgings \in Nat /\ MaxFaults \in Nat

VARIABLES
    \* --- operator_sessions ------------------------------------------------
    row,       \* pair, revoked_at and the payload's revokedAt of each session
    parent,    \* the pair each pair was rotated from: its length is their number
    \* --- the device ---------------------------------------------------------
    stored,    \* the pair in the secure store
    shown,     \* the app shows its tabs, not the login screen
    inFlight,  \* refreshInFlight of each client: the thread that refreshes
    \* --- the threads and the handlers of their calls --------------------------
    pc,
    client,    \* the client a thread uses for its request
    held,      \* the pair a thread has sent
    got,       \* the pair it has received
    target,    \* the session that revokeAccess has found
    orphans,   \* pairs that handlers are rotating though nobody waits any more
    \* --- time and bounds -------------------------------------------------------
    aged,      \* pairs whose access token has expired
    expired,   \* pairs whose refresh token has expired
    agings, faults

server  == <<row, parent>>
device  == <<stored, shown, inFlight>>
threads == <<pc, client, held, got, target, orphans>>
time    == <<aged, expired, agings>>
vars    == <<server, device, threads, time, faults>>

Pairs == 1..Len(parent)

Row  == [pair : Nat, revoked : BOOLEAN, payloadRevoked : BOOLEAN]
Free == [pair |-> 0, revoked |-> FALSE, payloadRevoked |-> FALSE]

Place == {"idle", "fetch", "refused", "joined", "find", "rotate", "save", "clear",
          "settle", "logout", "revoke", "leave", "enrolled"}

InRefresh == {"find", "rotate", "save", "clear", "settle"}

TypeOK ==
    /\ row      \in [Sessions -> Row]
    /\ parent   \in Seq(Nat)
    /\ stored   \in Pairs \cup {0}
    /\ shown    \in BOOLEAN
    /\ inFlight \in [Clients -> Threads \cup {Nobody}]
    /\ pc       \in [Threads -> Place]
    /\ client   \in [Threads -> Clients \cup {Nobody}]
    /\ held     \in [Threads -> Pairs \cup {0}]
    /\ got      \in [Threads -> Pairs \cup {0}]
    /\ target   \in [Threads -> Sessions \cup {Nobody}]
    /\ orphans  \in SUBSET Pairs
    /\ aged     \in SUBSET Pairs /\ expired \in SUBSET aged
    /\ agings \in Nat /\ faults \in Nat
    /\ \A s \in Sessions : row[s].pair \in Pairs \cup {0}
    /\ \A t \in Threads : client[t] # Nobody <=>
                           pc[t] \in {"fetch", "refused", "joined"} \cup InRefresh
    /\ \A t \in Threads, c \in Clients :
           inFlight[c] = t <=> client[t] = c /\ pc[t] \in InRefresh
    /\ \A t \in Threads : pc[t] = "joined" => inFlight[client[t]] # Nobody

Init ==
    /\ row      = [s \in Sessions |-> Free]
    /\ parent   = <<>>
    /\ stored   = 0 /\ shown = FALSE
    /\ inFlight = [c \in Clients |-> Nobody]
    /\ pc       = [t \in Threads |-> "idle"]
    /\ client   = [t \in Threads |-> Nobody]
    /\ held     = [t \in Threads |-> 0]
    /\ got      = [t \in Threads |-> 0]
    /\ target   = [t \in Threads |-> Nobody]
    /\ orphans  = {}
    /\ aged = {} /\ expired = {}
    /\ agings = MaxAgings /\ faults = MaxFaults

Fault == faults > 0 /\ faults' = faults - 1

-----------------------------------------------------------------------------
(* What the handlers see in the table.                                     *)

\* findByAccessTokenHash, findByRefreshTokenHash.
Has(s, p) == row[s].pair = p /\ p # 0

\* Checked on the payload, as the domain does.
AccessActive(p)  == p \notin aged /\ \E s \in Sessions : Has(s, p) /\ ~row[s].payloadRevoked
RefreshActive(p) == p \notin expired /\ \E s \in Sessions : Has(s, p) /\ ~row[s].payloadRevoked

Goes(t, place) == pc' = [pc EXCEPT ![t] = place]

Finish(t) ==
    /\ Goes(t, "idle")
    /\ client' = [client EXCEPT ![t] = Nobody]
    /\ held'   = [held EXCEPT ![t] = 0]
    /\ got'    = [got EXCEPT ![t] = 0]
    /\ target' = [target EXCEPT ![t] = Nobody]

-----------------------------------------------------------------------------
(* Enrolment.                                                              *)

\* POST /v1/auth/session: a new session.  The login screen submits one at a time.
Enroll(t) ==
    /\ pc[t] = "idle" /\ ~shown
    /\ \A u \in Threads : pc[u] # "enrolled"
    /\ \E s \in Sessions :
         /\ row[s] = Free
         /\ row' = [row EXCEPT ![s].pair = Len(parent) + 1]
    /\ parent' = Append(parent, 0)
    /\ got'    = [got EXCEPT ![t] = Len(parent')]
    /\ Goes(t, "enrolled")
    /\ UNCHANGED <<device, client, held, target, orphans, time, faults>>

SaveEnrolled(t) ==
    /\ pc[t] = "enrolled"
    /\ stored' = got[t] /\ shown' = TRUE
    /\ Finish(t)
    /\ UNCHANGED <<server, inFlight, orphans, time, faults>>

-----------------------------------------------------------------------------
(* A request and the refresh it may need.                                  *)

StartRequest(t) ==
    /\ pc[t] = "idle" /\ shown /\ stored # 0
    /\ \E c \in Clients : client' = [client EXCEPT ![t] = c]
    /\ held' = [held EXCEPT ![t] = stored]
    /\ Goes(t, "fetch")
    /\ UNCHANGED <<server, device, got, target, orphans, time, faults>>

\* authenticateAccess accepts the call ...
Answered(t) ==
    /\ pc[t] = "fetch" /\ AccessActive(held[t])
    /\ Finish(t)
    /\ UNCHANGED <<server, device, orphans, time, faults>>

\* ... or answers 401.
Refused(t) ==
    /\ pc[t] = "fetch" /\ ~AccessActive(held[t])
    /\ Goes(t, "refused")
    /\ UNCHANGED <<server, device, client, held, got, target, orphans, time, faults>>

\* refreshSession: a client refreshes once for all the threads it has waiting.
Refresh(t) ==
    /\ pc[t] = "refused"
    /\ IF inFlight[client[t]] = Nobody
       THEN /\ inFlight' = [inFlight EXCEPT ![client[t]] = t]
            /\ Goes(t, "find")
       ELSE /\ Goes(t, "joined")
            /\ UNCHANGED inFlight
    /\ UNCHANGED <<server, stored, shown, client, held, got, target, orphans, time, faults>>

\* SessionService.rotate reads the session and checks that it is active.
FindRefresh(t) ==
    /\ pc[t] = "find"
    /\ Goes(t, IF RefreshActive(held[t]) THEN "rotate" ELSE "clear")
    /\ UNCHANGED <<server, device, client, held, got, target, orphans, time, faults>>

\* FAULTY variant of Matches: the update by id, also after another rotation.
MatchesId(s, p) ==
    /\ Has(s, p) \/ (row[s].pair # 0 /\ parent[row[s].pair] = p)
    /\ ~row[s].revoked

\* FAULTY variant of Matches: without AND revoked_at IS NULL.
MatchesRevoked(s, p) == Has(s, p)

Matches(s, p) == Has(s, p) /\ ~row[s].revoked

\* The UPDATE of rotate: the payload is the one that was read, renewed.
Replaces(p) ==
    /\ \E s \in Sessions :
         /\ Matches(s, p)
         /\ row' = [row EXCEPT ![s].pair = Len(parent) + 1, ![s].payloadRevoked = FALSE]
    /\ parent' = Append(parent, p)

NoneMatches(p) == ~\E s \in Sessions : Matches(s, p)

Rotate(t) ==
    /\ pc[t] = "rotate"
    /\ Replaces(held[t])
    /\ got' = [got EXCEPT ![t] = Len(parent')]
    /\ Goes(t, "save")
    /\ UNCHANGED <<device, client, held, target, orphans, time, faults>>

\* "Refresh session was already rotated": 401.
RotateRefused(t) ==
    /\ pc[t] = "rotate"
    /\ NoneMatches(held[t])
    /\ Goes(t, "clear")
    /\ UNCHANGED <<server, device, client, held, got, target, orphans, time, faults>>

SaveSession(t) ==
    /\ pc[t] = "save"
    /\ stored' = got[t]
    /\ Goes(t, "settle")
    /\ UNCHANGED <<server, shown, inFlight, client, held, got, target, orphans, time, faults>>

\* FAULTY variant of ClearSession: a refused refresh throws and clears nothing.
ClearForgotten(t) ==
    /\ pc[t] = "clear"
    /\ Goes(t, "settle")
    /\ UNCHANGED <<server, device, client, held, got, target, orphans, time, faults>>

\* Any answer but ok clears the store, whatever it holds by now.
ClearSession(t) ==
    /\ pc[t] = "clear"
    /\ stored' = 0 /\ shown' = FALSE
    /\ Goes(t, "settle")
    /\ UNCHANGED <<server, inFlight, client, held, got, target, orphans, time, faults>>

\* The thread and those that joined it are done with the refresh.
DoneWith(c) ==
    LET done == {d \in Threads : client[d] = c /\ (pc[d] = "joined" \/ inFlight[c] = d)}
    IN  /\ pc'     = [d \in Threads |-> IF d \in done THEN "idle" ELSE pc[d]]
        /\ client' = [d \in Threads |-> IF d \in done THEN Nobody ELSE client[d]]
        /\ held'   = [d \in Threads |-> IF d \in done THEN 0 ELSE held[d]]
        /\ got'    = [d \in Threads |-> IF d \in done THEN 0 ELSE got[d]]

\* The finally clause of refreshSession.
Settle(t) ==
    /\ pc[t] = "settle"
    /\ DoneWith(client[t])
    /\ inFlight' = [inFlight EXCEPT ![client[t]] = Nobody]
    /\ UNCHANGED <<server, stored, shown, target, orphans, time, faults>>

-----------------------------------------------------------------------------
(* Logout.                                                                 *)

StartLogout(t) ==
    /\ pc[t] = "idle" /\ shown
    /\ held' = [held EXCEPT ![t] = stored]
    /\ Goes(t, IF stored = 0 THEN "leave" ELSE "logout")
    /\ UNCHANGED <<server, device, client, got, target, orphans, time, faults>>

\* revokeAccess looks for the access token, expired or not; an unknown one is
\* answered with 204 all the same.
FindAccess(t) ==
    /\ pc[t] = "logout"
    /\ \/ \E s \in Sessions :
            /\ Has(s, held[t])
            /\ target' = [target EXCEPT ![t] = s]
            /\ Goes(t, "revoke")
       \/ /\ ~\E s \in Sessions : Has(s, held[t])
          /\ Goes(t, "leave")
          /\ UNCHANGED target
    /\ UNCHANGED <<server, device, client, held, got, orphans, time, faults>>

\* FAULTY variant of Revokes: the update looks for the token, not for the id.
RevokesToken(s, p) ==
    row' = IF Has(s, p) THEN [row EXCEPT ![s].revoked = TRUE, ![s].payloadRevoked = TRUE]
                        ELSE row

\* revoke: by the session's id, whatever pair it has by now.
Revokes(s, p) == row' = [row EXCEPT ![s].revoked = TRUE, ![s].payloadRevoked = TRUE]

Revoke(t) ==
    /\ pc[t] = "revoke"
    /\ Revokes(target[t], held[t])
    /\ Goes(t, "leave")
    /\ UNCHANGED <<parent, device, client, held, got, target, orphans, time, faults>>

\* The finally clause of logout.
Leave(t) ==
    /\ pc[t] = "leave"
    /\ stored' = 0 /\ shown' = FALSE
    /\ Finish(t)
    /\ UNCHANGED <<server, inFlight, orphans, time, faults>>

-----------------------------------------------------------------------------
(* Failures and time.                                                      *)

\* The connection breaks.  A request ends; a logout leaves, whether its session
\* was revoked or not; a refresh throws without touching the store, and its answer
\* may be lost or its handler still be at work.
CallFails(t) ==
    /\ Fault
    /\ \/ /\ pc[t] \in {"fetch", "enrolled"}
          /\ Finish(t) /\ UNCHANGED <<row, orphans>>
       \/ /\ pc[t] \in {"logout", "revoke"}
          /\ Goes(t, "leave") /\ target' = [target EXCEPT ![t] = Nobody]
          /\ \/ UNCHANGED row
             \/ pc[t] = "revoke" /\ Revokes(target[t], held[t])
          /\ UNCHANGED <<client, held, got, orphans>>
       \/ /\ pc[t] \in {"find", "rotate", "save"}
          /\ Goes(t, "settle") /\ got' = [got EXCEPT ![t] = 0]
          /\ \/ UNCHANGED orphans
             \/ pc[t] = "rotate" /\ orphans' = orphans \cup {held[t]}
          /\ UNCHANGED <<row, client, held, target>>
    /\ UNCHANGED <<parent, device, time>>

\* The handler of a refresh fails, before or after the statement: 500.
ServerError(t) ==
    /\ pc[t] \in {"find", "rotate"}
    /\ Fault
    /\ \/ UNCHANGED server
       \/ pc[t] = "rotate" /\ Replaces(held[t])
    /\ Goes(t, "clear")
    /\ UNCHANGED <<device, client, held, got, target, orphans, time>>

RotateOrphan(p) ==
    /\ p \in orphans /\ orphans' = orphans \ {p}
    /\ \/ Replaces(p)
       \/ NoneMatches(p) /\ UNCHANGED server
    /\ UNCHANGED <<device, pc, client, held, got, target, time, faults>>

\* The app is killed and started again.
Restart ==
    /\ Fault
    /\ shown'    = (stored # 0)
    /\ inFlight' = [c \in Clients |-> Nobody]
    /\ pc'       = [t \in Threads |-> "idle"]
    /\ client'   = [t \in Threads |-> Nobody]
    /\ held'     = [t \in Threads |-> 0]
    /\ got'      = [t \in Threads |-> 0]
    /\ target'   = [t \in Threads |-> Nobody]
    /\ orphans'  = orphans \cup {held[t] : t \in {u \in Threads : pc[u] = "rotate"}}
    /\ UNCHANGED <<server, stored, time>>

\* A refresh token outlives the access token of its pair.
Age(p) ==
    /\ agings > 0 /\ agings' = agings - 1
    /\ \E s \in Sessions : Has(s, p)
    /\ \/ p \notin aged /\ aged' = aged \cup {p} /\ UNCHANGED expired
       \/ p \in aged \ expired /\ expired' = expired \cup {p} /\ UNCHANGED aged
    /\ UNCHANGED <<server, device, threads, faults>>

-----------------------------------------------------------------------------

\* What the app and the API owe a call that was made.
Proceed(t) ==
    \/ SaveEnrolled(t)
    \/ Answered(t) \/ Refused(t) \/ Refresh(t)
    \/ FindRefresh(t) \/ Rotate(t) \/ RotateRefused(t)
    \/ SaveSession(t) \/ ClearSession(t) \/ Settle(t)
    \/ FindAccess(t) \/ Revoke(t) \/ Leave(t)

Next ==
    \/ \E t \in Threads :
         \/ Enroll(t) \/ StartRequest(t) \/ StartLogout(t)
         \/ Proceed(t) \/ CallFails(t) \/ ServerError(t)
    \/ \E p \in Pairs : RotateOrphan(p) \/ Age(p)
    \/ Restart

Spec == Init /\ [][Next]_vars

\* Calls that were made go on; nothing else is owed.
FairSpec == Spec /\ \A t \in Threads : WF_vars(Proceed(t))

-----------------------------------------------------------------------------
(* What the sessions promise.                                              *)

\* "Dos refresh simultáneos no pueden producir dos sesiones activas": no pair is
\* rotated twice, whoever sends it, however often, and whatever was lost.
OneSuccessor ==
    \A p, q \in Pairs : parent[p] = parent[q] /\ parent[p] # 0 => p = q

\* "La revocación es persistente": once the authentication sees a session as
\* revoked it does so for ever, also when a rotation had read the session before.
RevokedStays ==
    [][\A s \in Sessions : row[s].payloadRevoked => row'[s].payloadRevoked]_vars

\* The sessions implement the ledger of SessionLedger.
Ledger == INSTANCE SessionLedger WITH
              current <- [s \in Sessions |-> row[s].pair], origin <- parent,
              ended   <- {s \in Sessions : row[s].payloadRevoked}
LedgerSpec == Ledger!Spec

\* "POST /v1/auth/logout revoca access y refresh de la misma sesión": a logout
\* whose token was known ends the session, whatever pair it has by then.
LogoutEndsSession ==
    \A t \in Threads :
        pc[t] = "leave" /\ target[t] # Nobody => row[target[t]].payloadRevoked

\* An app whose requests are refused does not keep an expired access token: it
\* gets a new pair or returns to the login, also after a refresh that failed.
RefusalSettles ==
    []<>(\E t \in Threads : pc[t] = "refused") =>
        (stored # 0 /\ stored \in aged) ~> ~(stored # 0 /\ stored \in aged)

=============================================================================
