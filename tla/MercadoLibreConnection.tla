------------------------ MODULE MercadoLibreConnection ------------------------
(***************************************************************************)
(* The stored credential of one MercadoLibre account and everything that   *)
(* writes it: MercadoLibreService (OAuth login, ensureAccessToken, the     *)
(* synchronisation of listings), the credential provider of the question   *)
(* executor, which refreshes by the same protocol, and the provider, whose *)
(* refresh tokens are good for one use.                                    *)
(*                                                                         *)
(* A grant is the pair of tokens the provider issues together; grants are  *)
(* numbered in the order of issue, and so are leases.  Time appears as     *)
(* two events: an access token comes within refreshWindowMs of its end,    *)
(* and a lease expires in the eyes of whoever acquires next.               *)
(***************************************************************************)
EXTENDS Naturals

CONSTANTS
    Callers,     \* concurrent requests and worker turns that use the account
    MaxFaults,   \* bound: crashes, failed calls and failed statements
    MaxSlow,     \* bound: leases that expire while their holder refreshes
    MaxAgings,   \* bound: access tokens that come near their end
    MaxLogins    \* bound: authorizations begun by the operator

ASSUME BoundsAssumption ==
    MaxFaults \in Nat /\ MaxSlow \in Nat /\ MaxAgings \in Nat /\ MaxLogins \in Nat

VARIABLES
    \* --- the database ---------------------------------------------------
    row,      \* the row of mercadolibre_connections
    open,     \* how many OAuth states are stored and not expired
    live,     \* leases that have not expired
    \* --- the callers ----------------------------------------------------
    pc,
    copy,     \* the row as the caller last read it
    mine,     \* the lease it acquired, 0 if none
    got,      \* the grant whose access token it will return, 0 if it throws
    \* --- the provider and the clock ---------------------------------------
    current,  \* the last grant issued: the only one whose refresh token works
    aged,     \* access tokens of grants up to this one are near their end
    \* --- history and bounds ------------------------------------------------
    leases,   \* leases issued
    evicted,  \* leases removed from the row by somebody else's save
    mixed,    \* some save was built on a row that had changed meanwhile
    faults, slow, agings, logins

callers == <<pc, copy, mine, got>>
time    == <<current, aged>>
history == <<leases, evicted, mixed>>
bounds  == <<faults, slow, agings, logins>>
vars    == <<row, open, live, callers, time, history, bounds>>

Row   == [token  : Nat,
          status : {"none", "active", "reauthorization-required"},
          lease  : Nat]
NoRow == [token |-> 0, status |-> "none", lease |-> 0]

Place == {"idle", "acquire", "reread", "refresh", "save", "mark", "release",
          "token", "list", "exchange", "grant"}

TypeOK ==
    /\ row     \in Row
    /\ open    \in Nat
    /\ live    \in SUBSET (1..leases)
    /\ pc      \in [Callers -> Place]
    /\ copy    \in [Callers -> Row]
    /\ mine    \in [Callers -> 0..leases]
    /\ got     \in [Callers -> 0..current]
    /\ current \in Nat /\ aged \in 0..current
    /\ leases  \in Nat /\ evicted \in SUBSET (1..leases) /\ mixed \in BOOLEAN
    /\ faults \in Nat /\ slow \in Nat /\ agings \in Nat /\ logins \in Nat
    /\ row.token \in 0..current
    /\ row.status = "none" <=> row.token = 0
    /\ \A c \in Callers : copy[c].token \in 0..current

Init ==
    /\ row = NoRow /\ open = 0 /\ live = {}
    /\ pc      = [c \in Callers |-> "idle"]
    /\ copy    = [c \in Callers |-> NoRow]
    /\ mine    = [c \in Callers |-> 0]
    /\ got     = [c \in Callers |-> 0]
    /\ current = 0 /\ aged = 0
    /\ leases = 0 /\ evicted = {} /\ mixed = FALSE
    /\ faults = MaxFaults /\ slow = MaxSlow /\ agings = MaxAgings /\ logins = MaxLogins

Fault == faults > 0 /\ faults' = faults - 1 /\ UNCHANGED <<slow, agings, logins>>

-----------------------------------------------------------------------------
(* What a caller does with its local variables, and to the row.            *)

Goes(c, place) == pc' = [pc EXCEPT ![c] = place]

\* The request ends, with an answer or with an error.
Finish(c) ==
    /\ Goes(c, "idle")
    /\ copy' = [copy EXCEPT ![c] = NoRow]
    /\ mine' = [mine EXCEPT ![c] = 0]
    /\ got'  = [got EXCEPT ![c] = 0]

\* The finally clause is reached, to return the token of a grant or to throw;
\* the record the caller read is of no more use.
Leaves(c, g) ==
    /\ Goes(c, "release")
    /\ copy' = [copy EXCEPT ![c] = NoRow]
    /\ got'  = [got EXCEPT ![c] = g]
    /\ UNCHANGED mine

Near(r) == r.token <= aged

\* A statement of caller c makes the row new.
Writes(c, new) ==
    /\ row' = new
    /\ evicted' = IF row.lease \in {0, mine[c], new.lease}
                  THEN evicted
                  ELSE evicted \cup {row.lease}
    /\ UNCHANGED leases

Credential(g) == [token |-> g, status |-> "active", lease |-> 0]

-----------------------------------------------------------------------------
(* ensureAccessToken.                                                      *)

\* The first read.  A missing connection, or one that requires a login, throws.
Read(c) ==
    /\ pc[c] = "idle"
    /\ row.status = "active"
    /\ IF Near(row)
       THEN Goes(c, "acquire") /\ copy' = [copy EXCEPT ![c] = row]
       ELSE Goes(c, "token") /\ UNCHANGED copy
    /\ UNCHANGED <<row, open, live, mine, got, time, history, bounds>>

\* FAULTY variant of Free: only a lease that was given back is free.
FreeReleased == row.status = "active" /\ row.lease = 0

\* FAULTY variant of Free: a read of the status stands for the lease.
FreeActive == row.status = "active"

Free == row.status = "active" /\ row.lease \notin live

\* The UPDATE that takes the lease.
Acquire(c) ==
    /\ pc[c] = "acquire"
    /\ Free
    /\ leases' = leases + 1
    /\ row'    = [row EXCEPT !.lease = leases']
    /\ live'   = live \cup {leases'}
    /\ mine'   = [mine EXCEPT ![c] = leases']
    /\ Goes(c, "reread")
    /\ UNCHANGED <<open, copy, got, time, evicted, mixed, bounds>>

\* "Another worker is refreshing".
AcquireRefused(c) ==
    /\ pc[c] = "acquire"
    /\ ~Free
    /\ Finish(c)
    /\ UNCHANGED <<row, open, live, time, history, bounds>>

\* FAULTY variant of Reread: the lease is taken and the first read still used.
RereadSkipped(c) ==
    /\ pc[c] = "reread"
    /\ Goes(c, "refresh")
    /\ UNCHANGED <<copy, mine, got, row, open, live, time, history, bounds>>

\* The second read, under the lease: somebody may have refreshed already.  The
\* service does not look at the status again.
Reread(c) ==
    /\ pc[c] = "reread"
    /\ IF Near(row)
       THEN /\ copy' = [copy EXCEPT ![c] = row]
            /\ Goes(c, "refresh")
            /\ UNCHANGED <<mine, got>>
       ELSE Leaves(c, row.token)
    /\ UNCHANGED <<row, open, live, time, history, bounds>>

\* The credential provider does, and throws.
RereadUnusable(c) ==
    /\ pc[c] = "reread"
    /\ row.status = "reauthorization-required"
    /\ Leaves(c, 0)
    /\ UNCHANGED <<row, open, live, time, history, bounds>>

\* The provider accepts its last refresh token, once ...
RefreshAccepted(c) ==
    /\ pc[c] = "refresh"
    /\ copy[c].token = current
    /\ current' = current + 1
    /\ copy'    = [copy EXCEPT ![c] = NoRow]
    /\ got'     = [got EXCEPT ![c] = current']
    /\ Goes(c, "save")
    /\ UNCHANGED <<mine, row, open, live, aged, history, bounds>>

\* ... and answers invalid_grant to any other.
RefreshRejected(c) ==
    /\ pc[c] = "refresh"
    /\ copy[c].token # current
    /\ copy' = [copy EXCEPT ![c] = NoRow]
    /\ Goes(c, "mark")
    /\ UNCHANGED <<mine, got, row, open, live, time, history, bounds>>

\* Timeout or server error: the token may have been used, and the answer lost.
RefreshFails(c) ==
    /\ pc[c] = "refresh"
    /\ Fault
    /\ \/ UNCHANGED current
       \/ copy[c].token = current /\ current' = current + 1
    /\ Leaves(c, 0)
    /\ UNCHANGED <<row, open, live, aged, history>>

\* save: the whole record, without a lease.
SaveRefreshed(c) ==
    /\ pc[c] = "save"
    /\ Writes(c, Credential(got[c]))
    /\ Leaves(c, got[c])
    /\ UNCHANGED <<open, live, time, mixed, bounds>>

\* save throws, before or after the record was written.
SaveRefreshedFails(c) ==
    /\ pc[c] = "save"
    /\ Fault
    /\ \/ UNCHANGED <<row, leases, evicted>>
       \/ Writes(c, Credential(got[c]))
    /\ Leaves(c, 0)
    /\ UNCHANGED <<open, live, time, mixed>>

\* markReauthorizationRequired clears any lease.
MarkReauthorizationRequired(c) ==
    /\ pc[c] = "mark"
    /\ Writes(c, [row EXCEPT !.status = "reauthorization-required", !.lease = 0])
    /\ Leaves(c, 0)
    /\ UNCHANGED <<open, live, time, mixed, bounds>>

MarkFails(c) ==
    /\ pc[c] = "mark"
    /\ Fault
    /\ Leaves(c, 0)
    /\ UNCHANGED <<row, open, live, time, history>>

\* The finally clause gives back the lease, if the row still has it.
Release(c) ==
    /\ pc[c] = "release"
    /\ row' = IF row.lease = mine[c] THEN [row EXCEPT !.lease = 0] ELSE row
    /\ Goes(c, IF got[c] = 0 THEN "idle" ELSE "token")
    /\ mine' = [mine EXCEPT ![c] = 0]
    /\ got'  = [got EXCEPT ![c] = 0]
    /\ UNCHANGED copy
    /\ UNCHANGED <<open, live, time, history, bounds>>

ReleaseFails(c) ==
    /\ pc[c] = "release"
    /\ Fault
    /\ Finish(c)
    /\ UNCHANGED <<row, open, live, time, history>>

-----------------------------------------------------------------------------
(* The synchronisation of listings.                                        *)

\* requireConnection again, before the remote listing.
ReadForSync(c) ==
    /\ pc[c] = "token"
    /\ copy' = [copy EXCEPT ![c] = row]
    /\ Goes(c, "list")
    /\ UNCHANGED <<mine, got, row, open, live, time, history, bounds>>

\* After it the record that was read is saved, with a new lastSyncedAt.
SaveSynced(c) ==
    /\ pc[c] = "list"
    /\ Writes(c, copy[c])
    /\ mixed' = (mixed \/ copy[c] # row)
    /\ Finish(c)
    /\ UNCHANGED <<open, live, time, bounds>>

\* Other uses of the token do not write the row; a listing may fail.
Return(c) ==
    /\ pc[c] \in {"token", "list"}
    /\ Finish(c)
    /\ UNCHANGED <<row, open, live, time, history, bounds>>

-----------------------------------------------------------------------------
(* The OAuth login.                                                        *)

BeginAuthorization ==
    /\ logins > 0 /\ logins' = logins - 1
    /\ open' = open + 1
    /\ UNCHANGED <<row, live, callers, time, history, faults, slow, agings>>

StateExpires ==
    /\ open > 0 /\ open' = open - 1
    /\ UNCHANGED <<row, live, callers, time, history, bounds>>

\* The callback's DELETE ... RETURNING.
Consume(c) ==
    /\ pc[c] = "idle"
    /\ open > 0 /\ open' = open - 1
    /\ Goes(c, "exchange")
    /\ UNCHANGED <<copy, mine, got, row, live, time, history, bounds>>

Exchange(c) ==
    /\ pc[c] = "exchange"
    /\ current' = current + 1
    /\ got' = [got EXCEPT ![c] = current']
    /\ Goes(c, "grant")
    /\ UNCHANGED <<copy, mine, row, open, live, aged, history, bounds>>

\* A bad code, or a login with another seller's account.
ExchangeFails(c) ==
    /\ pc[c] = "exchange"
    /\ Finish(c)
    /\ UNCHANGED <<row, open, live, time, history, bounds>>

SaveGrant(c) ==
    /\ pc[c] = "grant"
    /\ Writes(c, Credential(got[c]))
    /\ mixed' = (mixed \/ \E d \in Callers \ {c} : pc[d] # "idle")
    /\ Finish(c)
    /\ UNCHANGED <<open, live, time, bounds>>

SaveGrantFails(c) ==
    /\ pc[c] = "grant"
    /\ Fault
    /\ Finish(c)
    /\ UNCHANGED <<row, open, live, time, history>>

-----------------------------------------------------------------------------
(* Crashes and time.                                                       *)

Crash(c) ==
    /\ pc[c] # "idle"
    /\ Fault
    /\ Finish(c)
    /\ UNCHANGED <<row, open, live, time, history>>

Refreshing(c) == pc[c] \in {"reread", "refresh", "save", "mark"}

\* The lease of a holder that is gone or has stopped refreshing ...
LeaseExpires(l) ==
    /\ l \in live
    /\ \A c \in Callers : Refreshing(c) => mine[c] # l
    /\ live' = live \ {l}
    /\ UNCHANGED <<row, open, callers, time, history, bounds>>

\* ... and of one that is late.
LeaseOutrun(c) ==
    /\ Refreshing(c) /\ mine[c] \in live
    /\ slow > 0 /\ slow' = slow - 1
    /\ live' = live \ {mine[c]}
    /\ UNCHANGED <<row, open, callers, time, history, faults, agings, logins>>

TokenAges ==
    /\ agings > 0 /\ agings' = agings - 1
    /\ aged < current /\ aged' = current
    /\ UNCHANGED <<row, open, live, callers, current, history, faults, slow, logins>>

-----------------------------------------------------------------------------

\* What a caller that has begun owes.
Proceed(c) ==
    \/ Acquire(c) \/ AcquireRefused(c)
    \/ Reread(c) \/ RereadUnusable(c)
    \/ RefreshAccepted(c) \/ RefreshRejected(c)
    \/ SaveRefreshed(c) \/ MarkReauthorizationRequired(c)
    \/ Release(c)
    \/ ReadForSync(c) \/ SaveSynced(c) \/ Return(c)
    \/ Exchange(c) \/ ExchangeFails(c) \/ SaveGrant(c)

Fails(c) ==
    \/ RefreshFails(c) \/ SaveRefreshedFails(c) \/ MarkFails(c)
    \/ ReleaseFails(c) \/ SaveGrantFails(c) \/ Crash(c)

Next ==
    \/ \E c \in Callers :
           Read(c) \/ Consume(c) \/ Proceed(c) \/ Fails(c) \/ LeaseOutrun(c)
    \/ \E l \in live : LeaseExpires(l)
    \/ BeginAuthorization \/ StateExpires \/ TokenAges

Spec == Init /\ [][Next]_vars

\* Every await of a live process is resumed, and clocks move.  No request, no
\* login and no luck is owed.
Fairness ==
    /\ \A c \in Callers : WF_vars(Proceed(c))
    /\ WF_vars(\E l \in live : LeaseExpires(l))

FairSpec == Spec /\ Fairness

-----------------------------------------------------------------------------
(* What the connection promises.                                           *)

\* That much holds as long as nobody's save has removed one of the leases.
LeaseExcludesUnlessEvicted ==
    \A c, d \in Callers :
        Refreshing(c) /\ Refreshing(d) /\ c # d =>
            ~({mine[c], mine[d]} \subseteq live \ evicted)

\* The operator is asked to log in again only for a cause: a call or process
\* that failed, a lease that was outrun, a login under way, or a save built on a
\* row that had changed.  Concurrent refreshes by themselves never lose the
\* single-use token.
ReauthorizationHasCause ==
    row.status = "reauthorization-required" =>
        \/ faults < MaxFaults
        \/ slow < MaxSlow
        \/ mixed
        \/ \E c \in Callers : pc[c] = "grant"

\* A connection whose callers keep asking does not stay at the end of its token:
\* it is refreshed or found to need a login, also after a refresher has died
\* with the lease, or an old lease was written back.
RefreshSettles ==
    []<>(\E c \in Callers : pc[c] = "acquire") =>
        (row.status = "active" /\ Near(row)) ~> ~(row.status = "active" /\ Near(row))
=============================================================================
