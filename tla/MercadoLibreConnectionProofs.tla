-------------------- MODULE MercadoLibreConnectionProofs --------------------
(***************************************************************************)
(* Theorems about MercadoLibreConnection, for every set of callers and any *)
(* number of faults, outrun leases, ageing tokens and logins; and, in the  *)
(* last section, about the inbox of Notifications that runs over it.       *)
(***************************************************************************)
EXTENDS MercadoLibreConnection, TLAPS

-----------------------------------------------------------------------------
(* Types.  A row that has come into being keeps a token: whoever waits in  *)
(* ensureAccessToken or in a synchronisation has seen one, and whoever is  *)
(* about to save a grant has one.                                          *)

Connected(r) ==
    r \in Row /\ r.token \in 1..current /\ r.status # "none" /\ r.lease \in 0..leases

RowOK == row = NoRow \/ Connected(row)

CallerOK(c) ==
    /\ pc[c] \in Place
    /\ mine[c] \in 0..leases
    /\ got[c] \in 0..current
    /\ copy[c] = NoRow \/ Connected(copy[c])
    /\ pc[c] \notin {"idle", "exchange", "grant"} => Connected(row)
    /\ pc[c] \in {"save", "grant"} => got[c] # 0
    /\ pc[c] = "list" => copy[c] # NoRow

CallersOK ==
    /\ pc   \in [Callers -> Place]
    /\ copy \in [Callers -> Row]
    /\ mine \in [Callers -> 0..leases]
    /\ got  \in [Callers -> 0..current]
    /\ \A c \in Callers : CallerOK(c)

WorldOK ==
    /\ open \in Nat /\ live \in SUBSET (1..leases)
    /\ current \in Nat /\ aged \in 0..current
    /\ leases \in Nat /\ evicted \in SUBSET (1..leases) /\ mixed \in BOOLEAN

BoundsOK == faults \in Nat /\ slow \in Nat /\ agings \in Nat /\ logins \in Nat

TypeInv == RowOK /\ CallersOK /\ WorldOK /\ BoundsOK

LEMMA NoRowIsRow == NoRow \in Row /\ NoRow.token = 0 /\ NoRow.lease = 0
BY DEF NoRow, Row

LEMMA RecordType ==
    ASSUME WorldOK, NEW r, r = NoRow \/ Connected(r)
    PROVE  r \in Row /\ r.token \in 0..current /\ (r.status = "none" <=> r.token = 0)
BY NoRowIsRow DEF WorldOK, Connected, NoRow

LEMMA TypeInvImplies == TypeInv => TypeOK
<1> SUFFICES ASSUME TypeInv PROVE TypeOK
  OBVIOUS
<1>1. row \in Row /\ row.token \in 0..current /\ (row.status = "none" <=> row.token = 0)
  BY RecordType DEF TypeInv, RowOK
<1>2. ASSUME NEW c \in Callers PROVE copy[c].token \in 0..current
  BY RecordType DEF TypeInv, CallersOK, CallerOK
<1> QED BY <1>1, <1>2 DEF TypeInv, CallersOK, WorldOK, BoundsOK, TypeOK

LEMMA TypeInvInit == Init => TypeInv
<1> SUFFICES ASSUME Init PROVE TypeInv
  OBVIOUS
<1>1. RowOK
  BY DEF Init, RowOK
<1>2. WorldOK
  <2>1. 0 \in 0..0
    OBVIOUS
  <2> QED BY <2>1 DEF Init, WorldOK
<1>3. BoundsOK
  BY BoundsAssumption DEF Init, BoundsOK
<1>4. CallersOK
  <2>1. ASSUME NEW c \in Callers PROVE CallerOK(c)
    BY DEF Init, CallerOK, Place
  <2> QED BY <2>1, NoRowIsRow DEF Init, CallersOK, Place
<1> QED BY <1>1, <1>2, <1>3, <1>4 DEF TypeInv

\* What happens to the callers when only caller c moves: the others stay well
\* as long as a row that is there stays there.
Moves(c) ==
    /\ pc'   \in [Callers -> Place]
    /\ copy' \in [Callers -> Row]
    /\ mine' \in [Callers -> 0..leases']
    /\ got'  \in [Callers -> 0..current']
    /\ \A d \in Callers \ {c} :
          /\ pc'[d] = pc[d] /\ copy'[d] = copy[d]
          /\ mine'[d] = mine[d] /\ got'[d] = got[d]

Grows == /\ leases' \in Nat /\ leases' >= leases
         /\ current' \in Nat /\ current' >= current

LEMMA OneCallerMoves ==
    ASSUME CallersOK, WorldOK, Grows, NEW c \in Callers, Moves(c),
           Connected(row) => Connected(row)', CallerOK(c)'
    PROVE  CallersOK'
<1>1. ASSUME NEW d \in Callers, d # c PROVE CallerOK(d)'
  <2>1. /\ CallerOK(d) /\ pc'[d] = pc[d] /\ copy'[d] = copy[d]
        /\ mine'[d] = mine[d] /\ got'[d] = got[d]
    BY <1>1 DEF CallersOK, Moves
  <2>2. Connected(copy[d]) => Connected(copy[d])'
    BY <2>1 DEF Connected, WorldOK, Grows
  <2>3. mine[d] \in 0..leases' /\ got[d] \in 0..current'
    BY <2>1 DEF CallerOK, WorldOK, Grows
  <2> QED BY <2>1, <2>2, <2>3 DEF CallerOK
<1> QED BY <1>1 DEF CallersOK, Moves

\* The rows that are written.
LEMMA CredentialIsRow ==
    ASSUME NEW g \in Nat
    PROVE  /\ Credential(g) \in Row /\ Credential(g).token = g
           /\ Credential(g).status = "active" /\ Credential(g).lease = 0
<1>1. Credential(g) \in Row
  BY DEF Credential, Row
<1> QED BY <1>1 DEF Credential

LEMMA LeaseWritten ==
    ASSUME NEW r \in Row, NEW l \in Nat, NEW q, q = [r EXCEPT !.lease = l]
    PROVE  q \in Row /\ q.token = r.token /\ q.status = r.status /\ q.lease = l
BY DEF Row

LEMMA MarkWritten ==
    ASSUME NEW r \in Row, NEW q,
           q = [r EXCEPT !.status = "reauthorization-required", !.lease = 0]
    PROVE  /\ q \in Row /\ q.token = r.token /\ q.lease = 0
           /\ q.status = "reauthorization-required"
BY DEF Row

\* Whoever writes a good row leaves the table well typed.
Evicts(c) ==
    evicted' = IF row.lease \in {0, mine[c], row'.lease}
               THEN evicted
               ELSE evicted \cup {row.lease}

LEMMA EvictedType ==
    ASSUME RowOK, WorldOK, NEW c \in Callers, Evicts(c), UNCHANGED leases
    PROVE  evicted' \in SUBSET (1..leases')
<1>1. row.lease \in 0..leases
  BY NoRowIsRow DEF RowOK, Connected, WorldOK
<1>2. CASE row.lease = 0
  BY <1>2 DEF WorldOK, Evicts
<1>3. CASE row.lease # 0
  <2>1. row.lease \in 1..leases
    BY <1>1, <1>3 DEF WorldOK
  <2> QED BY <2>1 DEF WorldOK, Evicts
<1> QED BY <1>2, <1>3

LEMMA TypeStep == TypeInv /\ [Next]_vars => TypeInv'
<1> SUFFICES ASSUME TypeInv, [Next]_vars PROVE TypeInv'
  OBVIOUS
<1>0. RowOK /\ CallersOK /\ WorldOK /\ BoundsOK
  BY DEF TypeInv
\* Reads of the row.
<1>1. ASSUME NEW c \in Callers,
             Read(c) \/ Reread(c) \/ RereadUnusable(c) \/ ReadForSync(c) \/ Consume(c)
      PROVE TypeInv'
  <2>1. Moves(c)
    BY <1>0, <1>1, RecordType, NoRowIsRow
    DEF Read, Reread, RereadUnusable, ReadForSync, Consume,
        Goes, Finish, Leaves, Moves, CallersOK, WorldOK, RowOK, Place, history, time
  <2>2. CallerOK(c)'
    BY <1>0, <1>1, RecordType, NoRowIsRow
    DEF Read, Reread, RereadUnusable, ReadForSync, Consume,
        Goes, Finish, Leaves, CallersOK, CallerOK, RowOK, WorldOK, NoRow, Place, history,
        time, Connected
  <2>3. Grows /\ WorldOK' /\ BoundsOK' /\ UNCHANGED <<row, leases>>
    <3>1. Grows /\ UNCHANGED <<row, leases>>
      BY <1>0, <1>1 DEF Read, Reread, RereadUnusable, ReadForSync, Consume,
          WorldOK, Grows, history, time
    <3>2. WorldOK'
      <4>1. open' \in Nat /\ UNCHANGED <<live, history>>
        BY <1>0, <1>1 DEF Read, Reread, RereadUnusable, ReadForSync, Consume,
            WorldOK, history
      <4>2. current' \in Nat /\ aged' = aged /\ aged \in 0..current'
        BY <1>0, <1>1 DEF Read, Reread, RereadUnusable, ReadForSync, Consume,
            WorldOK, time
      <4> QED BY <1>0, <4>1, <4>2 DEF WorldOK, history
    <3>3. BoundsOK'
      BY <1>0, <1>1 DEF Read, Reread, RereadUnusable, ReadForSync, Consume,
          Fault, BoundsOK, bounds
    <3> QED BY <3>1, <3>2, <3>3
  <2>4. RowOK' /\ (Connected(row) => Connected(row)')
    BY <1>0, <2>3 DEF RowOK, Connected, Grows, WorldOK
  <2> QED BY <1>0, <2>1, <2>2, <2>3, <2>4, OneCallerMoves DEF TypeInv
\* Answers of the provider.
<1>2. ASSUME NEW c \in Callers,
             RefreshAccepted(c) \/ RefreshRejected(c) \/ RefreshFails(c) \/ Exchange(c)
      PROVE TypeInv'
  <2>1. Moves(c)
    BY <1>0, <1>2, RecordType, NoRowIsRow
    DEF RefreshAccepted, RefreshRejected, RefreshFails, Exchange,
        Goes, Finish, Leaves, Moves, CallersOK, WorldOK, RowOK, Place, history, time
  <2>2. CallerOK(c)'
    BY <1>0, <1>2, RecordType, NoRowIsRow
    DEF RefreshAccepted, RefreshRejected, RefreshFails, Exchange,
        Goes, Finish, Leaves, CallersOK, CallerOK, RowOK, WorldOK, NoRow, Place, history,
        time, Connected
  <2>3. Grows /\ WorldOK' /\ BoundsOK' /\ UNCHANGED <<row, leases>>
    <3>1. Grows /\ UNCHANGED <<row, leases>>
      BY <1>0, <1>2 DEF RefreshAccepted, RefreshRejected, RefreshFails, Exchange,
          WorldOK, Grows, history, time
    <3>2. WorldOK'
      <4>1. open' \in Nat /\ UNCHANGED <<live, history>>
        BY <1>0, <1>2 DEF RefreshAccepted, RefreshRejected, RefreshFails, Exchange,
            WorldOK, history
      <4>2. current' \in Nat /\ aged' = aged /\ aged \in 0..current'
        BY <1>0, <1>2 DEF RefreshAccepted, RefreshRejected, RefreshFails, Exchange,
            WorldOK, time
      <4> QED BY <1>0, <4>1, <4>2 DEF WorldOK, history
    <3>3. BoundsOK'
      BY <1>0, <1>2 DEF RefreshAccepted, RefreshRejected, RefreshFails, Exchange,
          Fault, BoundsOK, bounds
    <3> QED BY <3>1, <3>2, <3>3
  <2>4. RowOK' /\ (Connected(row) => Connected(row)')
    BY <1>0, <2>3 DEF RowOK, Connected, Grows, WorldOK
  <2> QED BY <1>0, <2>1, <2>2, <2>3, <2>4, OneCallerMoves DEF TypeInv
\* Ends and failures that write nothing.
<1>3. ASSUME NEW c \in Callers,
             AcquireRefused(c) \/ MarkFails(c) \/ ReleaseFails(c) \/ Return(c)
             \/ ExchangeFails(c) \/ SaveGrantFails(c) \/ Crash(c)
      PROVE TypeInv'
  <2>1. Moves(c)
    BY <1>0, <1>3, RecordType, NoRowIsRow
    DEF AcquireRefused, MarkFails, ReleaseFails, Return, ExchangeFails, SaveGrantFails, Crash,
        Goes, Finish, Leaves, Moves, CallersOK, WorldOK, RowOK, Place, history, time
  <2>2. CallerOK(c)'
    BY <1>0, <1>3, RecordType, NoRowIsRow
    DEF AcquireRefused, MarkFails, ReleaseFails, Return, ExchangeFails, SaveGrantFails, Crash,
        Goes, Finish, Leaves, CallersOK, CallerOK, RowOK, WorldOK, NoRow, Place, history,
        time, Connected
  <2>3. Grows /\ WorldOK' /\ BoundsOK' /\ UNCHANGED <<row, leases>>
    <3>1. Grows /\ UNCHANGED <<row, leases>>
      BY <1>0, <1>3 DEF AcquireRefused, MarkFails, ReleaseFails, Return, ExchangeFails,
          SaveGrantFails, Crash,
          WorldOK, Grows, history, time
    <3>2. WorldOK'
      <4>1. open' \in Nat /\ UNCHANGED <<live, history>>
        BY <1>0, <1>3 DEF AcquireRefused, MarkFails, ReleaseFails, Return, ExchangeFails,
            SaveGrantFails, Crash,
            WorldOK, history
      <4>2. current' \in Nat /\ aged' = aged /\ aged \in 0..current'
        BY <1>0, <1>3 DEF AcquireRefused, MarkFails, ReleaseFails, Return, ExchangeFails,
            SaveGrantFails, Crash,
            WorldOK, time
      <4> QED BY <1>0, <4>1, <4>2 DEF WorldOK, history
    <3>3. BoundsOK'
      BY <1>0, <1>3 DEF AcquireRefused, MarkFails, ReleaseFails, Return, ExchangeFails,
          SaveGrantFails, Crash,
          Fault, BoundsOK, bounds
    <3> QED BY <3>1, <3>2, <3>3
  <2>4. RowOK' /\ (Connected(row) => Connected(row)')
    BY <1>0, <2>3 DEF RowOK, Connected, Grows, WorldOK
  <2> QED BY <1>0, <2>1, <2>2, <2>3, <2>4, OneCallerMoves DEF TypeInv
<1>4. ASSUME NEW c \in Callers, Acquire(c) PROVE TypeInv'
  <2>0. CallerOK(c) /\ mine[c] \in Nat /\ got[c] \in Nat
    BY <1>0 DEF CallersOK, WorldOK, CallerOK
  <2>1. Connected(row)'
    <3>1. Connected(row) /\ leases + 1 \in Nat /\ row' = [row EXCEPT !.lease = leases + 1]
      BY <1>0, <1>4, <2>0 DEF Acquire, CallerOK, WorldOK
    <3>2. leases' = leases + 1 /\ UNCHANGED current
      BY <1>4 DEF Acquire, time
    <3> QED BY <1>0, <3>1, <3>2, LeaseWritten DEF Connected, WorldOK
  <2>2. RowOK' /\ (Connected(row) => Connected(row)')
    BY <1>0, <2>1 DEF RowOK
  <2>3. evicted' \in SUBSET (1..leases')
    BY <1>0, <1>4 DEF Acquire, WorldOK
  <2>4. Grows /\ WorldOK' /\ BoundsOK'
    BY <1>0, <1>4, <2>3 DEF Acquire, Writes, Fault, WorldOK, BoundsOK, Grows, history, time,
        bounds
  <2>5. Moves(c)
    BY <1>0, <1>4, <2>0, NoRowIsRow
    DEF Acquire, Writes, Goes, Finish, Leaves, Moves, CallersOK, WorldOK, Place, history, time
  <2>6. CallerOK(c)'
    BY <1>0, <1>4, <2>0, <2>1, <2>5
    DEF Acquire, Writes, Goes, Finish, Leaves, Moves, CallersOK, CallerOK, WorldOK, Place,
        history, time, Connected
  <2> QED BY <1>0, <2>2, <2>4, <2>5, <2>6, OneCallerMoves DEF TypeInv
<1>5. ASSUME NEW c \in Callers, SaveRefreshed(c) PROVE TypeInv'
  <2>0. CallerOK(c) /\ mine[c] \in Nat /\ got[c] \in Nat
    BY <1>0 DEF CallersOK, WorldOK, CallerOK
  <2>1. Connected(row)'
    <3>1. row' = Credential(got[c]) /\ got[c] \in 1..current /\ UNCHANGED <<current, leases>>
      BY <1>0, <1>5, <2>0 DEF SaveRefreshed, Writes, CallerOK, WorldOK, time
    <3>2. Credential(got[c]) \in Row /\ Credential(got[c]).token = got[c]
          /\ Credential(got[c]).status = "active" /\ Credential(got[c]).lease = 0
      BY <2>0, CredentialIsRow, NoRowIsRow
    <3> QED BY <1>0, <3>1, <3>2 DEF Connected, WorldOK
  <2>2. RowOK' /\ (Connected(row) => Connected(row)')
    BY <1>0, <2>1 DEF RowOK
  <2>3. evicted' \in SUBSET (1..leases')
    <3>1. (Evicts(c) \/ UNCHANGED evicted) /\ UNCHANGED leases
      BY <1>5 DEF SaveRefreshed, Writes, Evicts
    <3> QED BY <1>0, <3>1, EvictedType DEF WorldOK
  <2>4. Grows /\ WorldOK' /\ BoundsOK'
    BY <1>0, <1>5, <2>3 DEF SaveRefreshed, Writes, Fault, WorldOK, BoundsOK, Grows, history,
        time, bounds
  <2>5. Moves(c)
    BY <1>0, <1>5, <2>0, NoRowIsRow
    DEF SaveRefreshed, Writes, Goes, Finish, Leaves, Moves, CallersOK, WorldOK, Place,
        history, time
  <2>6. CallerOK(c)'
    BY <1>0, <1>5, <2>0, <2>1, <2>5
    DEF SaveRefreshed, Writes, Goes, Finish, Leaves, Moves, CallersOK, CallerOK, WorldOK,
        Place, history, time, Connected
  <2> QED BY <1>0, <2>2, <2>4, <2>5, <2>6, OneCallerMoves DEF TypeInv
<1>6. ASSUME NEW c \in Callers, SaveRefreshedFails(c) PROVE TypeInv'
  <2>0. CallerOK(c) /\ mine[c] \in Nat /\ got[c] \in Nat
    BY <1>0 DEF CallersOK, WorldOK, CallerOK
  <2>1. Connected(row)'
    <3>1. /\ row' = Credential(got[c]) \/ UNCHANGED row
          /\ got[c] \in 1..current /\ UNCHANGED <<current, leases>> /\ Connected(row)
      BY <1>0, <1>6, <2>0 DEF SaveRefreshedFails, Writes, CallerOK, WorldOK, time
    <3>2. Credential(got[c]) \in Row /\ Credential(got[c]).token = got[c]
          /\ Credential(got[c]).status = "active" /\ Credential(got[c]).lease = 0
      BY <2>0, CredentialIsRow, NoRowIsRow
    <3> QED BY <1>0, <3>1, <3>2 DEF Connected, WorldOK
  <2>2. RowOK' /\ (Connected(row) => Connected(row)')
    BY <1>0, <2>1 DEF RowOK
  <2>3. evicted' \in SUBSET (1..leases')
    <3>1. (Evicts(c) \/ UNCHANGED evicted) /\ UNCHANGED leases
      BY <1>6 DEF SaveRefreshedFails, Writes, Evicts
    <3> QED BY <1>0, <3>1, EvictedType DEF WorldOK
  <2>4. Grows /\ WorldOK' /\ BoundsOK'
    BY <1>0, <1>6, <2>3 DEF SaveRefreshedFails, Writes, Fault, WorldOK, BoundsOK, Grows,
        history, time, bounds
  <2>5. Moves(c)
    BY <1>0, <1>6, <2>0, NoRowIsRow
    DEF SaveRefreshedFails, Writes, Goes, Finish, Leaves, Moves, CallersOK, WorldOK, Place,
        history, time
  <2>6. CallerOK(c)'
    BY <1>0, <1>6, <2>0, <2>1, <2>5
    DEF SaveRefreshedFails, Writes, Goes, Finish, Leaves, Moves, CallersOK, CallerOK,
        WorldOK, Place, history, time, Connected
  <2> QED BY <1>0, <2>2, <2>4, <2>5, <2>6, OneCallerMoves DEF TypeInv
<1>7. ASSUME NEW c \in Callers, MarkReauthorizationRequired(c) PROVE TypeInv'
  <2>0. CallerOK(c) /\ mine[c] \in Nat /\ got[c] \in Nat
    BY <1>0 DEF CallersOK, WorldOK, CallerOK
  <2>1. Connected(row)'
    <3>1. /\ row' = [row EXCEPT !.status = "reauthorization-required", !.lease = 0]
          /\ UNCHANGED <<current, leases>> /\ Connected(row)
      BY <1>0, <1>7, <2>0 DEF MarkReauthorizationRequired, Writes, CallerOK, time
    <3>2. /\ row' \in Row /\ row'.token = row.token /\ row'.lease = 0
          /\ row'.status = "reauthorization-required"
      BY <3>1, MarkWritten DEF Connected
    <3> QED BY <1>0, <3>1, <3>2 DEF Connected, WorldOK
  <2>2. RowOK' /\ (Connected(row) => Connected(row)')
    BY <1>0, <2>1 DEF RowOK
  <2>3. evicted' \in SUBSET (1..leases')
    <3>1. (Evicts(c) \/ UNCHANGED evicted) /\ UNCHANGED leases
      BY <1>7 DEF MarkReauthorizationRequired, Writes, Evicts
    <3> QED BY <1>0, <3>1, EvictedType DEF WorldOK
  <2>4. Grows /\ WorldOK' /\ BoundsOK'
    BY <1>0, <1>7, <2>3 DEF MarkReauthorizationRequired, Writes, Fault, WorldOK, BoundsOK,
        Grows, history, time, bounds
  <2>5. Moves(c)
    BY <1>0, <1>7, <2>0, NoRowIsRow
    DEF MarkReauthorizationRequired, Writes, Goes, Finish, Leaves, Moves, CallersOK, WorldOK,
        Place, history, time
  <2>6. CallerOK(c)'
    BY <1>0, <1>7, <2>0, <2>1, <2>5
    DEF MarkReauthorizationRequired, Writes, Goes, Finish, Leaves, Moves, CallersOK,
        CallerOK, WorldOK, Place, history, time, Connected
  <2> QED BY <1>0, <2>2, <2>4, <2>5, <2>6, OneCallerMoves DEF TypeInv
<1>8. ASSUME NEW c \in Callers, Release(c) PROVE TypeInv'
  <2>0. CallerOK(c) /\ mine[c] \in Nat /\ got[c] \in Nat
    BY <1>0 DEF CallersOK, WorldOK, CallerOK
  <2>1. Connected(row)'
    <3>1. /\ row' = [row EXCEPT !.lease = 0] \/ UNCHANGED row
          /\ UNCHANGED <<current, leases>> /\ Connected(row)
      BY <1>0, <1>8, <2>0 DEF Release, CallerOK, history, time
    <3> QED BY <1>0, <3>1, LeaseWritten DEF Connected, WorldOK
  <2>2. RowOK' /\ (Connected(row) => Connected(row)')
    BY <1>0, <2>1 DEF RowOK
  <2>3. evicted' \in SUBSET (1..leases')
    BY <1>0, <1>8 DEF Release, WorldOK, history
  <2>4. Grows /\ WorldOK' /\ BoundsOK'
    BY <1>0, <1>8, <2>3 DEF Release, Writes, Fault, WorldOK, BoundsOK, Grows, history, time,
        bounds
  <2>5. Moves(c)
    BY <1>0, <1>8, <2>0, NoRowIsRow
    DEF Release, Writes, Goes, Finish, Leaves, Moves, CallersOK, WorldOK, Place, history, time
  <2>6. CallerOK(c)'
    BY <1>0, <1>8, <2>0, <2>1, <2>5
    DEF Release, Writes, Goes, Finish, Leaves, Moves, CallersOK, CallerOK, WorldOK, Place,
        history, time, Connected
  <2> QED BY <1>0, <2>2, <2>4, <2>5, <2>6, OneCallerMoves DEF TypeInv
<1>9. ASSUME NEW c \in Callers, SaveSynced(c) PROVE TypeInv'
  <2>0. CallerOK(c) /\ mine[c] \in Nat /\ got[c] \in Nat
    BY <1>0 DEF CallersOK, WorldOK, CallerOK
  <2>1. Connected(row)'
    <3>1. row' = copy[c] /\ UNCHANGED <<current, leases>> /\ Connected(copy[c])
      BY <1>0, <1>9, <2>0 DEF SaveSynced, Writes, CallerOK, time
    <3> QED BY <3>1 DEF Connected
  <2>2. RowOK' /\ (Connected(row) => Connected(row)')
    BY <1>0, <2>1 DEF RowOK
  <2>3. evicted' \in SUBSET (1..leases')
    <3>1. (Evicts(c) \/ UNCHANGED evicted) /\ UNCHANGED leases
      BY <1>9 DEF SaveSynced, Writes, Evicts
    <3> QED BY <1>0, <3>1, EvictedType DEF WorldOK
  <2>4. Grows /\ WorldOK' /\ BoundsOK'
    BY <1>0, <1>9, <2>3 DEF SaveSynced, Writes, Fault, WorldOK, BoundsOK, Grows, history,
        time, bounds
  <2>5. Moves(c)
    BY <1>0, <1>9, <2>0, NoRowIsRow
    DEF SaveSynced, Writes, Goes, Finish, Leaves, Moves, CallersOK, WorldOK, Place, history,
        time
  <2>6. CallerOK(c)'
    BY <1>0, <1>9, <2>0, <2>1, <2>5
    DEF SaveSynced, Writes, Goes, Finish, Leaves, Moves, CallersOK, CallerOK, WorldOK, Place,
        history, time, Connected
  <2> QED BY <1>0, <2>2, <2>4, <2>5, <2>6, OneCallerMoves DEF TypeInv
<1>10. ASSUME NEW c \in Callers, SaveGrant(c) PROVE TypeInv'
  <2>0. CallerOK(c) /\ mine[c] \in Nat /\ got[c] \in Nat
    BY <1>0 DEF CallersOK, WorldOK, CallerOK
  <2>1. Connected(row)'
    <3>1. row' = Credential(got[c]) /\ got[c] \in 1..current /\ UNCHANGED <<current, leases>>
      BY <1>0, <1>10, <2>0 DEF SaveGrant, Writes, CallerOK, WorldOK, time
    <3>2. Credential(got[c]) \in Row /\ Credential(got[c]).token = got[c]
          /\ Credential(got[c]).status = "active" /\ Credential(got[c]).lease = 0
      BY <2>0, CredentialIsRow, NoRowIsRow
    <3> QED BY <1>0, <3>1, <3>2 DEF Connected, WorldOK
  <2>2. RowOK' /\ (Connected(row) => Connected(row)')
    BY <1>0, <2>1 DEF RowOK
  <2>3. evicted' \in SUBSET (1..leases')
    <3>1. (Evicts(c) \/ UNCHANGED evicted) /\ UNCHANGED leases
      BY <1>10 DEF SaveGrant, Writes, Evicts
    <3> QED BY <1>0, <3>1, EvictedType DEF WorldOK
  <2>4. Grows /\ WorldOK' /\ BoundsOK'
    BY <1>0, <1>10, <2>3 DEF SaveGrant, Writes, Fault, WorldOK, BoundsOK, Grows, history,
        time, bounds
  <2>5. Moves(c)
    BY <1>0, <1>10, <2>0, NoRowIsRow
    DEF SaveGrant, Writes, Goes, Finish, Leaves, Moves, CallersOK, WorldOK, Place, history, time
  <2>6. CallerOK(c)'
    BY <1>0, <1>10, <2>0, <2>1, <2>5
    DEF SaveGrant, Writes, Goes, Finish, Leaves, Moves, CallersOK, CallerOK, WorldOK, Place,
        history, time, Connected
  <2> QED BY <1>0, <2>2, <2>4, <2>5, <2>6, OneCallerMoves DEF TypeInv
<1>11. ASSUME \/ BeginAuthorization \/ StateExpires \/ TokenAges
              \/ \E c \in Callers : LeaseOutrun(c)
              \/ \E l \in live : LeaseExpires(l)
      PROVE TypeInv'
  <2>1. UNCHANGED <<row, pc, copy, mine, got, current, leases>> /\ WorldOK' /\ BoundsOK'
    <3>1. UNCHANGED <<row, pc, copy, mine, got, current, leases>>
      BY <1>11 DEF BeginAuthorization, StateExpires, TokenAges, LeaseOutrun, LeaseExpires,
                   callers, history, time
    <3>2. WorldOK'
      <4>1. open' \in Nat /\ live' \subseteq live /\ UNCHANGED history
        BY <1>0, <1>11 DEF BeginAuthorization, StateExpires, TokenAges, LeaseOutrun,
                           LeaseExpires, WorldOK
      <4>2. current' = current /\ aged' \in {aged, current}
        BY <1>11 DEF BeginAuthorization, StateExpires, TokenAges, LeaseOutrun, LeaseExpires,
            time
      <4> QED BY <1>0, <4>1, <4>2 DEF WorldOK, history
    <3>3. BoundsOK'
      BY <1>0, <1>11 DEF BeginAuthorization, StateExpires, TokenAges, LeaseOutrun, LeaseExpires,
                         BoundsOK, bounds
    <3> QED BY <3>1, <3>2, <3>3
  <2> QED BY <1>0, <2>1 DEF TypeInv, RowOK, CallersOK, CallerOK, Connected
<1>12. CASE UNCHANGED vars
  <2>1. UNCHANGED <<row, pc, copy, mine, got, current, leases>> /\ WorldOK' /\ BoundsOK'
    BY <1>0, <1>12 DEF vars, WorldOK, BoundsOK, callers, history, time, bounds
  <2> QED BY <1>0, <2>1 DEF TypeInv, RowOK, CallersOK, CallerOK, Connected
<1> QED
  BY <1>1, <1>2, <1>3, <1>4, <1>5, <1>6, <1>7, <1>8, <1>9, <1>10, <1>11, <1>12
  DEF Next, Proceed, Fails

\* The type invariant holds of every reachable state.
THEOREM TypeCorrect == Spec => []TypeOK
<1>1. Spec => []TypeInv
  BY TypeInvInit, TypeStep, PTL DEF Spec
<1> QED BY <1>1, TypeInvImplies, PTL

-----------------------------------------------------------------------------
(* The lease.  Exclusion is not inductive: it follows from leases being    *)
(* numbered once, and from the row holding the lease of whoever refreshes  *)
(* under one that has neither expired nor been evicted.                    *)

Holding(c) == Refreshing(c) /\ mine[c] \in live \ evicted

LeaseInv ==
    /\ \A c \in Callers : Refreshing(c) => mine[c] # 0
    /\ \A c, d \in Callers : c # d /\ mine[c] = mine[d] => mine[c] = 0
    /\ \A c \in Callers : Holding(c) => row.lease = mine[c]

\* Nobody starts to refresh, and nobody gets a lease.
NoNewHolder ==
    /\ \A d \in Callers : Refreshing(d)' => Refreshing(d) /\ mine'[d] = mine[d]
    /\ \A d \in Callers : mine'[d] \in {mine[d], 0}
    /\ live' \subseteq live

LEMMA CalmStep ==
    ASSUME LeaseInv, NoNewHolder, UNCHANGED <<row, evicted>>
    PROVE  LeaseInv'
BY DEF LeaseInv, NoNewHolder, Holding

\* A write of c that ends its refresh, or is no part of one, takes the lease of
\* another caller only by evicting it.
LEMMA WriteStep ==
    ASSUME LeaseInv, NoNewHolder, NEW c \in Callers, ~Refreshing(c)', Evicts(c)
    PROVE  LeaseInv'
<1>1. ASSUME NEW d \in Callers, Holding(d)' PROVE row'.lease = mine'[d]
  <2>1. d # c
    BY <1>1 DEF Holding
  <2>2. /\ Refreshing(d) /\ mine'[d] = mine[d]
        /\ mine[d] \in live \ evicted /\ mine[d] \notin evicted'
    BY <1>1 DEF Holding, NoNewHolder, Evicts
  <2>3. row.lease = mine[d] /\ mine[d] # 0
    BY <2>2 DEF LeaseInv, Holding
  <2>4. row.lease # mine[c]
    BY <2>1, <2>3 DEF LeaseInv
  <2> QED BY <2>2, <2>3, <2>4 DEF Evicts
<1> QED BY <1>1 DEF LeaseInv, NoNewHolder

LEMMA LeaseInit == Init => LeaseInv
BY DEF Init, LeaseInv, Refreshing, Holding

LEMMA LeaseStep == TypeInv /\ LeaseInv /\ [Next]_vars => LeaseInv'
<1> SUFFICES ASSUME TypeInv, LeaseInv, [Next]_vars PROVE LeaseInv'
  OBVIOUS
<1>0. CallersOK /\ WorldOK
  BY DEF TypeInv
<1>1. ASSUME NEW c \in Callers,
             \/ Read(c) \/ AcquireRefused(c) \/ Reread(c) \/ RereadUnusable(c)
             \/ RefreshAccepted(c) \/ RefreshRejected(c) \/ RefreshFails(c)
             \/ MarkFails(c) \/ ReleaseFails(c) \/ ReadForSync(c) \/ Return(c)
             \/ Consume(c) \/ Exchange(c) \/ ExchangeFails(c) \/ SaveGrantFails(c) \/ Crash(c)
      PROVE LeaseInv'
  <2>1. NoNewHolder
    BY <1>0, <1>1
    DEF Read, AcquireRefused, Reread, RereadUnusable, RefreshAccepted, RefreshRejected,
        RefreshFails, MarkFails, ReleaseFails, ReadForSync, Return, Consume, Exchange,
        ExchangeFails, SaveGrantFails, Crash, Goes, Finish, Leaves, CallersOK, NoNewHolder,
        Refreshing
  <2>2. UNCHANGED <<row, evicted>>
    BY <1>1
    DEF Read, AcquireRefused, Reread, RereadUnusable, RefreshAccepted, RefreshRejected,
        RefreshFails, MarkFails, ReleaseFails, ReadForSync, Return, Consume, Exchange,
        ExchangeFails, SaveGrantFails, Crash, history
  <2> QED BY <2>1, <2>2, CalmStep
<1>2. ASSUME NEW c \in Callers,
             \/ SaveRefreshed(c) \/ SaveRefreshedFails(c) \/ MarkReauthorizationRequired(c)
             \/ SaveSynced(c) \/ SaveGrant(c)
      PROVE LeaseInv'
  <2>1. NoNewHolder /\ ~Refreshing(c)'
    BY <1>0, <1>2
    DEF SaveRefreshed, SaveRefreshedFails, MarkReauthorizationRequired, SaveSynced, SaveGrant,
        Goes, Finish, Leaves, CallersOK, NoNewHolder, Refreshing
  <2>2. Evicts(c) \/ UNCHANGED <<row, evicted>>
    BY <1>2
    DEF SaveRefreshed, SaveRefreshedFails, MarkReauthorizationRequired, SaveSynced, SaveGrant,
        Writes, Evicts
  <2> QED BY <2>1, <2>2, CalmStep, WriteStep
\* The lease that is free is nobody's who holds one, and the new one is new.
<1>3. ASSUME NEW c \in Callers, Acquire(c) PROVE LeaseInv'
  <2>1. /\ row'.lease = leases + 1 /\ mine' = [mine EXCEPT ![c] = leases + 1]
        /\ live' = live \cup {leases + 1} /\ UNCHANGED evicted
        /\ pc' = [pc EXCEPT ![c] = "reread"] /\ row.lease \notin live
    <3>1. row \in Row
      BY TypeInvImplies DEF TypeOK, TypeInv
    <3> QED BY <1>3, <3>1 DEF Acquire, Free, Goes, Row
  <2>2. \A d \in Callers : mine[d] \in 0..leases /\ mine[d] # leases + 1
    BY <1>0 DEF CallersOK, WorldOK
  <2>3. ASSUME NEW d \in Callers, d # c PROVE ~Holding(d)'
    <3>1. mine'[d] = mine[d] /\ (Refreshing(d)' <=> Refreshing(d))
      BY <1>0, <2>1, <2>3 DEF CallersOK, Refreshing
    <3> QED BY <2>1, <2>2, <3>1 DEF LeaseInv, Holding
  <2>4. mine'[c] = leases + 1 /\ leases + 1 # 0
    BY <1>0, <2>1 DEF CallersOK, WorldOK
  <2>5. \A d \in Callers : Refreshing(d)' => mine'[d] # 0
    BY <1>0, <2>1, <2>4 DEF LeaseInv, CallersOK, Refreshing
  <2>6. \A d, e \in Callers : d # e /\ mine'[d] = mine'[e] => mine'[d] = 0
    BY <1>0, <2>1, <2>2 DEF LeaseInv, CallersOK
  <2>7. \A d \in Callers : Holding(d)' => row'.lease = mine'[d]
    BY <2>1, <2>3, <2>4
  <2> QED BY <2>5, <2>6, <2>7 DEF LeaseInv
\* The lease that is given back was the caller's own.
<1>4. ASSUME NEW c \in Callers, Release(c) PROVE LeaseInv'
  <2>1. NoNewHolder /\ ~Refreshing(c)' /\ UNCHANGED evicted
    BY <1>0, <1>4 DEF Release, Goes, CallersOK, NoNewHolder, Refreshing, history
  <2>2. UNCHANGED row \/ row.lease = mine[c]
    BY <1>4 DEF Release
  <2> QED BY <2>1, <2>2, CalmStep, WriteStep DEF Evicts
<1>5. ASSUME \/ BeginAuthorization \/ StateExpires \/ TokenAges
             \/ \E c \in Callers : LeaseOutrun(c)
             \/ \E l \in live : LeaseExpires(l)
             \/ UNCHANGED vars
      PROVE LeaseInv'
  <2>1. UNCHANGED <<row, pc, mine, evicted>> /\ live' \subseteq live
    BY <1>5 DEF BeginAuthorization, StateExpires, TokenAges, LeaseOutrun, LeaseExpires,
                callers, history, vars
  <2> QED BY <2>1, CalmStep DEF NoNewHolder, Refreshing
<1> QED BY <1>1, <1>2, <1>3, <1>4, <1>5 DEF Next, Proceed, Fails

\* "Un lease evita refresh concurrentes", for any number of callers and faults, as
\* far as it goes: two callers refresh at once only if the lease of one of them
\* has expired or was removed from the row by a save of somebody else.
THEOREM LeaseProtects == Spec => []LeaseExcludesUnlessEvicted
<1>1. TypeInv /\ LeaseInv => LeaseExcludesUnlessEvicted
  BY DEF LeaseInv, Holding, LeaseExcludesUnlessEvicted
<1>2. Spec => [](TypeInv /\ LeaseInv)
  BY TypeInvInit, TypeStep, LeaseInit, LeaseStep, PTL DEF Spec
<1> QED BY <1>1, <1>2, PTL
-----------------------------------------------------------------------------
(* The cause of a lost token.  While nothing has failed, nobody has been   *)
(* outrun and no save was mixed with another, the row is the work of one   *)
(* refresher at a time, and only a login can overtake it.                  *)

Calm == faults = MaxFaults /\ slow = MaxSlow /\ ~mixed

Granting(c) == pc[c] = "grant"

\* Whoever refreshes has the lease of the row, and the row's own token.
RefresherInv ==
    \A c \in Callers :
        /\ Refreshing(c) => row.lease = mine[c] /\ mine[c] \in live
        /\ pc[c] = "refresh" => copy[c].token = row.token
        /\ pc[c] = "save" => row.token < got[c]

\* The grant of a login is newer than the row and than a refresh under way.
GrantInv ==
    \A d \in Callers : Granting(d) =>
        /\ row.token < got[d]
        /\ \A c \in Callers : pc[c] = "save" => got[c] < got[d]

\* The last grant is never lost: it is in the row or about to be saved.
LastGrantInv ==
    \/ row.token = current
    \/ \E c \in Callers : pc[c] \in {"save", "grant"} /\ got[c] = current

\* A refused token was overtaken by a login that is still under way.
OvertakenInv ==
    row.status = "reauthorization-required" \/ (\E c \in Callers : pc[c] = "mark") =>
        \E d \in Callers : Granting(d)

CauseInv ==
    /\ faults <= MaxFaults /\ slow <= MaxSlow
    /\ Calm => RefresherInv /\ GrantInv /\ LastGrantInv /\ OvertakenInv

LEMMA CauseInit == Init => CauseInv
<1> SUFFICES ASSUME Init PROVE CauseInv
  OBVIOUS
<1>1. faults <= MaxFaults /\ slow <= MaxSlow
  BY BoundsAssumption DEF Init
<1>2. RefresherInv /\ GrantInv
  BY DEF Init, RefresherInv, GrantInv, Granting, Refreshing
<1>3. LastGrantInv /\ OvertakenInv
  BY NoRowIsRow DEF Init, LastGrantInv, OvertakenInv, NoRow
<1> QED BY <1>1, <1>2, <1>3 DEF CauseInv

\* At most one caller refreshes while the calm lasts.
LEMMA OneRefresher ==
    ASSUME LeaseInv, RefresherInv, NEW c \in Callers, NEW d \in Callers,
           Refreshing(c), Refreshing(d)
    PROVE  c = d
BY DEF LeaseInv, RefresherInv

\* The other callers stay where they are.
Stay(c) ==
    \A d \in Callers \ {c} :
        /\ pc'[d] = pc[d] /\ copy'[d] = copy[d]
        /\ mine'[d] = mine[d] /\ got'[d] = got[d]

\* A step of c that leaves the row and the grants alone, and after which c does not
\* hold a lease it did not hold, preserves the four parts.
Quiet(c) ==
    /\ UNCHANGED <<row, live, current>> /\ Stay(c)
    /\ mine'[c] = mine[c] \/ ~Refreshing(c)'
    /\ Refreshing(c)' => Refreshing(c)
    /\ pc'[c] = "refresh" => copy'[c].token = row.token
    /\ pc[c] \notin {"save", "grant"} /\ pc'[c] \notin {"save", "grant"}
    /\ pc'[c] = "mark" => \E d \in Callers : Granting(d)

LEMMA QuietStep ==
    ASSUME NEW c \in Callers, Quiet(c),
           RefresherInv, GrantInv, LastGrantInv, OvertakenInv
    PROVE  RefresherInv' /\ GrantInv' /\ LastGrantInv' /\ OvertakenInv'
<1>1. \A d \in Callers : Refreshing(d)' => Refreshing(d) /\ mine'[d] = mine[d]
  BY DEF Quiet, Stay, Refreshing
<1>2. \A d \in Callers : (Granting(d)' <=> Granting(d))
                         /\ ((pc'[d] = "save") <=> (pc[d] = "save"))
  BY DEF Quiet, Stay, Granting
<1>3. \A d \in Callers : pc[d] \in {"save", "grant"} => got'[d] = got[d]
  BY DEF Quiet, Stay
<1>4. RefresherInv'
  <2>1. ASSUME NEW d \in Callers, pc'[d] = "refresh" PROVE copy'[d].token = row'.token
    BY <2>1 DEF Quiet, Stay, RefresherInv
  <2> QED BY <1>1, <1>2, <1>3, <2>1 DEF RefresherInv, Quiet
<1>5. GrantInv'
  <2>1. \A d \in Callers : Granting(d) => got'[d] = got[d]
    BY <1>3 DEF Granting
  <2> QED BY <1>2, <1>3, <2>1 DEF GrantInv, Quiet
<1>6. LastGrantInv'
  <2>1. CASE row.token = current
    BY <2>1 DEF LastGrantInv, Quiet
  <2>2. ASSUME NEW d \in Callers, pc[d] \in {"save", "grant"}, got[d] = current
        PROVE LastGrantInv'
    BY <1>2, <1>3, <2>2 DEF LastGrantInv, Quiet, Granting
  <2> QED BY <2>1, <2>2 DEF LastGrantInv
<1>7. OvertakenInv'
  BY <1>2 DEF OvertakenInv, Quiet, Stay
<1> QED BY <1>4, <1>5, <1>6, <1>7

\* The calm is not restored once it is lost.
NoCalmer ==
    /\ faults' \in {faults, faults - 1} /\ slow' \in {slow, slow - 1}
    /\ mixed \in BOOLEAN /\ (mixed => mixed')

LEMMA CalmIsOld ==
    ASSUME TypeInv, faults <= MaxFaults, slow <= MaxSlow, [Next]_vars
    PROVE  faults' <= MaxFaults /\ slow' <= MaxSlow /\ (Calm' => Calm)
<1>1. faults \in Nat /\ slow \in Nat
  BY DEF TypeInv, BoundsOK
<1>2. NoCalmer
  <2>0. mixed \in BOOLEAN
    BY DEF TypeInv, WorldOK
  <2>1. ASSUME NEW c \in Callers, Read(c) \/ Consume(c) \/ LeaseOutrun(c)
        PROVE NoCalmer
    BY <2>0, <2>1 DEF NoCalmer, Read, Consume, LeaseOutrun, bounds, history
  <2>2. ASSUME NEW c \in Callers, Proceed(c) PROVE NoCalmer
    BY <2>0, <2>2 DEF NoCalmer, Proceed, Acquire, AcquireRefused, Reread, RereadUnusable,
       RefreshAccepted, RefreshRejected, SaveRefreshed, MarkReauthorizationRequired,
       Release, ReadForSync, SaveSynced, Return, Exchange, ExchangeFails, SaveGrant,
       bounds, history
  <2>3. ASSUME NEW c \in Callers, Fails(c) PROVE NoCalmer
    BY <2>0, <2>3 DEF NoCalmer, Fails, RefreshFails, SaveRefreshedFails, MarkFails, ReleaseFails,
       SaveGrantFails, Crash, Fault, bounds, history
  <2>4. CASE BeginAuthorization \/ StateExpires \/ TokenAges \/ UNCHANGED vars
    BY <2>0, <2>4 DEF NoCalmer, BeginAuthorization, StateExpires, TokenAges, vars, bounds, history
  <2>5. CASE \E l \in live : LeaseExpires(l)
    BY <2>0, <2>5 DEF NoCalmer, LeaseExpires, bounds, history
  <2> QED BY <2>1, <2>2, <2>3, <2>4, <2>5 DEF Next
<1> QED BY <1>1, <1>2, BoundsAssumption DEF NoCalmer, Calm

LEMMA CauseStep == TypeInv /\ LeaseInv /\ CauseInv /\ [Next]_vars => CauseInv'
<1> SUFFICES ASSUME TypeInv, LeaseInv, CauseInv, [Next]_vars PROVE CauseInv'
  OBVIOUS
<1>0. CallersOK /\ WorldOK /\ RowOK /\ BoundsOK
  BY DEF TypeInv
<1>1. faults' <= MaxFaults /\ slow' <= MaxSlow /\ (Calm' => Calm)
  BY CalmIsOld DEF CauseInv
<1> SUFFICES ASSUME Calm'
             PROVE  RefresherInv' /\ GrantInv' /\ LastGrantInv' /\ OvertakenInv'
  BY <1>1 DEF CauseInv
<1>2. Calm /\ RefresherInv /\ GrantInv /\ LastGrantInv /\ OvertakenInv
  BY <1>1 DEF CauseInv
<1>3. row.token \in 0..current /\ current \in Nat /\ leases \in Nat
  BY TypeInvImplies DEF TypeOK
\* What does not move the row or the grants.
<1>4. ASSUME NEW c \in Callers,
             \/ Read(c) \/ AcquireRefused(c) \/ Reread(c) \/ RereadUnusable(c)
             \/ RefreshRejected(c) \/ ReadForSync(c) \/ Return(c)
             \/ Consume(c) \/ ExchangeFails(c)
      PROVE  Quiet(c)
  <2>1. UNCHANGED <<row, live, current>>
    BY <1>4 DEF Read, AcquireRefused, Reread, RereadUnusable, RefreshRejected,
        ReadForSync, Return, Consume, ExchangeFails, time
  <2>2. Stay(c)
    BY <1>0, <1>4 DEF Read, AcquireRefused, Reread, RereadUnusable, RefreshRejected,
        ReadForSync, Return, Consume, ExchangeFails, Goes, Finish, Leaves, CallersOK, Stay
  <2>3. /\ mine'[c] = mine[c] \/ ~Refreshing(c)'
        /\ Refreshing(c)' => Refreshing(c)
        /\ pc'[c] = "refresh" => copy'[c].token = row.token
        /\ pc[c] \notin {"save", "grant"} /\ pc'[c] \notin {"save", "grant"}
    BY <1>0, <1>4 DEF Read, AcquireRefused, Reread, RereadUnusable, RefreshRejected,
        ReadForSync, Return, Consume, ExchangeFails, Goes, Finish, Leaves, CallersOK,
        Refreshing
  \* Only a login can have made the token of the row old.
  <2>4. ASSUME pc'[c] = "mark" PROVE \E d \in Callers : Granting(d)
    <3>1. RefreshRejected(c)
      BY <1>0, <1>4, <2>4 DEF Read, AcquireRefused, Reread, RereadUnusable,
          ReadForSync, Return, Consume, ExchangeFails, Goes, Finish, Leaves, CallersOK
    <3>2. pc[c] = "refresh" /\ row.token # current
      BY <1>2, <3>1 DEF RefreshRejected, RefresherInv
    <3>3. PICK d \in Callers : pc[d] \in {"save", "grant"}
      BY <1>2, <3>2 DEF LastGrantInv
    <3>4. pc[d] # "save"
      BY <1>2, <3>2, OneRefresher DEF Refreshing
    <3> QED BY <3>3, <3>4 DEF Granting
  <2> QED BY <2>1, <2>2, <2>3, <2>4 DEF Quiet
\* The lease that is acquired was free: nobody refreshes.
<1>5. ASSUME NEW c \in Callers, Acquire(c)
      PROVE  RefresherInv' /\ GrantInv' /\ LastGrantInv' /\ OvertakenInv'
  <2>1. /\ row'.lease = leases + 1 /\ row'.token = row.token /\ row'.status = row.status
        /\ leases + 1 \in live' /\ UNCHANGED <<current, got>>
        /\ pc'[c] = "reread" /\ pc[c] = "acquire" /\ mine'[c] = leases + 1
        /\ \A d \in Callers \ {c} : pc'[d] = pc[d]
    <3>1. row \in Row
      BY TypeInvImplies DEF TypeOK
    <3> QED BY <1>0, <1>3, <1>5, <3>1, LeaseWritten DEF Acquire, Goes, CallersOK, time
  <2>2. \A d \in Callers : ~Refreshing(d)
    BY <1>2, <1>5 DEF RefresherInv, Acquire, Free
  <2>3. \A d \in Callers : Refreshing(d)' => d = c
    BY <2>1, <2>2 DEF Refreshing
  <2>4. RefresherInv'
    BY <2>1, <2>3 DEF RefresherInv, Refreshing
  <2>5. \A d \in Callers : (pc'[d] \in {"save", "grant"} <=> pc[d] \in {"save", "grant"})
                           /\ (Granting(d)' <=> Granting(d)) /\ pc'[d] \notin {"save", "mark"}
    BY <2>1, <2>2 DEF Refreshing, Granting
  <2>6. GrantInv'
    BY <1>2, <2>1, <2>5 DEF GrantInv
  <2>7. LastGrantInv'
    BY <1>2, <2>1, <2>5 DEF LastGrantInv
  <2>8. OvertakenInv'
    BY <1>2, <2>1, <2>5 DEF OvertakenInv
  <2> QED BY <2>4, <2>6, <2>7, <2>8
\* The provider accepts a refresh only while no login has overtaken it.
<1>6. ASSUME NEW c \in Callers, RefreshAccepted(c)
      PROVE  RefresherInv' /\ GrantInv' /\ LastGrantInv' /\ OvertakenInv'
  <2>1. /\ pc[c] = "refresh" /\ pc'[c] = "save" /\ got'[c] = current + 1
        /\ current' = current + 1 /\ UNCHANGED <<row, live, mine>> /\ Stay(c)
    BY <1>0, <1>6 DEF RefreshAccepted, Goes, CallersOK, Stay
  <2>2. row.token = current
    BY <1>2, <1>6 DEF RefreshAccepted, RefresherInv
  <2>3. \A d \in Callers : ~Granting(d)
    <3> SUFFICES ASSUME NEW d \in Callers, Granting(d) PROVE FALSE
      OBVIOUS
    <3>1. row.token < got[d] /\ got[d] \in 0..current
      BY <1>0, <1>2 DEF GrantInv, CallersOK
    <3> QED BY <1>3, <2>2, <3>1
  <2>4. \A d \in Callers : ~Granting(d)'
    BY <2>1, <2>3 DEF Granting, Stay
  <2>5. \A d \in Callers : Refreshing(d)' => d = c
    BY <1>2, <2>1, OneRefresher DEF Refreshing, Stay
  <2>6. RefresherInv'
    BY <1>2, <1>3, <2>1, <2>2, <2>5 DEF RefresherInv, Refreshing
  <2>7. GrantInv'
    BY <2>4 DEF GrantInv
  <2>8. LastGrantInv'
    BY <2>1 DEF LastGrantInv
  <2>9. OvertakenInv'
    <3>1. row.status # "reauthorization-required"
      BY <1>2, <2>3 DEF OvertakenInv
    <3>2. \A d \in Callers : pc'[d] # "mark"
      BY <2>1, <2>5 DEF Refreshing
    <3> QED BY <2>1, <3>1, <3>2 DEF OvertakenInv
  <2> QED BY <2>6, <2>7, <2>8, <2>9
<1>7. ASSUME NEW c \in Callers, Exchange(c)
      PROVE  RefresherInv' /\ GrantInv' /\ LastGrantInv' /\ OvertakenInv'
  <2>1. /\ pc[c] = "exchange" /\ pc'[c] = "grant" /\ got'[c] = current + 1
        /\ current' = current + 1 /\ UNCHANGED <<row, live, mine, copy>> /\ Stay(c)
    BY <1>0, <1>7 DEF Exchange, Goes, CallersOK, Stay
  <2>2. \A d \in Callers : /\ Refreshing(d)' => d # c /\ Refreshing(d)
                           /\ Granting(d) => d # c /\ Granting(d)'
                           /\ pc'[d] \in {"refresh", "save", "mark"} => d # c /\ pc'[d] = pc[d]
    BY <2>1 DEF Refreshing, Granting, Stay
  <2>3. \A d \in Callers : got[d] \in 0..current
    BY <1>0 DEF CallersOK
  <2>4. RefresherInv'
    BY <1>2, <2>1, <2>2 DEF RefresherInv, Stay
  <2>5. GrantInv'
    <3> SUFFICES ASSUME NEW d \in Callers, Granting(d)'
                 PROVE  /\ row.token < got'[d]
                        /\ \A e \in Callers : pc'[e] = "save" => got'[e] < got'[d]
      BY <2>1 DEF GrantInv
    <3>1. CASE d = c
      BY <1>3, <2>1, <2>2, <2>3, <3>1 DEF Stay
    <3>2. CASE d # c
      BY <1>2, <2>1, <2>2, <3>2 DEF GrantInv, Granting, Stay
    <3> QED BY <3>1, <3>2
  <2>6. LastGrantInv'
    BY <2>1 DEF LastGrantInv
  <2>7. OvertakenInv'
    BY <2>1 DEF OvertakenInv, Granting
  <2> QED BY <2>4, <2>5, <2>6, <2>7
\* The refresher saves the newest grant, or an older one than a login is to save.
<1>8. ASSUME NEW c \in Callers, SaveRefreshed(c)
      PROVE  RefresherInv' /\ GrantInv' /\ LastGrantInv' /\ OvertakenInv'
  <2>1. /\ pc[c] = "save" /\ pc'[c] = "release" /\ got'[c] = got[c]
        /\ row' = Credential(got[c]) /\ UNCHANGED <<live, current, mine>> /\ Stay(c)
    BY <1>0, <1>8 DEF SaveRefreshed, Writes, Goes, Leaves, CallersOK, Stay, time
  <2>2. got[c] \in 0..current
    BY <1>0 DEF CallersOK
  <2>3. row'.token = got[c] /\ row'.status = "active"
    BY <1>3, <2>1, <2>2, CredentialIsRow
  <2>4. \A d \in Callers : ~Refreshing(d)'
    BY <1>2, <2>1, OneRefresher DEF Refreshing, Stay
  <2>5. \A d \in Callers : (Granting(d)' <=> Granting(d)) /\ (Granting(d) => got'[d] = got[d])
    BY <2>1 DEF Granting, Stay
  <2>6. RefresherInv'
    BY <2>4 DEF RefresherInv, Refreshing
  <2>7. GrantInv'
    BY <1>2, <2>1, <2>3, <2>4, <2>5 DEF GrantInv, Refreshing
  <2>8. LastGrantInv'
    <3>1. row.token < got[c]
      BY <1>2, <2>1 DEF RefresherInv
    <3>2. PICK d \in Callers : pc[d] \in {"save", "grant"} /\ got[d] = current
      BY <1>2, <1>3, <2>2, <3>1 DEF LastGrantInv
    <3>3. CASE d = c
      BY <2>1, <2>3, <3>2, <3>3 DEF LastGrantInv
    <3>4. CASE d # c
      BY <2>1, <3>2, <3>4 DEF LastGrantInv, Stay
    <3> QED BY <3>3, <3>4
  <2>9. OvertakenInv'
    BY <2>3, <2>4 DEF OvertakenInv, Refreshing
  <2> QED BY <2>6, <2>7, <2>8, <2>9
<1>9. ASSUME NEW c \in Callers, MarkReauthorizationRequired(c)
      PROVE  RefresherInv' /\ GrantInv' /\ LastGrantInv' /\ OvertakenInv'
  <2>1. /\ pc[c] = "mark" /\ pc'[c] = "release"
        /\ row' = [row EXCEPT !.status = "reauthorization-required", !.lease = 0]
        /\ UNCHANGED <<live, current, mine>> /\ Stay(c)
    BY <1>0, <1>9 DEF MarkReauthorizationRequired, Writes, Goes, Leaves, CallersOK, Stay, time
  <2>2. row'.token = row.token
    <3>1. row \in Row
      BY TypeInvImplies DEF TypeOK
    <3> QED BY <2>1, <3>1, MarkWritten
  <2>3. \A d \in Callers : ~Refreshing(d)'
    BY <1>2, <2>1, OneRefresher DEF Refreshing, Stay
  <2>4. \A d \in Callers : (Granting(d)' <=> Granting(d)) /\ (Granting(d) => got'[d] = got[d])
    BY <2>1 DEF Granting, Stay
  <2>5. RefresherInv'
    BY <2>3 DEF RefresherInv, Refreshing
  <2>6. GrantInv'
    BY <1>2, <2>1, <2>2, <2>3, <2>4 DEF GrantInv, Refreshing
  <2>7. \A d \in Callers : pc[d] # "save"
    BY <1>2, <2>1, OneRefresher DEF Refreshing
  <2>8. LastGrantInv'
    BY <1>2, <2>1, <2>2, <2>4, <2>7 DEF LastGrantInv, Granting
  <2>9. OvertakenInv'
    BY <1>2, <2>1, <2>4 DEF OvertakenInv
  <2> QED BY <2>5, <2>6, <2>8, <2>9
\* The lease that is given back is not the one of a refresher.
<1>10. ASSUME NEW c \in Callers, Release(c)
       PROVE  RefresherInv' /\ GrantInv' /\ LastGrantInv' /\ OvertakenInv'
  <2>1. /\ pc[c] = "release" /\ pc'[c] \in {"idle", "token"}
        /\ row' = IF row.lease = mine[c] THEN [row EXCEPT !.lease = 0] ELSE row
        /\ UNCHANGED <<live, current, copy>> /\ Stay(c)
    BY <1>0, <1>10 DEF Release, Goes, CallersOK, Stay, time
  <2>2. row'.token = row.token /\ row'.status = row.status
    <3>1. row \in Row
      BY TypeInvImplies DEF TypeOK
    <3> QED BY <2>1, <3>1, LeaseWritten
  <2>3. \A d \in Callers : /\ Refreshing(d)' => d # c /\ Refreshing(d)
                           /\ Granting(d)' <=> Granting(d)
                           /\ Granting(d) => d # c
                           /\ pc'[d] \in {"refresh", "save", "mark"} <=>
                                 pc[d] \in {"refresh", "save", "mark"}
                           /\ pc[d] \in {"refresh", "save", "mark"} =>
                                 d # c /\ pc'[d] = pc[d]
    BY <2>1 DEF Refreshing, Granting, Stay
  <2>4. RefresherInv'
    <3> SUFFICES ASSUME NEW d \in Callers, d # c
                 PROVE  /\ Refreshing(d)' => row'.lease = mine'[d] /\ mine'[d] \in live
                        /\ pc'[d] = "refresh" => copy'[d].token = row'.token
                        /\ pc'[d] = "save" => row'.token < got'[d]
      BY <2>1, <2>3 DEF RefresherInv
    <3>1. Refreshing(d) => row.lease = mine[d] /\ mine[d] \in live /\ mine[d] # mine[c]
      BY <1>2 DEF RefresherInv, LeaseInv
    <3> QED BY <1>2, <2>1, <2>2, <2>3, <3>1 DEF RefresherInv, Stay
  <2>5. GrantInv'
    BY <1>2, <2>1, <2>2, <2>3 DEF GrantInv, Stay
  <2>6. LastGrantInv'
    BY <1>2, <2>1, <2>2 DEF LastGrantInv, Stay
  <2>7. OvertakenInv'
    BY <1>2, <2>2, <2>3 DEF OvertakenInv
  <2> QED BY <2>4, <2>5, <2>6, <2>7
\* A synchronisation that is not mixed writes what the row already holds.
<1>11. ASSUME NEW c \in Callers, SaveSynced(c)
       PROVE  RefresherInv' /\ GrantInv' /\ LastGrantInv' /\ OvertakenInv'
  <2>1. row' = row
    BY <1>11 DEF SaveSynced, Writes, Calm
  <2>2. pc[c] = "list" /\ pc'[c] = "idle" /\ UNCHANGED <<live, current>> /\ Stay(c)
    BY <1>0, <1>11 DEF SaveSynced, Finish, Goes, CallersOK, Stay, time
  <2>3. Quiet(c)
    BY <2>1, <2>2 DEF Quiet, Refreshing
  <2> QED BY <1>2, <2>3, QuietStep
\* A login that is not mixed is alone, and its grant the last.
<1>12. ASSUME NEW c \in Callers, SaveGrant(c)
       PROVE  RefresherInv' /\ GrantInv' /\ LastGrantInv' /\ OvertakenInv'
  <2>1. /\ pc[c] = "grant" /\ pc'[c] = "idle" /\ row' = Credential(got[c])
        /\ UNCHANGED current /\ Stay(c)
    BY <1>0, <1>12 DEF SaveGrant, Writes, Finish, Goes, CallersOK, Stay, time
  <2>2. \A d \in Callers : d # c => pc[d] = "idle"
    BY <1>12 DEF SaveGrant, Calm
  <2>3. \A d \in Callers : pc'[d] = "idle"
    BY <2>1, <2>2 DEF Stay
  <2>4. got[c] \in 0..current
    BY <1>0 DEF CallersOK
  <2>5. row'.token = got[c] /\ row'.status = "active"
    BY <1>3, <2>1, <2>4, CredentialIsRow
  <2>6. got[c] = current
    <3>1. row.token < got[c]
      BY <1>2, <2>1 DEF GrantInv, Granting
    <3>2. PICK d \in Callers : pc[d] \in {"save", "grant"} /\ got[d] = current
      BY <1>2, <1>3, <2>4, <3>1 DEF LastGrantInv
    <3> QED BY <2>2, <3>2
  <2>7. RefresherInv' /\ GrantInv'
    BY <2>3 DEF RefresherInv, GrantInv, Refreshing, Granting
  <2>8. LastGrantInv'
    BY <2>1, <2>5, <2>6 DEF LastGrantInv
  <2>9. OvertakenInv'
    BY <2>3, <2>5 DEF OvertakenInv
  <2> QED BY <2>7, <2>8, <2>9
\* What fails or is outrun ends the calm.
<1>13. ASSUME NEW c \in Callers, Fails(c) \/ LeaseOutrun(c) PROVE FALSE
  BY <1>0, <1>2, <1>13, BoundsAssumption
  DEF Fails, RefreshFails, SaveRefreshedFails, MarkFails, ReleaseFails, SaveGrantFails,
      Crash, Fault, LeaseOutrun, Calm, BoundsOK
<1>14. ASSUME \/ BeginAuthorization \/ StateExpires \/ TokenAges \/ UNCHANGED vars
              \/ \E l \in live : LeaseExpires(l)
       PROVE  RefresherInv' /\ GrantInv' /\ LastGrantInv' /\ OvertakenInv'
  <2>1. UNCHANGED <<row, pc, copy, mine, got, current>>
    BY <1>14 DEF BeginAuthorization, StateExpires, TokenAges, LeaseExpires, callers, time, vars
  <2>2. \A d \in Callers : Refreshing(d) /\ mine[d] \in live => mine[d] \in live'
    BY <1>14 DEF BeginAuthorization, StateExpires, TokenAges, LeaseExpires, vars
  <2>3. \A d \in Callers : (Refreshing(d)' <=> Refreshing(d)) /\ (Granting(d)' <=> Granting(d))
    BY <2>1 DEF Refreshing, Granting
  <2> QED BY <1>2, <2>1, <2>2, <2>3 DEF RefresherInv, GrantInv, LastGrantInv, OvertakenInv
<1> QED
  BY <1>2, <1>4, <1>5, <1>6, <1>7, <1>8, <1>9, <1>10, <1>11, <1>12, <1>13, <1>14, QuietStep
  DEF Next, Proceed

\* Concurrent refreshes by themselves never lose the single-use token, for any
\* number of callers: an account that requires a new login has had a failed call, a
\* dead process, an outrun lease or a mixed save, or the login is under way.
THEOREM ReauthorizationIsCaused == Spec => []ReauthorizationHasCause
<1>1. TypeInv /\ CauseInv => ReauthorizationHasCause
  <2> SUFFICES ASSUME TypeInv, CauseInv PROVE ReauthorizationHasCause
    OBVIOUS
  <2>1. CASE Calm
    BY <2>1 DEF CauseInv, OvertakenInv, Granting, ReauthorizationHasCause
  <2>2. CASE ~Calm
    BY <2>2, BoundsAssumption
    DEF CauseInv, Calm, TypeInv, BoundsOK, ReauthorizationHasCause
  <2> QED BY <2>1, <2>2
<1>2. Spec => [](TypeInv /\ LeaseInv /\ CauseInv)
  BY TypeInvInit, TypeStep, LeaseInit, LeaseStep, CauseInit, CauseStep, PTL DEF Spec
<1> QED BY <1>1, <1>2, PTL

-----------------------------------------------------------------------------
(* The inbox of notifications, whose synchronisations run over the         *)
(* connection: theorems about Notifications for every set of notices,      *)
(* parts and workers, any batch size and maximum of attempts, and any      *)
(* number of incidents.  The two components share no variable, so the      *)
(* inbox is an instance with variables of its own.                         *)

CONSTANTS Notices, Parts, PartOf, FamilyOf, Workers, Nobody, Limit, MaxAttempts, MaxIncidents

VARIABLES
    state, attempts, owner, leased, due,
    remote, view, stray,
    batch, phase, family, have,
    tells, best, incidents

Inbox == INSTANCE Notifications WITH live <- leased

\* What Notifications assumes of its constants.
InboxParameters ==
    /\ PartOf \in [Notices -> Parts] /\ Nobody \notin Inbox!Families
    /\ Nobody \notin Workers
    /\ Limit \in Nat \ {0} /\ MaxAttempts \in Nat \ {0} /\ MaxIncidents \in Nat

RowsOK ==
    /\ state    \in [Notices -> Inbox!Status]
    /\ attempts \in [Notices -> Nat]
    /\ owner    \in [Notices -> Workers \cup {Nobody}]
    /\ leased     \in [Notices -> BOOLEAN]
    /\ due      \in [Notices -> BOOLEAN]
    /\ incidents \in Nat
    /\ \A n \in Notices : state[n] = "processing" <=> owner[n] # Nobody

DataOK ==
    /\ remote   \in [Parts -> Nat]
    /\ view     \in [Parts -> Nat]
    /\ best     \in [Parts -> Nat]
    /\ tells    \in [Notices -> Nat]
    /\ \A p \in Parts : view[p] <= best[p] /\ best[p] <= remote[p]
    /\ \A n \in Notices : tells[n] <= remote[PartOf[n]]

WorkOK ==
    /\ batch    \in [Workers -> SUBSET (Notices \X Nat)]
    /\ phase    \in [Workers -> Inbox!Phase]
    /\ family   \in [Workers -> Inbox!Families \cup {Nobody}]
    /\ \A w \in Workers : phase[w] = "idle" <=> family[w] = Nobody

\* What was read of a part is no newer than the part.
ReadsOK ==
    /\ stray \in SUBSET (Parts \X Nat)
    /\ have  \in [Workers -> SUBSET (Parts \X Nat)]
    /\ \A w \in Workers : phase[w] # "replace" => have[w] = {}
    /\ \A b \in stray : b[2] <= remote[b[1]]
    /\ \A w \in Workers : \A b \in have[w] : b[2] <= remote[b[1]]

InboxTypeInv == InboxParameters /\ RowsOK /\ DataOK /\ WorkOK /\ ReadsOK

Shown(n) == best[PartOf[n]] >= tells[n]

\* The change that n tells of is among what w has read and not replaced yet.
OnItsWay(w, n) == \E b \in have[w] : b[1] = PartOf[n] /\ b[2] >= tells[n]

InHand(w, n) == n \in Inbox!Members(w) /\ FamilyOf[PartOf[n]] = family[w]

GroupInv(w) ==
    /\ \A n \in Inbox!Members(w) : state[n] # "absent"
    /\ phase[w] = "replace" => \A n \in Inbox!Members(w) : InHand(w, n) => Shown(n) \/ OnItsWay(w, n)
    /\ phase[w] = "mark" => \A n \in Inbox!Members(w) : InHand(w, n) => Shown(n)

ShownInv == Inbox!ProcessedWasShown /\ \A w \in Workers : GroupInv(w)

LEMMA InboxInit ==
    ASSUME InboxParameters, Inbox!Init
    PROVE  InboxTypeInv /\ ShownInv
<1> USE DEF Inbox!Init, InboxParameters
<1>1. RowsOK
  BY DEF RowsOK, Inbox!Status
<1>2. DataOK
  BY DEF DataOK
<1>3. WorkOK
  BY DEF WorkOK, Inbox!Phase
<1>4. ReadsOK
  BY DEF ReadsOK
<1>5. Inbox!ProcessedWasShown
  BY DEF Inbox!ProcessedWasShown
<1>6. \A w \in Workers : GroupInv(w)
  BY DEF GroupInv, Inbox!Members
<1> QED BY <1>1, <1>2, <1>3, <1>4, <1>5, <1>6 DEF InboxTypeInv, ShownInv

-----------------------------------------------------------------------------
\* Steps by what they touch.

\* Leases: rows may leave processing, be taken, expire or come due; nothing new is processed
\* and no absent row appears.
LEMMA RowsStep ==
    ASSUME InboxTypeInv, Inbox!Next
    PROVE  RowsOK'
<1> USE DEF InboxTypeInv, InboxParameters, RowsOK, Inbox!Status
<1>1. ASSUME NEW n \in Notices, Inbox!Ingest(n) PROVE RowsOK'
  BY <1>1 DEF Inbox!Ingest
<1>2. ASSUME NEW n \in Notices, Inbox!RequeueDead(n) PROVE RowsOK'
  BY <1>2 DEF Inbox!RequeueDead, Inbox!Incident
<1>3. ASSUME NEW n \in Notices, Inbox!LeaseExpires(n) \/ Inbox!LeaseOutrun(n) PROVE RowsOK'
  <2>1. Inbox!Expire(n) /\ incidents' \in Nat
    BY <1>3 DEF Inbox!LeaseExpires, Inbox!LeaseOutrun, Inbox!Incident
  <2> QED BY <2>1 DEF Inbox!Expire
<1>4. ASSUME NEW n \in Notices, Inbox!BackoffElapses(n) PROVE RowsOK'
  BY <1>4 DEF Inbox!BackoffElapses
<1>5. ASSUME NEW w \in Workers, Inbox!LeaseBatch(w) PROVE RowsOK'
  <2> PICK some \in SUBSET {n \in Notices : Inbox!Leasable(n)} :
         /\ state'    = [n \in Notices |-> IF n \in some THEN "processing" ELSE state[n]]
         /\ attempts' = [n \in Notices |-> attempts[n] + IF n \in some THEN 1 ELSE 0]
         /\ owner'    = [n \in Notices |-> IF n \in some THEN w ELSE owner[n]]
         /\ leased'     = [n \in Notices |-> leased[n] \/ n \in some]
    BY <1>5 DEF Inbox!LeaseBatch
  <2>1. due' = due /\ incidents' = incidents
    BY <1>5 DEF Inbox!LeaseBatch
  <2>2. leased' \in [Notices -> BOOLEAN]
    OBVIOUS
  <2>3. attempts' \in [Notices -> Nat]
    OBVIOUS
  <2>4. state' \in [Notices -> Inbox!Status] /\ owner' \in [Notices -> Workers \cup {Nobody}]
    OBVIOUS
  <2> QED BY <2>1, <2>2, <2>3, <2>4
<1>6. ASSUME NEW ns, NEW status \in {"processed", "pending", "dead"}, Inbox!Unlock(ns, status)
      PROVE  /\ state' \in [Notices -> Inbox!Status]
             /\ owner' \in [Notices -> Workers \cup {Nobody}]
             /\ leased' \in [Notices -> BOOLEAN] /\ attempts' \in [Notices -> Nat]
             /\ \A n \in Notices : state'[n] = "processing" <=> owner'[n] # Nobody
  <2>1. leased' \in [Notices -> BOOLEAN]
    BY <1>6 DEF Inbox!Unlock
  <2>2. state' \in [Notices -> Inbox!Status] /\ owner' \in [Notices -> Workers \cup {Nobody}]
        /\ attempts' = attempts
    BY <1>6 DEF Inbox!Unlock
  <2>3. \A n \in Notices : state'[n] = "processing" <=> owner'[n] # Nobody
    BY <1>6 DEF Inbox!Unlock
  <2> QED BY <2>1, <2>2, <2>3
<1>7. ASSUME NEW b, b[1] \in Notices, Inbox!Failed(b)
      PROVE  /\ state' \in [Notices -> Inbox!Status]
             /\ owner' \in [Notices -> Workers \cup {Nobody}]
             /\ leased' \in [Notices -> BOOLEAN] /\ attempts' \in [Notices -> Nat]
             /\ due' \in [Notices -> BOOLEAN]
             /\ \A n \in Notices : state'[n] = "processing" <=> owner'[n] # Nobody
  <2>1. due' \in [Notices -> BOOLEAN]
    BY <1>7 DEF Inbox!Failed
  <2>2. Inbox!Unlock({b[1]}, "dead") \/ Inbox!Unlock({b[1]}, "pending")
    BY <1>7 DEF Inbox!Failed
  <2>3. CASE Inbox!Unlock({b[1]}, "dead")
    BY <1>6, <2>1, <2>3
  <2>4. CASE Inbox!Unlock({b[1]}, "pending")
    BY <1>6, <2>1, <2>4
  <2> QED BY <2>2, <2>3, <2>4
<1>8. ASSUME NEW w \in Workers, Inbox!MarkProcessed(w) PROVE RowsOK'
  <2>1. Inbox!Unlock(Inbox!Held(w), "processed") /\ due' = due /\ incidents' = incidents
    BY <1>8 DEF Inbox!MarkProcessed
  <2> QED BY <1>6, <2>1
<1>9. ASSUME NEW w \in Workers, Inbox!MarkProcessedThrows(w) PROVE RowsOK'
  <2>1. due' = due /\ incidents' \in Nat
    BY <1>9 DEF Inbox!MarkProcessedThrows, Inbox!Incident
  <2>2. CASE Inbox!Unlock(Inbox!Held(w), "processed")
    BY <1>6, <2>1, <2>2
  <2>3. CASE UNCHANGED <<state, attempts, owner, leased>>
    BY <2>1, <2>3
  <2> QED BY <1>9, <2>2, <2>3 DEF Inbox!MarkProcessedThrows
<1>10. ASSUME NEW w \in Workers, NEW b \in batch[w], Inbox!MarkFailed(w, b) \/ Inbox!MarkFailedThrows(w, b)
       PROVE  RowsOK'
  <2>1. b[1] \in Notices
    BY DEF WorkOK
  <2>2. incidents' \in Nat
    BY <1>10 DEF Inbox!MarkFailed, Inbox!MarkFailedThrows, Inbox!Incident
  <2>3. CASE Inbox!Failed(b)
    BY <1>7, <2>1, <2>2, <2>3
  <2>4. CASE UNCHANGED Inbox!inbox
    BY <2>2, <2>4 DEF Inbox!inbox
  <2> QED BY <1>10, <2>3, <2>4 DEF Inbox!MarkFailed, Inbox!MarkFailedThrows
<1>11. ASSUME NEW w \in Workers, Inbox!StartGroup(w) \/ Inbox!Synchronise(w) \/ Inbox!Crash(w)
       PROVE  RowsOK'
  <2>1. UNCHANGED Inbox!inbox
    BY <1>11 DEF Inbox!StartGroup, Inbox!Synchronise, Inbox!Crash, Inbox!ReadRemote,
                 Inbox!Replace, Inbox!SyncReturns, Inbox!SyncThrows
  <2>2. ASSUME Inbox!Crash(w) PROVE incidents' \in Nat
    BY <2>2 DEF Inbox!Crash, Inbox!Incident
  <2>3. ASSUME Inbox!StartGroup(w) \/ Inbox!Synchronise(w) PROVE incidents' = incidents
    BY <2>3 DEF Inbox!StartGroup, Inbox!Synchronise, Inbox!ReadRemote, Inbox!Replace,
                Inbox!SyncReturns, Inbox!SyncThrows
  <2> QED BY <1>11, <2>1, <2>2, <2>3 DEF Inbox!inbox
<1>12. ASSUME NEW b \in stray, Inbox!StrayReplaces(b[1], b[2]) PROVE RowsOK'
  BY <1>12 DEF Inbox!StrayReplaces, Inbox!inbox
<1> QED
  BY <1>1, <1>2, <1>3, <1>4, <1>5, <1>8, <1>9, <1>10, <1>11, <1>12 DEF Inbox!Next,
                                                                       Inbox!Loop

\* The remote data and the read model: a change arrives, or a part is shown as it was read.
LEMMA DataStep ==
    ASSUME InboxTypeInv, Inbox!Next
    PROVE  \/ \E n \in Notices : Inbox!Ingest(n)
           \/ \E p \in Parts, v \in Nat : Inbox!Show(p, v) /\ v <= remote[p] /\ UNCHANGED state
           \/ UNCHANGED <<remote, view, tells, best>>
<1> USE DEF Inbox!data, Inbox!inbox
<1>1. ASSUME NEW b, b \in stray, Inbox!StrayReplaces(b[1], b[2])
      PROVE  \/ \E p \in Parts, v \in Nat : Inbox!Show(p, v) /\ v <= remote[p] /\ UNCHANGED state
             \/ UNCHANGED <<remote, view, tells, best>>
  BY <1>1 DEF Inbox!StrayReplaces, InboxTypeInv, ReadsOK
<1>2. ASSUME NEW w \in Workers, NEW b \in have[w], Inbox!Replace(w, b[1], b[2])
      PROVE  \E p \in Parts, v \in Nat : Inbox!Show(p, v) /\ v <= remote[p] /\ UNCHANGED state
  BY <1>2 DEF Inbox!Replace, InboxTypeInv, ReadsOK
<1>3. ASSUME NEW w \in Workers,
             \/ Inbox!LeaseBatch(w) \/ Inbox!StartGroup(w) \/ Inbox!ReadRemote(w)
             \/ Inbox!SyncReturns(w) \/ Inbox!SyncThrows(w)
             \/ Inbox!MarkProcessed(w) \/ Inbox!MarkProcessedThrows(w) \/ Inbox!Crash(w)
             \/ \E b \in batch[w] : Inbox!MarkFailed(w, b) \/ Inbox!MarkFailedThrows(w, b)
      PROVE  UNCHANGED <<remote, view, tells, best>>
  BY <1>3 DEF Inbox!LeaseBatch, Inbox!StartGroup, Inbox!ReadRemote, Inbox!SyncReturns,
              Inbox!SyncThrows, Inbox!MarkProcessed, Inbox!MarkProcessedThrows,
              Inbox!Crash, Inbox!MarkFailed, Inbox!MarkFailedThrows
<1>4. ASSUME NEW n \in Notices,
             Inbox!RequeueDead(n) \/ Inbox!LeaseExpires(n) \/ Inbox!LeaseOutrun(n) \/ Inbox!BackoffElapses(n)
      PROVE  UNCHANGED <<remote, view, tells, best>>
  BY <1>4 DEF Inbox!RequeueDead, Inbox!LeaseExpires, Inbox!LeaseOutrun, Inbox!Expire,
              Inbox!BackoffElapses
<1> QED BY <1>1, <1>2, <1>3, <1>4 DEF Inbox!Next, Inbox!Loop, Inbox!Synchronise

\* The data never forgets: what a notification tells of is fixed once it is there, parts only
\* grow, and what has been shown stays so.
DataGrows ==
    /\ \A n \in Notices : state[n] # "absent" => tells'[n] = tells[n]
    /\ \A p \in Parts : remote[p] <= remote'[p] /\ best[p] <= best'[p]

LEMMA DataKept ==
    ASSUME InboxTypeInv, Inbox!Next
    PROVE  DataOK' /\ DataGrows
<1> USE DEF InboxTypeInv, InboxParameters, DataOK, DataGrows
<1>1. ASSUME NEW n \in Notices, Inbox!Ingest(n) PROVE DataOK' /\ DataGrows
  <2>1. /\ state[n] = "absent" /\ PartOf[n] \in Parts
        /\ remote' = [remote EXCEPT ![PartOf[n]] = @ + 1]
        /\ tells' = [tells EXCEPT ![n] = remote'[PartOf[n]]]
        /\ view' = view /\ best' = best
    BY <1>1 DEF Inbox!Ingest
  <2>2. remote' \in [Parts -> Nat] /\ \A p \in Parts : remote[p] <= remote'[p]
    BY <2>1
  <2>3. remote'[PartOf[n]] \in Nat /\ tells' \in [Notices -> Nat]
    BY <2>1, <2>2
  <2>4. \A m \in Notices : tells'[m] <= remote'[PartOf[m]]
    BY <2>1, <2>2, <2>3
  <2>5. \A p \in Parts : view'[p] <= best'[p] /\ best'[p] <= remote'[p]
    BY <2>1, <2>2
  <2> QED BY <2>1, <2>2, <2>3, <2>4, <2>5
<1>2. ASSUME NEW p \in Parts, NEW v \in Nat, Inbox!Show(p, v), v <= remote[p]
      PROVE  DataOK' /\ DataGrows
  BY <1>2 DEF Inbox!Show
<1>3. CASE UNCHANGED <<remote, view, tells, best>>
  BY <1>3
<1> QED BY <1>1, <1>2, <1>3, DataStep

LEMMA WorkStep ==
    ASSUME InboxTypeInv, Inbox!Next
    PROVE  WorkOK'
<1> USE DEF InboxTypeInv, InboxParameters, WorkOK, Inbox!Phase
<1>1. ASSUME UNCHANGED <<batch, phase, family>> PROVE WorkOK'
  BY <1>1
<1>2. ASSUME NEW w \in Workers, Inbox!LeaseBatch(w) PROVE WorkOK'
  <2>1. attempts' \in [Notices -> Nat]
    BY <1>2, RowsStep DEF RowsOK
  <2>2. PICK some \in SUBSET Notices : batch' = [batch EXCEPT ![w] = {<<n, attempts'[n]>> : n \in some}]
    BY <1>2 DEF Inbox!LeaseBatch
  <2>3. phase' = phase /\ family' = family
    BY <1>2 DEF Inbox!LeaseBatch
  <2> QED BY <2>1, <2>2, <2>3
<1>3. ASSUME NEW w \in Workers, Inbox!StartGroup(w) PROVE WorkOK'
  <2>1. PICK n \in Inbox!Members(w) : family' = [family EXCEPT ![w] = FamilyOf[PartOf[n]]]
    BY <1>3 DEF Inbox!StartGroup
  <2>2. FamilyOf[PartOf[n]] \in Inbox!Families \ {Nobody}
    BY <2>1 DEF Inbox!Members, Inbox!Families
  <2> QED BY <1>3, <2>1, <2>2 DEF Inbox!StartGroup
<1>4. ASSUME NEW w \in Workers, NEW place \in {"mark", "fail"}, Inbox!EndSync(w, place),
             phase[w] \in {"read", "replace"}, UNCHANGED batch
      PROVE  WorkOK'
  BY <1>4 DEF Inbox!EndSync
<1>5. ASSUME NEW w \in Workers, Inbox!Synchronise(w) PROVE WorkOK'
  <2>1. CASE Inbox!ReadRemote(w)
    BY <2>1 DEF Inbox!ReadRemote
  <2>2. CASE \E b \in have[w] : Inbox!Replace(w, b[1], b[2])
    BY <2>2, <1>1 DEF Inbox!Replace
  <2>3. CASE Inbox!SyncReturns(w)
    BY <2>3, <1>4 DEF Inbox!SyncReturns
  <2>4. CASE Inbox!SyncThrows(w)
    BY <2>4, <1>4 DEF Inbox!SyncThrows
  <2> QED BY <1>5, <2>1, <2>2, <2>3, <2>4 DEF Inbox!Synchronise
<1>6. ASSUME NEW w \in Workers, NEW done, Inbox!Settle(w, done) PROVE WorkOK'
  BY <1>6 DEF Inbox!Settle
<1>7. ASSUME NEW w \in Workers, Inbox!Abandon(w) PROVE WorkOK'
  BY <1>7 DEF Inbox!Abandon
<1>8. ASSUME NEW w \in Workers, Inbox!MarkProcessedThrows(w) PROVE WorkOK'
  BY <1>8 DEF Inbox!MarkProcessedThrows
<1>9. ASSUME NEW w \in Workers, Inbox!Loop(w) PROVE WorkOK'
  <2>1. CASE Inbox!MarkProcessed(w)
    BY <2>1, <1>6 DEF Inbox!MarkProcessed
  <2>2. CASE \E b \in batch[w] : Inbox!MarkFailed(w, b) \/ Inbox!MarkFailedThrows(w, b)
    BY <2>2, <1>6, <1>7 DEF Inbox!MarkFailed, Inbox!MarkFailedThrows
  <2> QED BY <1>9, <1>3, <1>5, <1>8, <2>1, <2>2 DEF Inbox!Loop
<1>10. ASSUME NEW n \in Notices,
              \/ Inbox!Ingest(n) \/ Inbox!RequeueDead(n) \/ Inbox!LeaseExpires(n)
              \/ Inbox!LeaseOutrun(n)
              \/ Inbox!BackoffElapses(n)
       PROVE  UNCHANGED Inbox!work
  BY <1>10 DEF Inbox!Ingest, Inbox!RequeueDead, Inbox!LeaseExpires, Inbox!LeaseOutrun,
               Inbox!Expire, Inbox!BackoffElapses
<1>11. ASSUME NEW b \in stray, Inbox!StrayReplaces(b[1], b[2]) PROVE UNCHANGED Inbox!work
  BY <1>11 DEF Inbox!StrayReplaces
<1>12. ASSUME NEW w \in Workers, Inbox!Crash(w) PROVE WorkOK'
  BY <1>12, <1>7 DEF Inbox!Crash
<1>13. CASE UNCHANGED Inbox!work
  BY <1>13, <1>1 DEF Inbox!work
<1> QED BY <1>2, <1>9, <1>10, <1>11, <1>12, <1>13 DEF Inbox!Next

LEMMA ReadsStep ==
    ASSUME InboxTypeInv, Inbox!Next
    PROVE  ReadsOK'
<1> USE DEF InboxTypeInv, InboxParameters, ReadsOK
<1>1. DataOK' /\ DataGrows
  BY DataKept
<1>2. ASSUME NEW r \in SUBSET (Parts \X Nat), \A b \in r : b[2] <= remote[b[1]]
      PROVE  \A b \in r : b[2] <= remote'[b[1]]
  <2> TAKE b \in r
  <2>1. b[1] \in Parts /\ b[2] \in Nat /\ b[2] <= remote[b[1]]
    BY <1>2
  <2>2. remote[b[1]] \in Nat /\ remote'[b[1]] \in Nat /\ remote[b[1]] <= remote'[b[1]]
    BY <1>1, <2>1 DEF DataOK, DataGrows
  <2> QED BY <2>1, <2>2
<1>3. /\ \A b \in stray : b[2] <= remote'[b[1]]
      /\ \A w \in Workers : \A b \in have[w] : b[2] <= remote'[b[1]]
  <2>1. \A w \in Workers : have[w] \in SUBSET (Parts \X Nat)
    OBVIOUS
  <2> QED BY <1>2, <2>1
<1>4. ASSUME NEW w \in Workers, Inbox!ReadRemote(w) PROVE ReadsOK'
  <2> DEFINE read == {<<p, remote[p]>> : p \in {q \in Parts : FamilyOf[q] = family[w]}}
  <2>1. /\ have' = [have EXCEPT ![w] = read] /\ phase' = [phase EXCEPT ![w] = "replace"]
        /\ stray' = stray /\ remote' = remote
    BY <1>4 DEF Inbox!ReadRemote, Inbox!data
  <2>2. read \in SUBSET (Parts \X Nat) /\ \A b \in read : b[2] <= remote[b[1]]
    BY DEF DataOK
  <2> HIDE DEF read
  <2> QED BY <1>3, <2>1, <2>2 DEF WorkOK
<1>5. ASSUME NEW w \in Workers, NEW b \in have[w], Inbox!Replace(w, b[1], b[2])
      PROVE  ReadsOK'
  <2>1. /\ have' = [have EXCEPT ![w] = @ \ {<<b[1], b[2]>>}] /\ phase' = phase /\ stray' = stray
    BY <1>5 DEF Inbox!Replace
  <2> QED BY <1>3, <2>1
<1>6. ASSUME NEW w \in Workers, NEW place \in {"mark", "fail"}, Inbox!EndSync(w, place), UNCHANGED stray
      PROVE  ReadsOK'
  BY <1>3, <1>6 DEF Inbox!EndSync, WorkOK
<1>7. ASSUME NEW w \in Workers, Inbox!SyncThrows(w) PROVE ReadsOK'
  <2>1. PICK left \in SUBSET have[w] : stray' = stray \cup left
    BY <1>7 DEF Inbox!SyncThrows
  <2>2. have' = [have EXCEPT ![w] = {}] /\ phase' = [phase EXCEPT ![w] = "fail"]
    BY <1>7 DEF Inbox!SyncThrows, Inbox!EndSync
  <2> QED BY <1>3, <2>1, <2>2 DEF WorkOK
<1>8. ASSUME NEW b \in stray, Inbox!StrayReplaces(b[1], b[2]) PROVE ReadsOK'
  BY <1>3, <1>8 DEF Inbox!StrayReplaces, Inbox!work
<1>9. ASSUME NEW w \in Workers, Inbox!Abandon(w), UNCHANGED stray PROVE ReadsOK'
  BY <1>3, <1>9 DEF Inbox!Abandon, WorkOK
<1>10. ASSUME UNCHANGED <<have, stray>>,
              \A w \in Workers : phase'[w] = "replace" <=> phase[w] = "replace"
       PROVE  ReadsOK'
  BY <1>3, <1>10
<1>11. ASSUME NEW w \in Workers,
              Inbox!LeaseBatch(w) \/ Inbox!StartGroup(w) \/ Inbox!MarkProcessed(w) \/ Inbox!MarkProcessedThrows(w)
              \/ \E b \in batch[w] : Inbox!MarkFailed(w, b)
       PROVE  ReadsOK'
  <2>1. UNCHANGED <<have, stray>>
    BY <1>11 DEF Inbox!LeaseBatch, Inbox!StartGroup, Inbox!MarkProcessed,
                 Inbox!MarkProcessedThrows, Inbox!MarkFailed, Inbox!Settle, Inbox!data
  <2>2. CASE Inbox!StartGroup(w)
    BY <2>1, <2>2, <1>10 DEF Inbox!StartGroup, WorkOK
  <2>3. CASE Inbox!LeaseBatch(w)
    BY <2>1, <2>3, <1>10 DEF Inbox!LeaseBatch
  <2>4. CASE Inbox!MarkProcessed(w) \/ \E b \in batch[w] : Inbox!MarkFailed(w, b)
    <3>1. PICK done : Inbox!Settle(w, done) /\ phase[w] # "replace"
      BY <2>4 DEF Inbox!MarkProcessed, Inbox!MarkFailed
    <3> QED BY <2>1, <3>1, <1>10 DEF Inbox!Settle, WorkOK
  <2>5. CASE Inbox!MarkProcessedThrows(w)
    BY <2>1, <2>5, <1>10 DEF Inbox!MarkProcessedThrows, WorkOK
  <2> QED BY <1>11, <2>2, <2>3, <2>4, <2>5
<1>12. ASSUME NEW w \in Workers, Inbox!Synchronise(w) \/ Inbox!Crash(w) \/ \E b \in batch[w] : Inbox!MarkFailedThrows(w, b)
       PROVE  ReadsOK'
  <2>1. CASE Inbox!SyncReturns(w)
    BY <2>1, <1>6 DEF Inbox!SyncReturns, Inbox!data
  <2>2. CASE Inbox!Crash(w) \/ \E b \in batch[w] : Inbox!MarkFailedThrows(w, b)
    BY <2>2, <1>9 DEF Inbox!Crash, Inbox!MarkFailedThrows, Inbox!data
  <2> QED BY <1>12, <1>4, <1>5, <1>7, <2>1, <2>2 DEF Inbox!Synchronise
<1>13. ASSUME NEW n \in Notices,
              \/ Inbox!Ingest(n) \/ Inbox!RequeueDead(n) \/ Inbox!LeaseExpires(n)
              \/ Inbox!LeaseOutrun(n)
              \/ Inbox!BackoffElapses(n)
       PROVE  ReadsOK'
  BY <1>13, <1>10 DEF Inbox!Ingest, Inbox!RequeueDead, Inbox!LeaseExpires,
                      Inbox!LeaseOutrun, Inbox!Expire, Inbox!BackoffElapses, Inbox!work,
                      Inbox!data
<1> QED BY <1>8, <1>11, <1>12, <1>13 DEF Inbox!Next, Inbox!Loop

LEMMA InboxTypeStep ==
    ASSUME InboxTypeInv, [Inbox!Next]_Inbox!vars
    PROVE  InboxTypeInv'
<1>1. CASE Inbox!Next
  BY <1>1, RowsStep, DataKept, WorkStep, ReadsStep DEF InboxTypeInv
<1>2. CASE UNCHANGED Inbox!vars
  BY <1>2 DEF Inbox!vars, Inbox!inbox, Inbox!data, Inbox!work, InboxTypeInv, RowsOK,
              DataOK, WorkOK, ReadsOK
<1> QED BY <1>1, <1>2

\* The type invariant of the inbox, the read model and the processors.
THEOREM InboxTypeCorrect ==
    ASSUME InboxParameters
    PROVE  Inbox!Spec => []Inbox!TypeOK
<1>1. Inbox!Init => InboxTypeInv
  BY InboxInit
<1>2. InboxTypeInv => Inbox!TypeOK
  BY DEF InboxTypeInv, RowsOK, DataOK, WorkOK, ReadsOK, Inbox!TypeOK
<1> QED BY <1>1, <1>2, InboxTypeStep, PTL DEF Inbox!Spec

-----------------------------------------------------------------------------
\* What has been shown of a notification that is there stays shown.
LEMMA ShownStays ==
    ASSUME InboxTypeInv, Inbox!Next, NEW n \in Notices, state[n] # "absent", Shown(n)
    PROVE  Shown(n)'
<1>1. PartOf[n] \in Parts /\ DataOK' /\ DataGrows /\ DataOK
  BY DataKept DEF InboxTypeInv, InboxParameters
<1>2. tells'[n] = tells[n] /\ best[PartOf[n]] <= best'[PartOf[n]]
  BY <1>1 DEF DataGrows
<1> QED BY <1>1, <1>2 DEF Shown, DataOK

\* No row is forgotten.
LEMMA RowsStay ==
    ASSUME InboxTypeInv, Inbox!Next, NEW n \in Notices, state[n] # "absent"
    PROVE  state'[n] # "absent"
<1> USE DEF Inbox!inbox, Inbox!data, InboxTypeInv, RowsOK, DataOK
<1>1. ASSUME NEW m \in Notices, Inbox!Ingest(m) \/ Inbox!RequeueDead(m)
      PROVE  state'[n] # "absent"
  BY <1>1 DEF Inbox!Ingest, Inbox!RequeueDead
<1>2. ASSUME NEW w \in Workers, Inbox!LeaseBatch(w) PROVE state'[n] # "absent"
  BY <1>2 DEF Inbox!LeaseBatch
<1>3. ASSUME NEW ns, NEW status \in {"processed", "pending", "dead"}, Inbox!Unlock(ns, status)
      PROVE  state'[n] # "absent"
  BY <1>3 DEF Inbox!Unlock
<1>4. ASSUME NEW w \in Workers,
             \/ Inbox!MarkProcessed(w) \/ Inbox!MarkProcessedThrows(w)
             \/ \E b \in batch[w] : Inbox!MarkFailed(w, b) \/ Inbox!MarkFailedThrows(w, b)
      PROVE  UNCHANGED state
             \/ \E ns : \E status \in {"processed", "pending", "dead"} : Inbox!Unlock(ns, status)
  <2>1. ASSUME NEW b, Inbox!Failed(b)
        PROVE  \E ns : \E status \in {"processed", "pending", "dead"} : Inbox!Unlock(ns, status)
    BY <2>1 DEF Inbox!Failed
  <2>2. CASE Inbox!MarkProcessed(w)
    BY <2>2 DEF Inbox!MarkProcessed
  <2>3. CASE Inbox!MarkProcessedThrows(w)
    BY <2>3 DEF Inbox!MarkProcessedThrows
  <2>4. CASE \E b \in batch[w] : Inbox!MarkFailed(w, b) \/ Inbox!MarkFailedThrows(w, b)
    BY <2>1, <2>4 DEF Inbox!MarkFailed, Inbox!MarkFailedThrows
  <2> QED BY <1>4, <2>2, <2>3, <2>4
<1>5. ASSUME NEW w \in Workers, Inbox!StartGroup(w) \/ Inbox!Synchronise(w) \/ Inbox!Crash(w)
      PROVE  UNCHANGED state
  BY <1>5 DEF Inbox!StartGroup, Inbox!Synchronise, Inbox!Crash, Inbox!ReadRemote,
              Inbox!Replace, Inbox!SyncReturns, Inbox!SyncThrows
<1>6. ASSUME NEW b \in stray, Inbox!StrayReplaces(b[1], b[2]) PROVE UNCHANGED state
  BY <1>6 DEF Inbox!StrayReplaces
<1>7. ASSUME NEW m \in Notices, Inbox!LeaseExpires(m) \/ Inbox!LeaseOutrun(m) \/ Inbox!BackoffElapses(m)
      PROVE  UNCHANGED state
  BY <1>7 DEF Inbox!LeaseExpires, Inbox!LeaseOutrun, Inbox!Expire, Inbox!BackoffElapses
<1> QED BY <1>1, <1>2, <1>3, <1>4, <1>5, <1>6, <1>7 DEF Inbox!Next, Inbox!Loop

\* Only a worker whose synchronisation has returned makes a row processed.
LEMMA ProcessedByMark ==
    ASSUME InboxTypeInv, Inbox!Next, NEW n \in Notices, state'[n] = "processed", state[n] # "processed"
    PROVE  \E w \in Workers : phase[w] = "mark" /\ n \in Inbox!Held(w)
<1> USE DEF Inbox!inbox, Inbox!data, InboxTypeInv, RowsOK
<1>1. ASSUME NEW m \in Notices, Inbox!Ingest(m) \/ Inbox!RequeueDead(m) PROVE FALSE
  BY <1>1 DEF Inbox!Ingest, Inbox!RequeueDead
<1>2. ASSUME NEW w \in Workers, Inbox!LeaseBatch(w) PROVE FALSE
  BY <1>2 DEF Inbox!LeaseBatch
<1>3. ASSUME NEW w \in Workers, Inbox!MarkProcessed(w) \/ Inbox!MarkProcessedThrows(w)
      PROVE  phase[w] = "mark" /\ n \in Inbox!Held(w)
  <2>1. phase[w] = "mark" /\ (Inbox!Unlock(Inbox!Held(w), "processed") \/ UNCHANGED state)
    BY <1>3 DEF Inbox!MarkProcessed, Inbox!MarkProcessedThrows
  <2> QED BY <2>1 DEF Inbox!Unlock
<1>4. ASSUME NEW w \in Workers, NEW b \in batch[w], Inbox!MarkFailed(w, b) \/ Inbox!MarkFailedThrows(w, b)
      PROVE  FALSE
  <2>1. Inbox!Failed(b) \/ UNCHANGED state
    BY <1>4 DEF Inbox!MarkFailed, Inbox!MarkFailedThrows
  <2> QED BY <2>1 DEF Inbox!Failed, Inbox!Unlock
<1>5. ASSUME NEW w \in Workers, Inbox!StartGroup(w) \/ Inbox!Synchronise(w) \/ Inbox!Crash(w)
      PROVE  UNCHANGED state
  BY <1>5 DEF Inbox!StartGroup, Inbox!Synchronise, Inbox!Crash, Inbox!ReadRemote,
              Inbox!Replace, Inbox!SyncReturns, Inbox!SyncThrows
<1>6. ASSUME NEW b \in stray, Inbox!StrayReplaces(b[1], b[2]) PROVE UNCHANGED state
  BY <1>6 DEF Inbox!StrayReplaces
<1>7. ASSUME NEW m \in Notices, Inbox!LeaseExpires(m) \/ Inbox!LeaseOutrun(m) \/ Inbox!BackoffElapses(m)
      PROVE  UNCHANGED state
  BY <1>7 DEF Inbox!LeaseExpires, Inbox!LeaseOutrun, Inbox!Expire, Inbox!BackoffElapses
<1> QED BY <1>1, <1>2, <1>3, <1>4, <1>5, <1>6, <1>7 DEF Inbox!Next, Inbox!Loop

\* A worker whose hand is not touched keeps what its synchronisation owes.
LEMMA GroupStays ==
    ASSUME InboxTypeInv, Inbox!Next, NEW w \in Workers, GroupInv(w), phase'[w] = phase[w],
           phase[w] \in {"replace", "mark"} => family'[w] = family[w] /\ have'[w] = have[w],
           batch'[w] \subseteq batch[w]
    PROVE  GroupInv(w)'
<1> USE DEF InboxTypeInv
<1>1. \A n \in Inbox!Members(w)' : n \in Inbox!Members(w) /\ n \in Notices
  BY DEF Inbox!Members, WorkOK
<1>2. \A n \in Inbox!Members(w)' : state'[n] # "absent"
  BY <1>1, RowsStay DEF GroupInv
<1>3. ASSUME NEW n \in Inbox!Members(w), n \in Notices
      PROVE  tells'[n] = tells[n] /\ (Shown(n) => Shown(n)')
  BY <1>3, ShownStays, DataKept DEF GroupInv, DataGrows
<1>4. CASE phase[w] \in {"replace", "mark"}
  <2>1. \A n \in Inbox!Members(w)' : InHand(w, n)' => InHand(w, n)
    BY <1>1, <1>4 DEF InHand
  <2>2. \A n \in Inbox!Members(w)' : OnItsWay(w, n) => OnItsWay(w, n)'
    BY <1>1, <1>3, <1>4 DEF OnItsWay
  <2> QED BY <1>1, <1>2, <1>3, <2>1, <2>2 DEF GroupInv
<1> QED BY <1>2, <1>4 DEF GroupInv

\* A worker that neither replaces nor marks after a step owes nothing but known rows.
LEMMA GroupIdle ==
    ASSUME InboxTypeInv, Inbox!Next, NEW w \in Workers, GroupInv(w),
           phase'[w] \notin {"replace", "mark"}, batch'[w] \subseteq batch[w]
    PROVE  GroupInv(w)'
<1>1. \A n \in Inbox!Members(w)' : n \in Inbox!Members(w) /\ n \in Notices
  BY DEF Inbox!Members, InboxTypeInv, WorkOK
<1> QED BY <1>1, RowsStay DEF GroupInv

\* What a step of one worker leaves of another.
LEMMA OthersStay ==
    ASSUME InboxTypeInv, Inbox!Next, NEW w \in Workers, NEW u \in Workers, u # w, GroupInv(u),
           Inbox!LeaseBatch(w) \/ Inbox!Loop(w) \/ Inbox!Crash(w)
    PROVE  GroupInv(u)'
<1> USE DEF InboxTypeInv, WorkOK, ReadsOK, Inbox!data
<1>1. phase'[u] = phase[u] /\ family'[u] = family[u] /\ have'[u] = have[u] /\ batch'[u] = batch[u]
  <2>1. CASE Inbox!LeaseBatch(w)
    BY <2>1 DEF Inbox!LeaseBatch
  <2>2. CASE Inbox!StartGroup(w)
    BY <2>2 DEF Inbox!StartGroup
  <2>3. CASE Inbox!ReadRemote(w)
    BY <2>3 DEF Inbox!ReadRemote
  <2>4. CASE \E b \in have[w] : Inbox!Replace(w, b[1], b[2])
    BY <2>4 DEF Inbox!Replace
  <2>5. CASE Inbox!SyncReturns(w) \/ Inbox!SyncThrows(w)
    BY <2>5 DEF Inbox!SyncReturns, Inbox!SyncThrows, Inbox!EndSync
  <2>6. CASE Inbox!MarkProcessed(w) \/ \E b \in batch[w] : Inbox!MarkFailed(w, b)
    BY <2>6 DEF Inbox!MarkProcessed, Inbox!MarkFailed, Inbox!Settle
  <2>7. CASE Inbox!MarkProcessedThrows(w)
    BY <2>7 DEF Inbox!MarkProcessedThrows
  <2>8. CASE Inbox!Crash(w) \/ \E b \in batch[w] : Inbox!MarkFailedThrows(w, b)
    BY <2>8 DEF Inbox!Crash, Inbox!MarkFailedThrows, Inbox!Abandon
  <2> QED BY <2>1, <2>2, <2>3, <2>4, <2>5, <2>6, <2>7, <2>8 DEF Inbox!Loop,
                                                                Inbox!Synchronise
<1> QED BY <1>1, GroupStays

LEMMA GroupStep ==
    ASSUME InboxTypeInv, \A w \in Workers : GroupInv(w), Inbox!Next
    PROVE  \A w \in Workers : GroupInv(w)'
<1> USE DEF InboxParameters
<1> USE DEF InboxTypeInv
<1>1. ASSUME NEW w \in Workers, Inbox!LeaseBatch(w) PROVE GroupInv(w)'
  <2>1. PICK some \in SUBSET {n \in Notices : Inbox!Leasable(n)} :
          batch' = [batch EXCEPT ![w] = {<<n, attempts'[n]>> : n \in some}]
    BY <1>1 DEF Inbox!LeaseBatch
  <2>2. phase'[w] = "idle" /\ \A n \in Inbox!Members(w)' : n \in Notices /\ Inbox!Leasable(n)
    <3>1. phase'[w] = "idle" /\ batch'[w] = {<<n, attempts'[n]>> : n \in some}
      BY <1>1, <2>1 DEF Inbox!LeaseBatch, WorkOK
    <3>2. \A n \in Inbox!Members(w)' : n \in some
      BY <3>1 DEF Inbox!Members
    <3> QED BY <3>1, <3>2
  <2>3. \A n \in Inbox!Members(w)' : state'[n] # "absent"
    BY <2>2, RowsStay DEF Inbox!Leasable
  <2> QED BY <2>2, <2>3 DEF GroupInv
<1>2. ASSUME NEW w \in Workers, Inbox!StartGroup(w) \/ Inbox!MarkProcessedThrows(w)
      PROVE  GroupInv(w)'
  BY <1>2, GroupIdle DEF Inbox!StartGroup, Inbox!MarkProcessedThrows, WorkOK
<1>3. ASSUME NEW w \in Workers, Inbox!ReadRemote(w) PROVE GroupInv(w)'
  <2>1. /\ have'[w] = {<<p, remote[p]>> : p \in {q \in Parts : FamilyOf[q] = family[w]}}
        /\ phase'[w] = "replace" /\ batch' = batch /\ family' = family /\ tells' = tells
        /\ state' = state /\ remote' = remote
    BY <1>3 DEF Inbox!ReadRemote, WorkOK, ReadsOK, Inbox!data, Inbox!inbox
  <2>2. ASSUME NEW n \in Inbox!Members(w), InHand(w, n) PROVE OnItsWay(w, n)'
    <3>1. n \in Notices /\ PartOf[n] \in Parts /\ FamilyOf[PartOf[n]] = family[w]
      BY <2>2 DEF InHand, Inbox!Members, WorkOK
    <3>2. <<PartOf[n], remote[PartOf[n]]>> \in have'[w]
      BY <2>1, <3>1
    <3>3. remote[PartOf[n]] >= tells'[n]
      BY <2>1, <3>1 DEF DataOK
    <3> QED BY <3>2, <3>3 DEF OnItsWay
  <2>3. \A n \in Inbox!Members(w) : state[n] # "absent"
    BY DEF GroupInv
  <2> QED BY <2>1, <2>2, <2>3 DEF GroupInv, Inbox!Members, InHand
<1>4. ASSUME NEW w \in Workers, NEW b \in have[w], Inbox!Replace(w, b[1], b[2])
      PROVE  GroupInv(w)'
  <2>1. b[1] \in Parts /\ b[2] \in Nat /\ b = <<b[1], b[2]>>
    BY DEF ReadsOK
  <2>2. /\ Inbox!Show(b[1], b[2]) /\ have' = [have EXCEPT ![w] = @ \ {b}]
        /\ batch' = batch /\ phase' = phase /\ family' = family /\ state' = state
    BY <1>4, <2>1 DEF Inbox!Replace, Inbox!inbox
  <2>3. phase[w] = "replace"
    BY DEF ReadsOK
  <2>4. ASSUME NEW n \in Inbox!Members(w), InHand(w, n) PROVE Shown(n)' \/ OnItsWay(w, n)'
    <3>1. n \in Notices /\ PartOf[n] \in Parts /\ state[n] # "absent" /\ tells' = tells
      BY <2>2 DEF Inbox!Members, WorkOK, GroupInv, Inbox!Show
    <3>2. CASE Shown(n)
      BY <3>1, <3>2, ShownStays
    <3>3. ASSUME NEW c \in have[w], c[1] = PartOf[n], c[2] >= tells[n], c # b
          PROVE  OnItsWay(w, n)'
      <4>1. c \in have'[w]
        BY <2>2, <3>3 DEF ReadsOK
      <4> QED BY <3>1, <3>3, <4>1 DEF OnItsWay
    <3>4. CASE b[1] = PartOf[n] /\ b[2] >= tells[n]
      <4>1. best'[PartOf[n]] \in Nat /\ best'[PartOf[n]] >= b[2] /\ tells[n] \in Nat
        BY <2>1, <2>2, <3>1, <3>4 DEF Inbox!Show, DataOK
      <4> QED BY <2>1, <3>1, <3>4, <4>1 DEF Shown
    <3> QED BY <2>3, <2>4, <3>2, <3>3, <3>4 DEF GroupInv, OnItsWay
  <2>5. \A n \in Inbox!Members(w)' : n \in Inbox!Members(w) /\ state'[n] # "absent" /\ (InHand(w, n)' => InHand(w, n))
    BY <2>2 DEF Inbox!Members, GroupInv, InHand
  <2> QED BY <2>2, <2>3, <2>4, <2>5 DEF GroupInv
<1>5. ASSUME NEW w \in Workers, Inbox!SyncReturns(w) PROVE GroupInv(w)'
  <2>1. /\ phase[w] = "replace" /\ have[w] = {} /\ phase'[w] = "mark"
        /\ batch' = batch /\ family' = family /\ state' = state /\ best' = best /\ tells' = tells
    BY <1>5 DEF Inbox!SyncReturns, Inbox!EndSync, WorkOK, Inbox!inbox, Inbox!data
  <2>2. \A n \in Inbox!Members(w) : state[n] # "absent" /\ (InHand(w, n) => Shown(n))
    BY <2>1 DEF GroupInv, OnItsWay
  <2> QED BY <2>1, <2>2 DEF GroupInv, Inbox!Members, InHand, Shown
<1>6. ASSUME NEW w \in Workers,
             Inbox!SyncThrows(w) \/ Inbox!Crash(w) \/ \E b \in batch[w] : Inbox!MarkFailedThrows(w, b)
      PROVE  GroupInv(w)'
  <2>1. phase'[w] \notin {"replace", "mark"} /\ batch'[w] \subseteq batch[w]
    BY <1>6 DEF Inbox!SyncThrows, Inbox!EndSync, Inbox!Crash, Inbox!MarkFailedThrows,
                Inbox!Abandon, WorkOK
  <2> QED BY <2>1, GroupIdle
<1>7. ASSUME NEW w \in Workers, Inbox!MarkProcessed(w) \/ \E b \in batch[w] : Inbox!MarkFailed(w, b)
      PROVE  GroupInv(w)'
  <2>1. phase'[w] \notin {"replace", "mark"} /\ batch'[w] \subseteq batch[w]
    BY <1>7 DEF Inbox!MarkProcessed, Inbox!MarkFailed, Inbox!Settle, WorkOK
  <2> QED BY <2>1, GroupIdle
<1>8. ASSUME NEW n \in Notices,
             \/ Inbox!Ingest(n) \/ Inbox!RequeueDead(n) \/ Inbox!LeaseExpires(n)
             \/ Inbox!LeaseOutrun(n)
             \/ Inbox!BackoffElapses(n),
             NEW w \in Workers
      PROVE  GroupInv(w)'
  <2>1. UNCHANGED Inbox!work
    BY <1>8 DEF Inbox!Ingest, Inbox!RequeueDead, Inbox!LeaseExpires, Inbox!LeaseOutrun,
                Inbox!Expire, Inbox!BackoffElapses
  <2> QED BY <2>1, GroupStays DEF Inbox!work
<1>9. ASSUME NEW b \in stray, Inbox!StrayReplaces(b[1], b[2]), NEW w \in Workers
      PROVE  GroupInv(w)'
  BY <1>9, GroupStays DEF Inbox!StrayReplaces, Inbox!work
<1>10. ASSUME NEW w \in Workers, Inbox!Loop(w) PROVE GroupInv(w)'
  BY <1>10, <1>2, <1>3, <1>4, <1>5, <1>6, <1>7 DEF Inbox!Loop, Inbox!Synchronise
<1> QED BY <1>1, <1>6, <1>8, <1>9, <1>10, OthersStay DEF Inbox!Next

LEMMA ShownStep ==
    ASSUME InboxTypeInv, ShownInv, [Inbox!Next]_Inbox!vars
    PROVE  ShownInv'
<1>1. ASSUME Inbox!Next, NEW n \in Notices, state'[n] = "processed" PROVE Shown(n)'
  <2>1. state[n] # "absent" /\ Shown(n)
    <3>1. CASE state[n] = "processed"
      BY <3>1 DEF ShownInv, Inbox!ProcessedWasShown, Shown
    <3>2. CASE state[n] # "processed"
      <4>1. PICK w \in Workers : phase[w] = "mark" /\ n \in Inbox!Held(w)
        BY <1>1, <3>2, ProcessedByMark
      <4>2. n \in Inbox!Members(w) /\ InHand(w, n)
        BY <4>1 DEF Inbox!Held, Inbox!Group, Inbox!Members, InHand
      <4> QED BY <4>1, <4>2 DEF ShownInv, GroupInv
    <3> QED BY <3>1, <3>2
  <2> QED BY <1>1, <2>1, ShownStays
<1>2. CASE Inbox!Next
  <2>1. \A w \in Workers : GroupInv(w)'
    BY <1>2, GroupStep DEF ShownInv
  <2>2. Inbox!ProcessedWasShown'
    BY <1>1, <1>2 DEF Inbox!ProcessedWasShown, Shown
  <2> QED BY <2>1, <2>2 DEF ShownInv
<1>3. CASE UNCHANGED Inbox!vars
  BY <1>3 DEF Inbox!vars, Inbox!inbox, Inbox!data, Inbox!work, ShownInv,
              Inbox!ProcessedWasShown, GroupInv, Inbox!Members, InHand, Shown, OnItsWay
<1> QED BY <1>2, <1>3

\* Whatever failed, was abandoned, was leased again or overlapped, the read model has shown
\* the change that a processed notification tells of.
THEOREM ProcessedNoticesWereShown ==
    ASSUME InboxParameters
    PROVE  Inbox!Spec => []Inbox!ProcessedWasShown
<1>1. Inbox!Init => InboxTypeInv /\ ShownInv
  BY InboxInit
<1>2. InboxTypeInv /\ ShownInv /\ [Inbox!Next]_Inbox!vars => (InboxTypeInv /\ ShownInv)'
  BY InboxTypeStep, ShownStep
<1>3. ShownInv => Inbox!ProcessedWasShown
  BY DEF ShownInv
<1> QED BY <1>1, <1>2, <1>3, PTL DEF Inbox!Spec

-----------------------------------------------------------------------------
(* The inbox implements the ledger.                                        *)

LEMMA Stages ==
    /\ Inbox!StageOf("absent") = "absent" /\ Inbox!StageOf("pending") = "open"
    /\ Inbox!StageOf("processing") = "open" /\ Inbox!StageOf("processed") = "settled"
    /\ Inbox!StageOf("dead") = "given up"
BY DEF Inbox!StageOf

\* A row that goes from pending to processing or back is open before and after.
LEMMA StageKept ==
    ASSUME \A n \in Notices : \/ state'[n] = state[n]
                              \/ {state[n], state'[n]} \subseteq {"pending", "processing"}
    PROVE  UNCHANGED Inbox!Stage
<1>1. ASSUME NEW n \in Notices PROVE Inbox!StageOf(state'[n]) = Inbox!StageOf(state[n])
  <2>1. CASE {state[n], state'[n]} \subseteq {"pending", "processing"}
    <3>1. Inbox!StageOf(state[n]) = "open" /\ Inbox!StageOf(state'[n]) = "open"
      BY <2>1, Stages
    <3> QED BY <3>1
  <2>2. CASE state'[n] = state[n]
    BY <2>2
  <2> QED BY <2>1, <2>2
<1> QED BY <1>1 DEF Inbox!Stage

LEMMA AnsweredKept ==
    ASSUME UNCHANGED <<tells, best>>, \A n \in Notices : state'[n] = "absent" <=> state[n] = "absent"
    PROVE  UNCHANGED Inbox!Answered
BY DEF Inbox!Answered

\* The rows of ns go from one status to another.
LEMMA RowsMove ==
    ASSUME InboxTypeInv, NEW ns \in SUBSET Notices, NEW from, NEW status,
           \A n \in ns : state[n] = from,
           state' = [n \in Notices |-> IF n \in ns THEN status ELSE state[n]],
           UNCHANGED Inbox!Answered
    PROVE  Inbox!Ledger!Moves(ns, Inbox!StageOf(from), Inbox!StageOf(status))
<1>1. \A n \in ns : Inbox!Stage[n] = Inbox!StageOf(from)
  BY DEF Inbox!Stage
<1>2. \A n \in Notices : Inbox!StageOf(state'[n]) =
           IF n \in ns THEN Inbox!StageOf(status) ELSE Inbox!Stage[n]
  BY DEF Inbox!Stage
<1>3. Inbox!Stage' = [n \in Notices |-> IF n \in ns THEN Inbox!StageOf(status) ELSE Inbox!Stage[n]]
  BY <1>2 DEF Inbox!Stage
<1> QED BY <1>1, <1>3 DEF Inbox!Ledger!Moves

InboxMoves == Inbox!Ledger!Next \/ UNCHANGED <<Inbox!Stage, Inbox!Answered>>

\* A notification arrives; its change is newer than what the read model shows.
LEMMA IngestPosts ==
    ASSUME InboxTypeInv, NEW n \in Notices, Inbox!Ingest(n)
    PROVE  InboxMoves
<1>1. /\ state[n] = "absent" /\ state' = [state EXCEPT ![n] = "pending"]
      /\ remote' = [remote EXCEPT ![PartOf[n]] = @ + 1]
      /\ tells' = [tells EXCEPT ![n] = remote'[PartOf[n]]] /\ best' = best
  BY DEF Inbox!Ingest
<1>2. PartOf[n] \in Parts /\ tells'[n] = remote[PartOf[n]] + 1
  BY <1>1 DEF InboxTypeInv, InboxParameters, DataOK
<1>3. ~(best'[PartOf[n]] >= tells'[n])
  BY <1>1, <1>2 DEF InboxTypeInv, DataOK
<1>4. \A m \in Notices : (state'[m] # "absent" /\ best'[PartOf[m]] >= tells'[m])
                           <=> (state[m] # "absent" /\ best[PartOf[m]] >= tells[m])
  <2>1. \A m \in Notices : m # n => state'[m] = state[m] /\ tells'[m] = tells[m]
    BY <1>1 DEF InboxTypeInv, RowsOK, DataOK
  <2> QED BY <1>1, <1>3, <2>1
<1>5. UNCHANGED Inbox!Answered
  BY <1>4 DEF Inbox!Answered
<1>6. state' = [m \in Notices |-> IF m \in {n} THEN "pending" ELSE state[m]]
  BY <1>1 DEF InboxTypeInv, RowsOK
<1>7. Inbox!Ledger!Moves({n}, Inbox!StageOf("absent"), Inbox!StageOf("pending"))
  <2>1. \A m \in {n} : state[m] = "absent"
    BY <1>1
  <2> QED BY <1>5, <1>6, <2>1, RowsMove
<1>8. Inbox!Ledger!Post(n)
  BY <1>7, Stages DEF Inbox!Ledger!Post
<1> QED BY <1>8 DEF InboxMoves, Inbox!Ledger!Next

\* What is shown may answer notifications that are there.
LEMMA ShowWorks ==
    ASSUME InboxTypeInv, Inbox!Next, NEW p \in Parts, NEW v \in Nat, Inbox!Show(p, v), UNCHANGED state
    PROVE  InboxMoves
<1> DEFINE new == Inbox!Answered' \ Inbox!Answered
<1>1. UNCHANGED Inbox!Stage
  BY StageKept
<1>2. Inbox!Answered \subseteq Inbox!Answered'
  BY ShownStays DEF Inbox!Answered, Shown
<1>3. \A n \in new : n \in Inbox!Ledger!Posted
  <2> SUFFICES ASSUME NEW n \in new PROVE n \in Inbox!Ledger!Posted
    OBVIOUS
  <2>1. n \in Notices /\ state[n] # "absent"
    BY DEF Inbox!Answered
  <2>2. Inbox!Stage[n] # "absent"
    BY <2>1, Stages DEF Inbox!Stage, InboxTypeInv, RowsOK, Inbox!Status
  <2> QED BY <2>1, <2>2 DEF Inbox!Ledger!Posted
<1>4. Inbox!Ledger!Work(new)
  BY <1>1, <1>2 DEF Inbox!Ledger!Work
<1>5. new \in SUBSET Inbox!Ledger!Posted
  BY <1>3
<1> QED BY <1>4, <1>5 DEF InboxMoves, Inbox!Ledger!Next

\* Only a group that was answered is marked.
LEMMA MarkSettles ==
    ASSUME InboxTypeInv, ShownInv, NEW w \in Workers, phase[w] = "mark",
           Inbox!Unlock(Inbox!Held(w), "processed"), UNCHANGED <<tells, best>>
    PROVE  InboxMoves
<1>1. \A n \in Inbox!Held(w) : n \in Notices /\ state[n] = "processing" /\ Shown(n)
  <2> SUFFICES ASSUME NEW n \in Inbox!Held(w)
               PROVE  n \in Notices /\ state[n] = "processing" /\ Shown(n)
    OBVIOUS
  <2>1. n \in Inbox!Members(w) /\ InHand(w, n) /\ n \in Notices /\ state[n] = "processing"
    BY DEF Inbox!Held, Inbox!Group, Inbox!Holds, Inbox!Members, InHand, InboxTypeInv, WorkOK
  <2> QED BY <2>1 DEF ShownInv, GroupInv
<1>2. Inbox!Held(w) \in SUBSET Notices /\ Inbox!Held(w) \subseteq Inbox!Answered
  BY <1>1 DEF Inbox!Answered, Shown
<1>3. state' = [n \in Notices |-> IF n \in Inbox!Held(w) THEN "processed" ELSE state[n]]
  BY DEF Inbox!Unlock
<1>4. UNCHANGED Inbox!Answered
  <2>1. \A n \in Notices : state'[n] = "absent" <=> state[n] = "absent"
    BY <1>1, <1>3
  <2> QED BY <2>1, AnsweredKept
<1>5. Inbox!Ledger!Moves(Inbox!Held(w), "open", "settled")
  BY <1>1, <1>2, <1>3, <1>4, RowsMove, Stages
<1>6. Inbox!Ledger!Settle(Inbox!Held(w))
  BY <1>2, <1>5 DEF Inbox!Ledger!Settle
<1> QED BY <1>2, <1>6 DEF InboxMoves, Inbox!Ledger!Next

\* A failed notification waits for its next attempt, or is given up.
LEMMA FailedReturns ==
    ASSUME InboxTypeInv, NEW w \in Workers, NEW b \in batch[w], Inbox!Holds(w, b[1]), Inbox!Failed(b),
           UNCHANGED <<tells, best>>
    PROVE  InboxMoves
<1> DEFINE n == b[1]
<1>1. n \in Notices /\ state[n] = "processing"
  BY DEF Inbox!Holds, InboxTypeInv, WorkOK
<1>2. ASSUME NEW status \in {"dead", "pending"}, Inbox!Unlock({n}, status)
      PROVE  /\ state' = [m \in Notices |-> IF m \in {n} THEN status ELSE state[m]]
             /\ UNCHANGED Inbox!Answered
  <2>1. state' = [m \in Notices |-> IF m \in {n} THEN status ELSE state[m]]
    BY <1>2 DEF Inbox!Unlock
  <2>2. \A m \in Notices : state'[m] = "absent" <=> state[m] = "absent"
    BY <1>1, <2>1
  <2> QED BY <2>1, <2>2, AnsweredKept
<1>3. CASE Inbox!Unlock({n}, "dead")
  <2>1. Inbox!Ledger!Moves({n}, Inbox!StageOf("processing"), Inbox!StageOf("dead"))
    <3>1. \A m \in {n} : state[m] = "processing"
      BY <1>1
    <3> HIDE DEF n
    <3> QED BY <1>1, <1>2, <1>3, <3>1, RowsMove
  <2>2. Inbox!Ledger!GiveUp(n)
    BY <2>1, Stages DEF Inbox!Ledger!GiveUp
  <2> QED BY <1>1, <2>2 DEF InboxMoves, Inbox!Ledger!Next
<1>4. CASE Inbox!Unlock({n}, "pending")
  <2>1. UNCHANGED Inbox!Stage
    BY <1>1, <1>2, <1>4, StageKept
  <2> QED BY <1>2, <1>4, <2>1 DEF InboxMoves
<1> QED BY <1>3, <1>4 DEF Inbox!Failed

LEMMA InboxLedgerStep ==
    ASSUME InboxTypeInv, ShownInv, [Inbox!Next]_Inbox!vars
    PROVE  InboxMoves
<1>1. ASSUME UNCHANGED <<state, tells, best>> PROVE InboxMoves
  BY <1>1, StageKept, AnsweredKept DEF InboxMoves
<1>2. ASSUME NEW n \in Notices, Inbox!RequeueDead(n) PROVE InboxMoves
  <2>1. /\ state[n] = "dead" /\ UNCHANGED <<tells, best>>
        /\ state' = [m \in Notices |-> IF m \in {n} THEN "pending" ELSE state[m]]
    BY <1>2 DEF Inbox!RequeueDead, Inbox!data, InboxTypeInv, RowsOK
  <2>2. \A m \in Notices : state'[m] = "absent" <=> state[m] = "absent"
    BY <2>1
  <2>3. Inbox!Ledger!Reopen(n)
    BY <2>1, <2>2, AnsweredKept, RowsMove, Stages DEF Inbox!Ledger!Reopen
  <2> QED BY <2>3 DEF InboxMoves, Inbox!Ledger!Next
<1>3. ASSUME NEW n \in Notices,
             Inbox!LeaseExpires(n) \/ Inbox!LeaseOutrun(n) \/ Inbox!BackoffElapses(n)
      PROVE  UNCHANGED <<state, tells, best>>
  BY <1>3 DEF Inbox!LeaseExpires, Inbox!LeaseOutrun, Inbox!Expire, Inbox!BackoffElapses, Inbox!data
<1>4. ASSUME NEW w \in Workers, Inbox!LeaseBatch(w) PROVE InboxMoves
  <2>1. PICK some \in SUBSET {n \in Notices : Inbox!Leasable(n)} :
           state' = [n \in Notices |-> IF n \in some THEN "processing" ELSE state[n]]
    BY <1>4 DEF Inbox!LeaseBatch
  <2>2. \A n \in some : state[n] \in {"pending", "processing"}
    BY DEF Inbox!Leasable
  <2>3. UNCHANGED <<tells, best>>
    BY <1>4 DEF Inbox!LeaseBatch, Inbox!data
  <2>4. \A n \in Notices : \/ state'[n] = state[n]
                           \/ {state[n], state'[n]} \subseteq {"pending", "processing"}
    BY <2>1, <2>2
  <2> QED BY <2>3, <2>4, StageKept, AnsweredKept DEF InboxMoves
<1>5. ASSUME Inbox!Next, NEW w \in Workers, Inbox!Synchronise(w) PROVE InboxMoves
  <2>1. CASE \E b \in have[w] : Inbox!Replace(w, b[1], b[2])
    <3>1. PICK b \in have[w] : Inbox!Show(b[1], b[2]) /\ UNCHANGED state
      BY <2>1 DEF Inbox!Replace, Inbox!inbox
    <3>2. b[1] \in Parts /\ b[2] \in Nat
      BY DEF InboxTypeInv, ReadsOK
    <3> QED BY <1>5, <3>1, <3>2, ShowWorks
  <2>2. CASE Inbox!ReadRemote(w) \/ Inbox!SyncReturns(w) \/ Inbox!SyncThrows(w)
    BY <1>1, <2>2 DEF Inbox!ReadRemote, Inbox!SyncReturns, Inbox!SyncThrows, Inbox!inbox, Inbox!data
  <2> QED BY <1>5, <2>1, <2>2 DEF Inbox!Synchronise
<1>6. ASSUME NEW w \in Workers,
             Inbox!MarkProcessed(w) \/ Inbox!MarkProcessedThrows(w)
      PROVE  InboxMoves
  <2>1. /\ phase[w] = "mark" /\ UNCHANGED <<tells, best>>
        /\ Inbox!Unlock(Inbox!Held(w), "processed") \/ UNCHANGED state
    BY <1>6 DEF Inbox!MarkProcessed, Inbox!MarkProcessedThrows, Inbox!data
  <2> QED BY <1>1, <2>1, MarkSettles
<1>7. ASSUME NEW w \in Workers, NEW b \in batch[w],
             Inbox!MarkFailed(w, b) \/ Inbox!MarkFailedThrows(w, b)
      PROVE  InboxMoves
  <2>1. /\ UNCHANGED <<tells, best>>
        /\ (Inbox!Holds(w, b[1]) /\ Inbox!Failed(b)) \/ UNCHANGED state
    BY <1>7 DEF Inbox!MarkFailed, Inbox!MarkFailedThrows, Inbox!data, Inbox!inbox
  <2> QED BY <1>1, <2>1, FailedReturns
<1>8. ASSUME NEW w \in Workers, Inbox!StartGroup(w) \/ Inbox!Crash(w)
      PROVE  UNCHANGED <<state, tells, best>>
  BY <1>8 DEF Inbox!StartGroup, Inbox!Crash, Inbox!inbox, Inbox!data
<1>9. ASSUME Inbox!Next, NEW b \in stray, Inbox!StrayReplaces(b[1], b[2]) PROVE InboxMoves
  <2>1. b[1] \in Parts /\ b[2] \in Nat
    BY DEF InboxTypeInv, ReadsOK
  <2>2. UNCHANGED state /\ (Inbox!Show(b[1], b[2]) \/ UNCHANGED <<tells, best>>)
    BY <1>9 DEF Inbox!StrayReplaces, Inbox!inbox
  <2> QED BY <1>1, <1>9, <2>1, <2>2, ShowWorks
<1>10. CASE UNCHANGED Inbox!vars
  BY <1>1, <1>10 DEF Inbox!vars, Inbox!inbox, Inbox!data
<1>11. CASE Inbox!Next
  BY <1>1, <1>2, <1>3, <1>4, <1>5, <1>6, <1>7, <1>8, <1>9, <1>11, IngestPosts
  DEF Inbox!Next, Inbox!Loop
<1> QED BY <1>10, <1>11

\* Every behaviour of the inbox, its workers and the synchronisations is one the ledger
\* allows: what was settled had been answered, and only a dead letter is opened again.
THEOREM InboxImplementsLedger ==
    ASSUME InboxParameters
    PROVE  Inbox!Spec => Inbox!LedgerSpec
<1>1. Inbox!Init => InboxTypeInv /\ ShownInv
  BY InboxInit
<1>2. InboxTypeInv /\ ShownInv /\ [Inbox!Next]_Inbox!vars => (InboxTypeInv /\ ShownInv)'
  BY InboxTypeStep, ShownStep
<1>3. Inbox!Init => Inbox!Ledger!Init
  <2> SUFFICES ASSUME Inbox!Init PROVE Inbox!Ledger!Init
    OBVIOUS
  <2>1. \A n \in Notices : state[n] = "absent" /\ Inbox!StageOf(state[n]) = "absent"
    BY Stages DEF Inbox!Init
  <2>2. Inbox!Stage = [n \in Notices |-> "absent"]
    BY <2>1 DEF Inbox!Stage
  <2>3. Inbox!Answered = {}
    BY <2>1 DEF Inbox!Answered
  <2> QED BY <2>2, <2>3 DEF Inbox!Ledger!Init
<1>4. InboxTypeInv /\ ShownInv /\ [Inbox!Next]_Inbox!vars
          => [Inbox!Ledger!Next]_(Inbox!Ledger!ledger)
  BY InboxLedgerStep DEF InboxMoves, Inbox!Ledger!ledger
<1> QED BY <1>1, <1>2, <1>3, <1>4, PTL DEF Inbox!Spec, Inbox!LedgerSpec, Inbox!Ledger!Spec

=============================================================================
