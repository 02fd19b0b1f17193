---------------------------- MODULE CommerceProofs ----------------------------
(***************************************************************************)
(* Theorems about the economics of a listing: the supplier mirror and the  *)
(* cost it feeds, what the stock audit proposes on it, and the price that  *)
(* reaches a target margin; for every set of sources, workers and reports, *)
(* every price, cost and rate, and every bound.                            *)
(***************************************************************************)
EXTENDS Commerce, FiniteSetTheorems, TLAPS

-----------------------------------------------------------------------------
(* The invariant.                                                          *)

Leases == [owner : Workers \union {NoRow}, over : BOOLEAN]
Policies == [next : {Due, Later}, lease : Leases]
Links ==
    [active : BOOLEAN, costly : BOOLEAN, stocked : BOOLEAN, confirmed : Nat,
     next : {Due, Later, Never}, lease : Leases]

MirrorTypeInv ==
    /\ now \in Times /\ changes \in 0..MaxChanges /\ missed \in SUBSET Sources
    /\ observations \in [Sources -> SUBSET Observations]
    /\ products \in [Sources -> Products \union {NoRow}]
    /\ links \in [Sources -> Links]
    /\ cost \in CostRows \union {NoRow}
    /\ policy \in Policies

\* No two observations of a source have one time, and the times bound the count.
SeenInv(s) ==
    /\ IsFiniteSet(observations[s])
    /\ \A o, q \in observations[s] : o.at = q.at => o = q
    /\ s \notin missed => links[s].confirmed <= Cardinality(Run(s))

\* The product of source s is what was observed of it last.
ProductInv(s) ==
    /\ products[s] = NoRow =>
         observations[s] = {} /\ links[s].confirmed = 0 /\ ~links[s].active
    /\ products[s] /= NoRow =>
         /\ products[s].at <= products[s].last /\ products[s].last <= now
         /\ links[s].confirmed <= products[s].last
         /\ \A o \in observations[s] : o.at <= products[s].last
         /\ \A o \in observations[s] : o.ok => o.at <= products[s].at
         /\ \E o \in observations[s] : o.at = products[s].last /\ o.ok = products[s].ok
         /\ \E o \in observations[s] :
               /\ o.ok /\ o.at = products[s].at
               /\ o.stock = products[s].stock /\ o.cost = products[s].cost

\* At most one link, an active one, has the cost authority.
AuthorityInv ==
    /\ \A s \in Sources : links[s].costly => links[s].active
    /\ \A s, t \in Sources : links[s].costly /\ links[t].costly => s = t

\* The cost of a source that failed last is still no newer than its product.
CostInv ==
    /\ cost /= NoRow => links[cost.source].costly /\ cost.at <= products[cost.source].at
    /\ \A s \in Sources : links[s].costly /\ products[s].ok =>
         IF products[s].cost = NoRow THEN cost = NoRow
         ELSE /\ cost /= NoRow /\ cost.amount = products[s].cost
              /\ products[s].at <= cost.at + MaxAge[s]

MirrorInv ==
    /\ MirrorTypeInv
    /\ \A s \in Sources : SeenInv(s) /\ ProductInv(s)
    /\ AuthorityInv /\ CostInv

OthersOK == part \in {"mirror", "audits", "pricing"} /\ incidents \in 0..MaxIncidents

-----------------------------------------------------------------------------
(* What the operators of the mirror return.                                *)

LEMMA SoonerIsDue ==
    ASSUME NEW a \in {Due, Later, Never}
    PROVE  Sooner(a, Due) = Due
<1>1. a \in Int /\ a >= 0 /\ Due = 0
  BY DEF Due, Later, Never
<1>2. \A y \in {a, 0} : 0 <= y
  BY <1>1
<1>3. \A x \in {a, 0} : (\A y \in {a, 0} : x <= y) => x = 0
  BY <1>1
<1> QED BY <1>1, <1>2, <1>3 DEF Sooner, Min

\* Two links that differ at most in when they are due and who has leased them.
Alike(k, l) ==
    /\ l \in Links
    /\ l.active = k.active /\ l.costly = k.costly
    /\ l.stocked = k.stocked /\ l.confirmed = k.confirmed

LEMMA WokenLink == ASSUME NEW l \in Links PROVE Alike(l, Woken(l))
<1>1. Sooner(l.next, Due) \in {Due, Later, Never}
  BY SoonerIsDue DEF Links
<1> QED BY <1>1 DEF Woken, Links, Alike

LEMMA WokenPolicy == ASSUME NEW p \in Policies PROVE Woken(p) \in Policies
<1>1. Sooner(p.next, Due) = Due
  BY SoonerIsDue DEF Policies
<1> QED BY <1>1 DEF Woken, Policies

LEMMA UnleasedLease == Unleased \in Leases
BY DEF Unleased, Leases

LEMMA ParkedLink ==
    /\ Parked \in Links /\ ~Parked.active /\ ~Parked.costly /\ Parked.confirmed = 0
BY UnleasedLease DEF Parked, Links, Due, Later, Never

\* What the link with the only authority becomes.
Alone(s) == ~links[s].active /\ \A t \in Sources \ {s} : ~links[t].active

LEMMA AssignedLink ==
    ASSUME MirrorTypeInv, NEW s \in Sources, NEW new \in Links
    PROVE  /\ Assigned(s, new) \in Links
           /\ Assigned(s, new).active = new.active
           /\ Assigned(s, new).confirmed = new.confirmed
           /\ Assigned(s, new).costly <=> new.active /\ (new.costly \/ Alone(s))
<1> DEFINE alone == ~links[s].active /\ \A t \in Sources \ {s} : ~links[t].active
           link == [new EXCEPT !.costly = new.active /\ (@ \/ alone),
                               !.stocked = new.active /\ (@ \/ alone)]
<1>1. /\ link \in Links /\ link.active = new.active /\ link.confirmed = new.confirmed
      /\ link.costly <=> new.active /\ (new.costly \/ alone)
  <2>1. alone \in BOOLEAN
    OBVIOUS
  <2>2. /\ (new.active /\ (new.costly \/ alone)) \in BOOLEAN
        /\ (new.active /\ (new.stocked \/ alone)) \in BOOLEAN
    OBVIOUS
  <2> HIDE DEF alone
  <2> QED BY <2>1, <2>2 DEF Links
<1>2. Assigned(s, new) = IF ~link.stocked THEN [link EXCEPT !.next = Never, !.lease = Unleased]
                         ELSE IF ~links[s].stocked THEN Woken(link) ELSE link
  BY DEF Assigned
<1>3. alone <=> Alone(s)
  BY DEF Alone
<1> HIDE DEF link, alone
<1>4. Alike(link, [link EXCEPT !.next = Never, !.lease = Unleased])
  BY <1>1, UnleasedLease DEF Links, Alike
<1>5. Alike(link, Woken(link)) /\ Alike(link, link)
  BY <1>1, WokenLink DEF Alike
<1>6. Alike(link, Assigned(s, new))
  BY <1>2, <1>4, <1>5
<1> QED BY <1>1, <1>3, <1>6 DEF Alike

\* The product after an observation that is not late.
LEMMA MirroredProduct ==
    ASSUME NEW old \in Products \union {NoRow}, NEW o \in Observations, InOrder(old, o)
    PROVE  LET new == Mirrored(old, o) IN
           /\ new \in Products /\ new /= NoRow
           /\ new.last = o.at /\ new.ok = o.ok
           /\ o.ok => new.at = o.at /\ new.stock = o.stock /\ new.cost = o.cost
           /\ ~o.ok => /\ old /= NoRow /\ new.at = old.at
                       /\ new.stock = old.stock /\ new.cost = old.cost
<1> DEFINE new == Mirrored(old, o)
<1>1. NoRow \notin Products
  BY NoRowIsNone
<1>2. CASE o.ok
  <2> DEFINE previous == IF old = NoRow THEN o.cost ELSE old.cost
  <2>1. previous \in Nat \union {NoRow}
    BY DEF Products, Observations
  <2>2. new = [stock |-> o.stock, cost |-> o.cost, at |-> o.at, last |-> o.at, ok |-> TRUE,
               previous |-> previous]
    BY <1>2 DEF Mirrored
  <2>3. o.ok = TRUE
    BY <1>2 DEF Observations
  <2> HIDE DEF previous
  <2>4. new \in Products
    BY <2>1, <2>2 DEF Observations, Products
  <2> HIDE DEF new
  <2>5. /\ new.last = o.at /\ new.ok = o.ok /\ new.at = o.at
        /\ new.stock = o.stock /\ new.cost = o.cost
    BY <2>2, <2>3
  <2>6. new /= NoRow
    BY <1>1, <2>4
  <2> QED BY <1>2, <2>4, <2>5, <2>6 DEF new
<1>3. CASE ~o.ok
  <2>1. old \in Products /\ new = [old EXCEPT !.ok = FALSE, !.last = o.at]
    BY <1>3 DEF Mirrored, InOrder
  <2>2. o.ok = FALSE /\ o.at \in Nat
    BY <1>3 DEF Observations
  <2> HIDE DEF new
  <2>3. /\ new \in Products /\ new.last = o.at /\ new.ok = FALSE
        /\ new.at = old.at /\ new.stock = old.stock /\ new.cost = old.cost
    BY <2>1, <2>2 DEF Products
  <2>4. new /= NoRow /\ old /= NoRow
    BY <1>1, <2>1, <2>3
  <2> QED BY <1>3, <2>2, <2>3, <2>4 DEF new
<1> QED BY <1>2, <1>3

\* A cost row of source s, or none, once the source has reported a product.
LEMMA FedCost ==
    ASSUME NEW s \in Sources, NEW product \in Products,
           NEW row \in CostRows \union {NoRow},
           row /= NoRow => row.source = s /\ row.at <= product.at
    PROVE  LET fed == Fed(row, s, product) IN
           /\ fed \in CostRows \union {NoRow}
           /\ fed /= NoRow => fed.source = s /\ fed.at <= product.at
           /\ IF product.cost = NoRow THEN fed = NoRow
              ELSE /\ fed /= NoRow /\ fed.amount = product.cost
                   /\ product.at <= fed.at + MaxAge[s]
<1> DEFINE fed == Fed(row, s, product)
<1>1. /\ NoRow \notin CostRows /\ NoRow \notin Nat
      /\ MaxAge[s] \in Nat /\ product.at \in Nat /\ product.cost \in Nat \union {NoRow}
  BY NoRowIsNone, MirrorAssumption DEF Products
<1>2. CASE product.cost = NoRow
  <2>1. fed = Cleared(row, s)
    BY <1>2 DEF Fed
  <2> QED BY <1>2, <2>1 DEF Cleared
<1>3. CASE product.cost /= NoRow /\ Supersedes(row, s, product)
  <2>1. fed = [source |-> s, amount |-> product.cost, at |-> product.at]
    BY <1>3 DEF Fed
  <2>2. fed \in CostRows
    BY <1>1, <1>3, <2>1 DEF CostRows
  <2> HIDE DEF fed
  <2>3. fed.source = s /\ fed.amount = product.cost /\ fed.at = product.at
    BY <2>1
  <2>4. fed /= NoRow
    BY <1>1, <2>2
  <2> QED BY <1>1, <1>3, <2>2, <2>3, <2>4 DEF fed
<1>4. CASE product.cost /= NoRow /\ ~Supersedes(row, s, product)
  <2>1. fed = row
    BY <1>4 DEF Fed
  <2>2. row /= NoRow /\ row.amount = product.cost /\ ~(row.at + MaxAge[s] < product.at)
    BY <1>4 DEF Supersedes
  <2>3. row.at \in Nat
    BY <2>2 DEF CostRows
  <2> QED BY <1>1, <1>4, <2>1, <2>2, <2>3
<1> QED BY <1>2, <1>3, <1>4

LEMMA SetCostPolicy ==
    ASSUME policy \in Policies, NEW row, SetCost(row)
    PROVE  cost' = row /\ policy' \in Policies
BY WokenPolicy DEF SetCost

\* The count of a link after an observation.
LEMMA RecountedLink ==
    ASSUME MirrorTypeInv, AuthorityInv, NEW s \in Sources, NEW o
    PROVE  LET link == Recounted(s, o) IN
           /\ link \in Links /\ link.active = links[s].active
           /\ link.costly <=> links[s].costly
           /\ link.confirmed = IF links[s].active THEN Counted(links[s].confirmed, o)
                               ELSE links[s].confirmed
<1> DEFINE counted == [links[s] EXCEPT !.confirmed = Counted(@, o)]
<1>1. links[s] \in Links
  BY DEF MirrorTypeInv
<1>2. Counted(links[s].confirmed, o) \in Nat
  BY <1>1 DEF Counted, Links
<1>3. /\ counted \in Links /\ counted.active = links[s].active
      /\ counted.costly = links[s].costly /\ counted.confirmed = Counted(links[s].confirmed, o)
  BY <1>1, <1>2 DEF Links
<1> HIDE DEF counted
<1>4. Alike(counted, Woken(counted))
  BY <1>3, WokenLink
<1>5. CASE links[s].active
  <2>1. Recounted(s, o) = Assigned(s, Woken(counted))
    BY <1>5 DEF Recounted, counted
  <2>2. ~Alone(s)
    BY <1>5 DEF Alone
  <2>3. Woken(counted) \in Links
    BY <1>4 DEF Alike
  <2>4. links[s].costly => links[s].active
    BY DEF AuthorityInv
  <2>5. LET link == Assigned(s, Woken(counted)) IN
        /\ link \in Links /\ link.active = Woken(counted).active
        /\ link.confirmed = Woken(counted).confirmed
        /\ link.costly <=> Woken(counted).active /\ (Woken(counted).costly \/ Alone(s))
    BY <2>3, AssignedLink
  <2> QED BY <1>3, <1>4, <1>5, <2>1, <2>2, <2>4, <2>5 DEF Alike
<1>6. CASE ~links[s].active
  BY <1>1, <1>6 DEF Recounted
<1> QED BY <1>5, <1>6

-----------------------------------------------------------------------------
(* A statement of the mirror changes one source, its link and the cost.    *)

\* The other sources and their links are as they were.
Elsewhere(s) ==
    /\ observations' \in [Sources -> SUBSET Observations]
    /\ products' \in [Sources -> Products \union {NoRow}]
    /\ links' \in [Sources -> Links]
    /\ missed' \subseteq Sources /\ missed \subseteq missed'
    /\ now' = now /\ changes' \in 0..MaxChanges /\ policy' \in Policies
    /\ \A t \in Sources \ {s} :
          /\ observations'[t] = observations[t] /\ products'[t] = products[t]
          /\ links'[t] = links[t]

LEMMA OtherSources ==
    ASSUME MirrorInv, NEW s \in Sources, Elsewhere(s), NEW t \in Sources \ {s}
    PROVE  SeenInv(t)' /\ ProductInv(t)'
<1>1. SeenInv(t) /\ ProductInv(t)
  BY DEF MirrorInv
<1>2. /\ observations'[t] = observations[t] /\ products'[t] = products[t]
      /\ links'[t] = links[t] /\ now' = now /\ (t \notin missed' => t \notin missed)
  BY DEF Elsewhere
<1>3. Run(t)' = Run(t)
  BY <1>2 DEF Run
<1>4. SeenInv(t)'
  BY <1>1, <1>2, <1>3 DEF SeenInv
<1>5. ProductInv(t)'
  BY <1>1, <1>2 DEF ProductInv
<1> QED BY <1>4, <1>5

LEMMA MirrorStep ==
    ASSUME MirrorInv, NEW s \in Sources, Elsewhere(s),
           SeenInv(s)', ProductInv(s)',
           cost' \in CostRows \union {NoRow}, AuthorityInv', CostInv'
    PROVE  MirrorInv'
<1>1. MirrorTypeInv'
  BY DEF MirrorInv, MirrorTypeInv, Elsewhere, Times
<1> QED BY <1>1, OtherSources DEF MirrorInv

-----------------------------------------------------------------------------
(* An observation.                                                         *)

\* The observation o of source s is recorded.
Recorded(s, o) ==
    /\ o \in Observations /\ o.at \in 1..now /\ InOrder(products[s], o)
    /\ observations' = [observations EXCEPT ![s] = @ \union {o}]
    /\ products' = [products EXCEPT ![s] = Mirrored(@, o)]
    /\ links' = [links EXCEPT ![s] = Recounted(s, o)]
    /\ missed' = IF links[s].active \/ links[s].confirmed = 0 THEN missed
                 ELSE missed \union {s}
    /\ SetCost(IF o.ok /\ links[s].costly THEN Fed(cost, s, products'[s]) ELSE cost)
    /\ UNCHANGED <<now, changes>>

LEMMA RecordRecords ==
    ASSUME MirrorInv, NEW s, NEW at \in 1..now,
           NEW payloads \in SUBSET Payloads, Record(s, at, payloads)
    PROVE  \E o \in Observations : Recorded(s, o)
<1>1. PICK o \in {Failed(at)} \union {Reported(p, at) : p \in payloads} :
         /\ InOrder(products[s], o)
         /\ observations' = [observations EXCEPT ![s] = @ \union {o}]
         /\ products' = [products EXCEPT ![s] = Mirrored(@, o)]
         /\ links' = [links EXCEPT ![s] = Recounted(s, o)]
         /\ missed' = IF links[s].active \/ links[s].confirmed = 0 THEN missed
                      ELSE missed \union {s}
         /\ SetCost(IF o.ok /\ links[s].costly THEN Fed(cost, s, products'[s]) ELSE cost)
  BY DEF Record
<1>2. at \in Nat
  BY DEF MirrorInv, MirrorTypeInv, Times
<1>3. o \in Observations /\ o.at = at
  <2>1. CASE o = Failed(at)
    BY <1>2, <2>1 DEF Failed, Observations
  <2>2. ASSUME NEW p \in payloads, o = Reported(p, at) PROVE o \in Observations /\ o.at = at
    <3>1. p \in [stock : Nat, cost : Nat \union {NoRow}]
      BY MirrorAssumption
    <3> QED BY <1>2, <2>2, <3>1 DEF Reported, Observations
  <2> QED BY <2>1, <2>2
<1>4. UNCHANGED <<now, changes>>
  BY DEF Record
<1> QED BY <1>1, <1>3, <1>4 DEF Recorded

\* It is newer than all the source has reported.
LEMMA RecordedIsNewest ==
    ASSUME MirrorInv, NEW s \in Sources, NEW o \in Observations, Recorded(s, o)
    PROVE  \A q \in observations[s] : q.at < o.at
<1>1. ProductInv(s)
  BY DEF MirrorInv
<1>2. \A q \in observations[s] : q.at \in Nat
  BY DEF MirrorInv, MirrorTypeInv, Observations
<1>3. CASE products[s] = NoRow
  BY <1>1, <1>3 DEF ProductInv
<1>4. CASE products[s] /= NoRow
  <2>1. products[s] \in Products
    BY <1>4 DEF MirrorInv, MirrorTypeInv
  <2>2. products[s].last \in Nat /\ o.at > products[s].last /\ o.at \in Nat
    BY <1>4, <2>1 DEF Recorded, InOrder, Products, Observations
  <2> QED BY <1>1, <1>2, <1>4, <2>2 DEF ProductInv
<1> QED BY <1>3, <1>4

\* It lengthens the run of confirmations by one, or ends it.
LEMMA RecordedRun ==
    ASSUME MirrorInv, NEW s \in Sources, NEW o \in Observations, Recorded(s, o)
    PROVE  /\ Confirms(o) => Run(s)' = Run(s) \union {o} /\ o \notin Run(s)
           /\ IsFiniteSet(Run(s))
<1>1. observations'[s] = observations[s] \union {o}
  BY DEF MirrorInv, MirrorTypeInv, Recorded
<1>2. /\ \A q \in observations[s] : q.at < o.at
      /\ \A q \in observations[s] : q.at \in Nat
      /\ o.at \in Nat /\ o \notin observations[s]
  <2>1. \A q \in observations[s] : q.at < o.at
    BY RecordedIsNewest
  <2>2. (\A q \in observations[s] : q.at \in Nat) /\ o.at \in Nat
    BY DEF MirrorInv, MirrorTypeInv, Observations
  <2> QED BY <2>1, <2>2
<1>3. IsFiniteSet(Run(s))
  <2>1. IsFiniteSet(observations[s]) /\ Run(s) \subseteq observations[s]
    BY DEF MirrorInv, SeenInv, Run
  <2> QED BY <2>1, FS_Subset
<1>4. ASSUME Confirms(o) PROVE Run(s)' = Run(s) \union {o}
  <2>1. \A p \in observations[s] :
           (\A q \in observations'[s] : q.at >= p.at => Confirms(q))
              <=> (\A q \in observations[s] : q.at >= p.at => Confirms(q))
    BY <1>1, <1>4
  <2>2. \A q \in observations'[s] : q.at >= o.at => Confirms(q)
    BY <1>1, <1>2, <1>4
  <2> QED BY <1>1, <2>1, <2>2 DEF Run
<1>5. o \notin Run(s)
  BY <1>2 DEF Run
<1> QED BY <1>3, <1>4, <1>5

LEMMA RecordStep ==
    ASSUME MirrorInv, NEW s \in Sources, NEW o \in Observations, Recorded(s, o)
    PROVE  MirrorInv'
<1>0. MirrorTypeInv /\ SeenInv(s) /\ ProductInv(s) /\ AuthorityInv /\ CostInv
  BY DEF MirrorInv
<1> DEFINE old == products[s]
           new == Mirrored(products[s], o)
           link == Recounted(s, o)
<1>1. /\ old \in Products \union {NoRow} /\ links[s] \in Links /\ NoRow \notin Products
      /\ observations'[s] = observations[s] \union {o}
      /\ products'[s] = new /\ links'[s] = link /\ now' = now /\ now \in Nat
  BY <1>0, NoRowIsNone DEF MirrorTypeInv, Recorded, Times
<1>2. /\ new \in Products /\ new /= NoRow
      /\ new.last = o.at /\ new.ok = o.ok
      /\ o.ok => new.at = o.at /\ new.stock = o.stock /\ new.cost = o.cost
      /\ ~o.ok => /\ old /= NoRow /\ new.at = old.at
                  /\ new.stock = old.stock /\ new.cost = old.cost
  <2>1. InOrder(products[s], o)
    BY DEF Recorded
  <2> QED BY <1>1, <2>1, MirroredProduct
<1>3. /\ link \in Links /\ link.active = links[s].active
      /\ link.costly <=> links[s].costly
      /\ link.confirmed = IF links[s].active THEN Counted(links[s].confirmed, o)
                          ELSE links[s].confirmed
  BY <1>0, RecountedLink
<1>4. \A q \in observations[s] : q.at < o.at
  BY RecordedIsNewest
<1>5. /\ o.at \in 1..now /\ o.at \in Nat /\ o.ok \in BOOLEAN
      /\ \A q \in observations[s] : q.at \in Nat
  BY <1>0 DEF Recorded, Observations, MirrorTypeInv
<1>6. old /= NoRow =>
        /\ old \in Products /\ old.at \in Nat /\ old.last \in Nat
        /\ old.at <= old.last /\ old.last < o.at /\ links[s].confirmed <= old.last
  BY <1>0, <1>1 DEF ProductInv, Recorded, InOrder, Products, Observations
<1>7. links[s].confirmed \in Nat
  BY <1>1 DEF Links
<1> HIDE DEF old, new, link
<1>8. SeenInv(s)'
  <2>1. IsFiniteSet(observations'[s])
    BY <1>0, <1>1, FS_AddElement DEF SeenInv
  <2>2. \A p, q \in observations'[s] : p.at = q.at => p = q
    BY <1>0, <1>1, <1>4, <1>5 DEF SeenInv
  <2>3. ASSUME s \notin missed' PROVE links'[s].confirmed <= Cardinality(Run(s)')
    <3>1. s \notin missed /\ (links[s].active \/ links[s].confirmed = 0)
      BY <2>3 DEF Recorded
    <3>2. links[s].confirmed <= Cardinality(Run(s)) /\ Cardinality(Run(s)) \in Nat
      BY <1>0, <3>1, RecordedRun, FS_CardinalityType DEF SeenInv
    <3>3. CASE Confirms(o)
      <4>1. Cardinality(Run(s)') = Cardinality(Run(s)) + 1
        BY <3>3, RecordedRun, FS_AddElement
      <4>2. link.confirmed <= links[s].confirmed + 1
        BY <1>3, <1>7, <3>3 DEF Counted
      <4> QED BY <1>1, <1>3, <1>7, <3>2, <4>1, <4>2 DEF Links
    <3>4. CASE ~Confirms(o)
      <4>1. link.confirmed = 0
        BY <1>3, <3>1, <3>4 DEF Counted
      <4>2. Run(s)' \subseteq observations'[s]
        BY DEF Run
      <4>3. Cardinality(Run(s)') \in Nat
        BY <2>1, <4>2, FS_Subset, FS_CardinalityType
      <4> QED BY <1>1, <4>1, <4>3
    <3> QED BY <3>3, <3>4
  <2> QED BY <2>1, <2>2, <2>3 DEF SeenInv
<1>9. ProductInv(s)'
  <2>1. new.at \in Nat /\ new.at <= o.at /\ new.last = o.at /\ o.at <= now
    BY <1>2, <1>5, <1>6
  <2>2. link.confirmed <= o.at
    <3>1. links[s].confirmed + 1 <= o.at
      <4>1. CASE old = NoRow
        BY <1>0, <1>5, <4>1 DEF ProductInv, old
      <4>2. CASE old /= NoRow
        BY <1>5, <1>6, <1>7, <4>2
      <4> QED BY <4>1, <4>2
    <3>2. link.confirmed \in {links[s].confirmed + 1, links[s].confirmed, 0}
      BY <1>3 DEF Counted
    <3> QED BY <1>5, <1>7, <3>1, <3>2
  <2>3. \A q \in observations'[s] : q.at <= o.at
    BY <1>1, <1>4, <1>5
  <2>4. \A q \in observations'[s] : q.ok => q.at <= new.at
    <3>1. CASE o.ok
      BY <1>2, <2>3, <3>1
    <3>2. CASE ~o.ok
      BY <1>0, <1>1, <1>2, <3>2 DEF ProductInv, old
    <3> QED BY <3>1, <3>2
  <2>5. o \in observations'[s] /\ o.at = new.last /\ o.ok = new.ok
    BY <1>1, <1>2
  <2>6. \E q \in observations'[s] : /\ q.ok /\ q.at = new.at
                                    /\ q.stock = new.stock /\ q.cost = new.cost
    <3>1. CASE o.ok
      BY <1>2, <2>5, <3>1
    <3>2. CASE ~o.ok
      <4>1. PICK q \in observations[s] : /\ q.ok /\ q.at = old.at
                                         /\ q.stock = old.stock /\ q.cost = old.cost
        BY <1>0, <1>2, <3>2 DEF ProductInv, old
      <4> QED BY <1>1, <1>2, <3>2, <4>1
    <3> QED BY <3>1, <3>2
  <2> QED BY <1>1, <1>2, <2>1, <2>2, <2>3, <2>4, <2>5, <2>6 DEF ProductInv
<1>10. AuthorityInv'
  <2>1. \A t \in Sources \ {s} : links'[t] = links[t]
    BY <1>0 DEF MirrorTypeInv, Recorded
  <2> QED BY <1>0, <1>1, <1>3, <2>1 DEF AuthorityInv
<1>11. Elsewhere(s)
  <2>1. policy' \in Policies
    BY <1>0, SetCostPolicy DEF MirrorTypeInv, Recorded
  <2>2. observations' \in [Sources -> SUBSET Observations]
    BY <1>0 DEF MirrorTypeInv, Recorded
  <2>3. products' \in [Sources -> Products \union {NoRow}]
    BY <1>0, <1>2 DEF MirrorTypeInv, Recorded, new
  <2>4. links' \in [Sources -> Links]
    BY <1>0, <1>3 DEF MirrorTypeInv, Recorded, link
  <2>5. missed' \subseteq Sources /\ missed \subseteq missed'
    BY <1>0 DEF MirrorTypeInv, Recorded
  <2>6. now' = now /\ changes' \in 0..MaxChanges
    BY <1>0 DEF MirrorTypeInv, Recorded
  <2>7. \A t \in Sources \ {s} :
          /\ observations'[t] = observations[t] /\ products'[t] = products[t]
          /\ links'[t] = links[t]
    BY <1>0 DEF MirrorTypeInv, Recorded
  <2> QED BY <2>1, <2>2, <2>3, <2>4, <2>5, <2>6, <2>7 DEF Elsewhere
<1>12. cost' \in CostRows \union {NoRow} /\ CostInv'
  <2>0. cost \in CostRows \union {NoRow} /\ NoRow \notin CostRows
    BY <1>0, NoRowIsNone DEF MirrorTypeInv
  <2>1. \A t \in Sources : (links'[t].costly <=> links[t].costly)
    BY <1>0, <1>1, <1>3 DEF MirrorTypeInv, Recorded
  <2>2. \A t \in Sources \ {s} : products'[t] = products[t]
    BY <1>11 DEF Elsewhere
  <2>3. cost' = IF o.ok /\ links[s].costly THEN Fed(cost, s, new) ELSE cost
    BY <1>0, <1>1, SetCostPolicy DEF MirrorTypeInv, Recorded
  <2>4. CASE o.ok /\ links[s].costly
    <3>1. cost /= NoRow => cost.source = s /\ cost.at <= new.at
      <4> SUFFICES ASSUME cost /= NoRow PROVE cost.source = s /\ cost.at <= new.at
        OBVIOUS
      <4>1. cost.source \in Sources /\ cost.at \in Nat
        BY <2>0 DEF CostRows
      <4>2. cost.source = s
        BY <1>0, <2>4, <4>1 DEF AuthorityInv, CostInv
      <4>3. old /= NoRow /\ cost.at <= old.at
        BY <1>0, <2>4, <4>2 DEF AuthorityInv, CostInv, ProductInv, old
      <4> QED BY <1>2, <1>5, <1>6, <2>4, <4>1, <4>2, <4>3
    <3>2. /\ cost' \in CostRows \union {NoRow}
          /\ cost' /= NoRow => cost'.source = s /\ cost'.at <= new.at
          /\ IF new.cost = NoRow THEN cost' = NoRow
             ELSE /\ cost' /= NoRow /\ cost'.amount = new.cost
                  /\ new.at <= cost'.at + MaxAge[s]
      BY <1>2, <2>0, <2>3, <2>4, <3>1, FedCost
    <3>3. \A t \in Sources : links[t].costly => t = s
      BY <1>0, <2>4 DEF AuthorityInv
    <3> QED BY <1>1, <2>1, <2>4, <3>2, <3>3 DEF CostInv
  <2>5. CASE ~(o.ok /\ links[s].costly)
    <3>1. cost' = cost
      BY <2>3, <2>5
    <3>2. cost /= NoRow => cost.at <= products'[cost.source].at
      <4> SUFFICES ASSUME cost /= NoRow PROVE cost.at <= products'[cost.source].at
        OBVIOUS
      <4>1. /\ cost.source \in Sources /\ cost.at <= products[cost.source].at
            /\ links[cost.source].costly
        BY <1>0, <2>0 DEF CostInv, CostRows
      <4>2. CASE cost.source = s
        BY <1>1, <1>2, <2>5, <4>1, <4>2 DEF old
      <4>3. CASE cost.source /= s
        BY <2>2, <4>1, <4>3
      <4> QED BY <4>2, <4>3
    <3>3. links[s].costly => ~new.ok
      BY <1>2, <2>5
    <3>4. cost /= NoRow => links'[cost.source].costly
      BY <1>0, <2>0, <2>1 DEF CostInv, CostRows
    <3>5. ASSUME NEW t \in Sources, links'[t].costly, products'[t].ok
          PROVE  IF products'[t].cost = NoRow THEN cost = NoRow
                 ELSE /\ cost /= NoRow /\ cost.amount = products'[t].cost
                      /\ products'[t].at <= cost.at + MaxAge[t]
      <4>1. t # s
        BY <1>1, <2>1, <3>3, <3>5
      <4> QED BY <1>0, <2>1, <2>2, <3>5, <4>1 DEF CostInv
    <3> QED BY <2>0, <3>1, <3>2, <3>4, <3>5 DEF CostInv
  <2> QED BY <2>4, <2>5
<1> QED BY <1>8, <1>9, <1>10, <1>11, <1>12, MirrorStep

-----------------------------------------------------------------------------
(* A change of a link, and the clock.                                      *)

\* The link of source s becomes what the operator asked for.
Relinked(s, new) ==
    /\ new \in Links /\ products[s] /= NoRow
    /\ new.confirmed = links[s].confirmed
    /\ new.costly => new.active /\ \A t \in Sources \ {s} : ~links[t].costly
    /\ links' = [links EXCEPT ![s] = new]
    /\ SetCost(FedByLink(s, links[s], new))
    /\ changes' \in 0..MaxChanges
    /\ UNCHANGED <<now, observations, products, missed>>

LEMMA ChangeChanges ==
    ASSUME MirrorInv, NEW s \in Sources, ChangeLink(s)
    PROVE  \E new \in Links : Relinked(s, new)
<1>0. MirrorTypeInv /\ links[s] \in Links
  BY DEF MirrorInv, MirrorTypeInv
<1>1. PICK active \in BOOLEAN, costly \in BOOLEAN, stocked \in BOOLEAN :
        LET new == Assigned(s, [links[s] EXCEPT !.active = active, !.costly = costly,
                                                 !.stocked = stocked])
        IN /\ active \/ (~costly /\ ~stocked)
           /\ <<new.active, new.costly, new.stocked>>
                /= <<links[s].active, links[s].costly, links[s].stocked>>
           /\ \A t \in Sources \ {s} :
                ~(new.costly /\ links[t].costly) /\ ~(new.stocked /\ links[t].stocked)
           /\ links' = [links EXCEPT ![s] = new]
           /\ SetCost(FedByLink(s, links[s], new))
  BY DEF ChangeLink
<1> DEFINE asked == [links[s] EXCEPT !.active = active, !.costly = costly, !.stocked = stocked]
           new == Assigned(s, asked)
<1>2. asked \in Links /\ asked.confirmed = links[s].confirmed
  BY <1>0 DEF Links
<1>3. /\ \A t \in Sources \ {s} : ~(new.costly /\ links[t].costly)
      /\ links' = [links EXCEPT ![s] = new]
      /\ SetCost(FedByLink(s, links[s], new))
  BY <1>1
<1> HIDE DEF asked
<1>4. /\ new \in Links /\ new.active = asked.active /\ new.confirmed = asked.confirmed
      /\ new.costly <=> asked.active /\ (asked.costly \/ Alone(s))
  BY <1>0, <1>2, AssignedLink
<1>5. /\ changes' \in 0..MaxChanges /\ products[s] /= NoRow
      /\ UNCHANGED <<now, observations, products, missed>>
  BY <1>0, MirrorAssumption DEF ChangeLink, Changed, MirrorTypeInv
<1> HIDE DEF new
<1> QED BY <1>2, <1>3, <1>4, <1>5 DEF Relinked

LEMMA ChangeStep ==
    ASSUME MirrorInv, NEW s \in Sources, NEW new \in Links, Relinked(s, new)
    PROVE  MirrorInv'
<1>0. MirrorTypeInv /\ SeenInv(s) /\ ProductInv(s) /\ AuthorityInv /\ CostInv
  BY DEF MirrorInv
<1>1. /\ links' \in [Sources -> Links] /\ links'[s] = new
      /\ \A t \in Sources \ {s} : links'[t] = links[t]
      /\ UNCHANGED <<now, observations, products, missed>>
  BY <1>0 DEF MirrorTypeInv, Relinked
<1>2. /\ products[s] \in Products /\ products[s].at \in Nat
      /\ links[s] \in Links /\ NoRow \notin CostRows
      /\ cost \in CostRows \union {NoRow}
  BY <1>0, NoRowIsNone DEF MirrorTypeInv, Relinked, Products
<1>3. Elsewhere(s)
  <2>1. policy' \in Policies /\ changes' \in 0..MaxChanges
    BY <1>0, SetCostPolicy DEF MirrorTypeInv, Relinked
  <2> QED BY <1>0, <1>1, <2>1 DEF MirrorTypeInv, Elsewhere
<1>4. SeenInv(s)'
  <2>1. Run(s)' = Run(s)
    BY <1>1 DEF Run
  <2> QED BY <1>0, <1>1, <2>1 DEF SeenInv, Relinked
<1>5. ProductInv(s)'
  BY <1>0, <1>1 DEF ProductInv, Relinked
<1>6. AuthorityInv'
  BY <1>0, <1>1 DEF AuthorityInv, Relinked
<1>7. cost' = FedByLink(s, links[s], new)
  BY <1>0, SetCostPolicy DEF MirrorTypeInv, Relinked
<1>8. cost /= NoRow =>
        /\ cost.source \in Sources /\ links[cost.source].costly
        /\ cost.at <= products[cost.source].at
  BY <1>0, <1>2 DEF CostInv, CostRows
\* The authority is taken away: its cost goes, and no other link has it.
<1>9. CASE links[s].costly /\ ~new.costly
  <2>1. cost' = NoRow
    BY <1>0, <1>2, <1>7, <1>8, <1>9 DEF FedByLink, Cleared, AuthorityInv
  <2>2. \A t \in Sources : ~links'[t].costly
    BY <1>0, <1>1, <1>9 DEF AuthorityInv
  <2> QED BY <1>3, <1>4, <1>5, <1>6, <2>1, <2>2, MirrorStep DEF CostInv
\* The authority is this link's: no other has it, and the cost is its own.
<1>10. CASE new.costly
  <2>1. cost /= NoRow => cost.source = s /\ cost.at <= products[s].at
    BY <1>8, <1>10 DEF Relinked
  <2>2. \A t \in Sources : links'[t].costly => t = s
    BY <1>1, <1>10 DEF Relinked
  <2>3. CASE products[s].ok
    <3>1. cost' = Fed(cost, s, products[s])
      BY <1>7, <1>10, <2>3 DEF FedByLink
    <3>2. /\ cost' \in CostRows \union {NoRow}
          /\ cost' /= NoRow => cost'.source = s /\ cost'.at <= products[s].at
          /\ IF products[s].cost = NoRow THEN cost' = NoRow
             ELSE /\ cost' /= NoRow /\ cost'.amount = products[s].cost
                  /\ products[s].at <= cost'.at + MaxAge[s]
      BY <1>2, <2>1, <3>1, FedCost
    <3>3. CostInv'
      BY <1>1, <1>10, <2>2, <3>2 DEF CostInv
    <3> QED BY <1>3, <1>4, <1>5, <1>6, <3>2, <3>3, MirrorStep
  <2>4. CASE ~products[s].ok
    <3>1. cost' = cost
      BY <1>7, <1>10, <2>4 DEF FedByLink
    <3>2. CostInv'
      BY <1>1, <1>10, <2>1, <2>2, <2>4, <3>1 DEF CostInv
    <3> QED BY <1>2, <1>3, <1>4, <1>5, <1>6, <3>1, <3>2, MirrorStep
  <2> QED BY <2>3, <2>4
<1>11. CASE ~links[s].costly /\ ~new.costly
  <2>1. cost' = cost
    BY <1>7, <1>11 DEF FedByLink
  <2>2. \A t \in Sources : links'[t].costly <=> links[t].costly
    BY <1>1, <1>11
  <2>3. CostInv'
    BY <1>0, <1>1, <1>8, <2>1, <2>2 DEF CostInv
  <2> QED BY <1>2, <1>3, <1>4, <1>5, <1>6, <2>1, <2>3, MirrorStep
<1> QED BY <1>9, <1>10, <1>11

\* What leaves the sources alone, and moves at most leases, due times and the clock.
LeasesMove ==
    /\ links' \in [Sources -> Links] /\ policy' \in Policies
    /\ \A s \in Sources : Alike(links[s], links'[s])
    /\ now' \in Times /\ now' >= now /\ changes' \in 0..MaxChanges
    /\ UNCHANGED <<observations, products, missed, cost>>

LEMMA LeasesStep == ASSUME MirrorInv, LeasesMove PROVE MirrorInv'
<1>0. MirrorTypeInv /\ AuthorityInv /\ CostInv
  BY DEF MirrorInv
<1>1. MirrorTypeInv'
  BY <1>0 DEF MirrorTypeInv, LeasesMove, Times
<1>2. ASSUME NEW s \in Sources PROVE SeenInv(s)' /\ ProductInv(s)'
  <2>1. SeenInv(s) /\ ProductInv(s)
    BY DEF MirrorInv
  <2>2. Run(s)' = Run(s)
    BY DEF Run, LeasesMove
  <2>3. /\ links'[s].confirmed = links[s].confirmed /\ links'[s].active = links[s].active
        /\ UNCHANGED <<observations, products, missed>>
    BY DEF LeasesMove, Alike
  <2>4. products[s] /= NoRow => products[s].last \in Nat
    BY <1>0 DEF MirrorTypeInv, Products
  <2>5. products[s] /= NoRow /\ products[s].last <= now => products[s].last <= now'
    BY <1>0, <2>4 DEF LeasesMove, MirrorTypeInv, Times
  <2> QED BY <2>1, <2>2, <2>3, <2>5 DEF SeenInv, ProductInv
<1>3. AuthorityInv'
  BY <1>0 DEF AuthorityInv, LeasesMove, Alike
<1>4. CostInv'
  <2>1. cost /= NoRow => cost.source \in Sources
    BY <1>0 DEF MirrorTypeInv, CostRows
  <2> QED BY <1>0, <2>1 DEF CostInv, LeasesMove, Alike
<1> QED BY <1>1, <1>2, <1>3, <1>4 DEF MirrorInv

-----------------------------------------------------------------------------
(* Initial states.                                                         *)

LEMMA MirrorInitInv ==
    ASSUME MirrorInit, missed = {}
    PROVE  MirrorInv
<1>1. MirrorTypeInv
  <2>1. /\ observations \in [Sources -> SUBSET Observations]
        /\ products \in [Sources -> Products \union {NoRow}]
        /\ links \in [Sources -> Links] /\ cost \in CostRows \union {NoRow}
    BY ParkedLink DEF MirrorInit
  <2>2. policy \in Policies
    BY UnleasedLease DEF MirrorInit, Policies
  <2>3. now \in Times /\ changes \in 0..MaxChanges /\ missed \in SUBSET Sources
    BY MirrorAssumption, CommerceAssumption DEF MirrorInit, Times
  <2> QED BY <2>1, <2>2, <2>3 DEF MirrorTypeInv
<1>2. ASSUME NEW s \in Sources PROVE SeenInv(s) /\ ProductInv(s)
  <2>1. observations[s] = {} /\ products[s] = NoRow /\ links[s] = Parked
    BY DEF MirrorInit
  <2>2. Run(s) = {} /\ Cardinality(Run(s)) = 0 /\ IsFiniteSet(observations[s])
    BY <2>1, FS_EmptySet DEF Run
  <2> QED BY <2>1, <2>2, ParkedLink DEF SeenInv, ProductInv
<1>3. AuthorityInv /\ CostInv
  <2>1. \A s \in Sources : ~links[s].costly
    BY ParkedLink DEF MirrorInit
  <2>2. cost = NoRow
    BY DEF MirrorInit
  <2> QED BY <2>1, <2>2 DEF AuthorityInv, CostInv
<1> QED BY <1>1, <1>2, <1>3 DEF MirrorInv

LEMMA LinkedInitInv ==
    ASSUME NEW s \in Sources, NEW earlier \in Payloads, NEW payload \in Payloads,
           LinkedInit(s, earlier, payload), missed = {}
    PROVE  MirrorInv
<1> DEFINE one == Reported(earlier, 1)
           two == Reported(payload, 2)
           first == Mirrored(NoRow, one)
           again == Mirrored(first, two)
           linked == [Parked EXCEPT !.active = TRUE, !.costly = TRUE, !.stocked = TRUE,
                      !.confirmed = Counted(0, two), !.next = Due]
<1>1. /\ now = 2 /\ changes = 1
      /\ observations = [t \in Sources |-> IF t = s THEN {one, two} ELSE {}]
      /\ products = [t \in Sources |-> IF t = s THEN again ELSE NoRow]
      /\ links = [t \in Sources |-> IF t = s THEN linked ELSE Parked]
      /\ cost = Fed(Fed(NoRow, s, first), s, again)
      /\ policy = [next |-> Due, lease |-> Unleased]
  BY DEF LinkedInit
<1>2. /\ one \in Observations /\ one.at = 1 /\ one.ok
      /\ two \in Observations /\ two.at = 2 /\ two.ok
  <2>1. {earlier, payload} \subseteq [stock : Nat, cost : Nat \union {NoRow}]
    BY MirrorAssumption
  <2> QED BY <2>1 DEF Reported, Observations
<1> HIDE DEF one, two
<1>3. first \in Products /\ first /= NoRow /\ first.last = 1 /\ first.at = 1
  <2>1. InOrder(NoRow, one)
    BY <1>2 DEF InOrder
  <2> QED BY <1>2, <2>1, MirroredProduct
<1> HIDE DEF first
<1>4. /\ again \in Products /\ again /= NoRow /\ again.last = 2 /\ again.ok = two.ok
      /\ again.at = 2 /\ again.stock = two.stock /\ again.cost = two.cost
  <2>1. InOrder(first, two)
    BY <1>2, <1>3 DEF InOrder
  <2>2. first \in Products \union {NoRow} /\ two \in Observations
    BY <1>2, <1>3
  <2>3. /\ again \in Products /\ again /= NoRow /\ again.last = two.at /\ again.ok = two.ok
        /\ two.ok => again.at = two.at /\ again.stock = two.stock /\ again.cost = two.cost
    BY <2>1, <2>2, MirroredProduct
  <2> HIDE DEF again
  <2> QED BY <1>2, <2>3
<1> HIDE DEF again
<1>5. /\ linked \in Links /\ linked.active /\ linked.costly
      /\ linked.confirmed = Counted(0, two) /\ Counted(0, two) \in {0, 1}
      /\ (Counted(0, two) = 1 => Confirms(two))
  <2>1. Counted(0, two) \in {0, 1} /\ (Counted(0, two) = 1 => Confirms(two))
    BY DEF Counted
  <2> HIDE DEF one
  <2>2. Counted(0, two) \in Nat
    BY <2>1
  <2>3. /\ linked \in Links /\ linked.active = TRUE /\ linked.costly = TRUE
        /\ linked.confirmed = Counted(0, two)
    BY <2>2, UnleasedLease DEF Parked, Links, Due, Later, Never
  <2> QED BY <2>1, <2>3
<1> HIDE DEF linked
<1>6. /\ cost \in CostRows \union {NoRow}
      /\ cost /= NoRow => cost.source = s /\ cost.at <= again.at
      /\ IF again.cost = NoRow THEN cost = NoRow
         ELSE /\ cost /= NoRow /\ cost.amount = again.cost
              /\ again.at <= cost.at + MaxAge[s]
  <2> DEFINE fed == Fed(NoRow, s, first)
  <2>1. /\ fed \in CostRows \union {NoRow}
        /\ fed /= NoRow => fed.source = s /\ fed.at <= first.at
    BY <1>3, FedCost
  <2>2. fed /= NoRow => fed.at \in Nat
    BY <2>1 DEF CostRows
  <2> HIDE DEF fed
  <2>3. fed /= NoRow => fed.source = s /\ fed.at <= again.at
    BY <1>3, <1>4, <2>1, <2>2
  <2>4. cost = Fed(fed, s, again)
    BY <1>1 DEF fed
  <2> QED BY <1>4, <2>1, <2>3, <2>4, FedCost
<1>7. MirrorTypeInv
  <2>1. /\ observations \in [Sources -> SUBSET Observations]
        /\ products \in [Sources -> Products \union {NoRow}]
        /\ links \in [Sources -> Links]
    BY <1>1, <1>2, <1>4, <1>5, ParkedLink
  <2>2. policy \in Policies
    BY <1>1, UnleasedLease DEF Policies
  <2>3. now \in Times /\ changes \in 0..MaxChanges /\ missed \in SUBSET Sources
    BY <1>1, MirrorAssumption, CommerceAssumption DEF Times
  <2> QED BY <1>6, <2>1, <2>2, <2>3 DEF MirrorTypeInv
<1>8. SeenInv(s) /\ ProductInv(s)
  <2>1. observations[s] = {one, two} /\ products[s] = again /\ links[s] = linked
    BY <1>1
  <2>2. IsFiniteSet({one, two})
    <3>1. {one, two} = ({} \union {one}) \union {two}
      OBVIOUS
    <3>2. IsFiniteSet({} \union {one})
      BY FS_EmptySet, FS_AddElement
    <3> QED BY <3>1, <3>2, FS_AddElement
  <2>3. linked.confirmed <= Cardinality(Run(s))
    <3>1. IsFiniteSet(Run(s)) /\ Cardinality(Run(s)) \in Nat
      BY <2>1, <2>2, FS_Subset, FS_CardinalityType DEF Run
    <3>2. CASE Counted(0, two) = 0
      BY <1>5, <3>1, <3>2
    <3>3. CASE Counted(0, two) = 1
      <4>1. Confirms(two)
        BY <1>5, <3>3
      <4>2. two \in Run(s)
        BY <1>2, <2>1, <4>1 DEF Run
      <4>3. Cardinality(Run(s)) # 0
        BY <3>1, <4>2, FS_EmptySet
      <4> QED BY <1>5, <3>1, <3>3, <4>3
    <3> QED BY <1>5, <3>2, <3>3
  <2>4. \A o, q \in {one, two} : o.at = q.at => o = q
    BY <1>2
  <2>5. SeenInv(s)
    BY <2>1, <2>2, <2>3, <2>4 DEF SeenInv
  <2>6. ProductInv(s)
    <3>1. linked.confirmed <= 2
      BY <1>5
    <3>2. \A o \in {one, two} : o.at <= 2
      BY <1>2
    <3>3. two \in {one, two} /\ two.ok = again.ok
      BY <1>4
    <3> QED BY <1>1, <1>2, <1>4, <2>1, <3>1, <3>2, <3>3 DEF ProductInv
  <2> QED BY <2>5, <2>6
<1>9. ASSUME NEW t \in Sources, t # s PROVE SeenInv(t) /\ ProductInv(t)
  <2>1. observations[t] = {} /\ products[t] = NoRow /\ links[t] = Parked
    BY <1>1, <1>9
  <2>2. Run(t) = {} /\ Cardinality(Run(t)) = 0 /\ IsFiniteSet(observations[t])
    BY <2>1, FS_EmptySet DEF Run
  <2> QED BY <2>1, <2>2, ParkedLink DEF SeenInv, ProductInv
<1>10. AuthorityInv /\ CostInv
  <2>1. \A t \in Sources : links[t].costly => t = s
    BY <1>1, ParkedLink
  <2>2. links[s] = linked /\ products[s] = again
    BY <1>1
  <2> QED BY <1>5, <1>6, <2>1, <2>2 DEF AuthorityInv, CostInv
<1> QED BY <1>7, <1>8, <1>9, <1>10 DEF MirrorInv

LEMMA InvInit == Init => MirrorInv /\ OthersOK
<1> SUFFICES ASSUME Init PROVE MirrorInv /\ OthersOK
  OBVIOUS
<1>1. OthersOK
  BY IncidentsAssumption DEF Init, OthersOK
<1>2. CASE part = "audits"
  <2>1. PICK p \in Firsts : LinkedInit(Watched, p[1], p[2])
    BY <1>2 DEF Init
  <2>2. Watched \in Sources /\ p[1] \in Payloads /\ p[2] \in Payloads /\ missed = {}
    BY CommerceAssumption DEF Init
  <2> QED BY <1>1, <2>1, <2>2, LinkedInitInv
<1>3. CASE part # "audits"
  BY <1>1, <1>3, MirrorInitInv DEF Init
<1> QED BY <1>2, <1>3

-----------------------------------------------------------------------------
(* Every step of the audits moves at most leases and due times.            *)

LEMMA AlikeItself == ASSUME NEW l \in Links PROVE Alike(l, l)
BY DEF Alike

LEMMA LeasedLink ==
    ASSUME NEW l \in Links, NEW lease \in Leases, NEW next \in {Due, Later, Never}
    PROVE  /\ Alike(l, [l EXCEPT !.lease = lease]) /\ Alike(l, [l EXCEPT !.next = next])
           /\ Alike(l, [l EXCEPT !.next = next, !.lease = lease])
BY DEF Links, Alike

LEMMA LeasedPolicy ==
    ASSUME NEW p \in Policies, NEW lease \in Leases, NEW next \in {Due, Later}
    PROVE  /\ [p EXCEPT !.lease = lease] \in Policies
           /\ [p EXCEPT !.next = next] \in Policies
           /\ [p EXCEPT !.next = next, !.lease = lease] \in Policies
BY DEF Policies

\* A change of one link, in the domain or out of it.
LEMMA OneLink ==
    ASSUME links \in [Sources -> Links], NEW s, NEW link,
           s \in Sources => Alike(links[s], link),
           links' = [links EXCEPT ![s] = link]
    PROVE  links' \in [Sources -> Links] /\ \A t \in Sources : Alike(links[t], links'[t])
<1>1. ASSUME NEW t \in Sources PROVE Alike(links[t], links'[t])
  BY <1>1 DEF Alike
<1> QED BY <1>1 DEF Alike

LEMMA SameLinks ==
    ASSUME links \in [Sources -> Links], UNCHANGED links
    PROVE  links' \in [Sources -> Links] /\ \A t \in Sources : Alike(links[t], links'[t])
BY AlikeItself

Quietly ==
    /\ links' \in [Sources -> Links] /\ \A s \in Sources : Alike(links[s], links'[s])
    /\ policy' \in Policies

LEMMA MarginsAreQuiet ==
    ASSUME links \in [Sources -> Links], policy \in Policies, NEW a,
           \/ a \in Workers /\ MarginStep(a)
           \/ ClerkStep(a)
           \/ MarginThrows(a) /\ UNCHANGED links
    PROVE  Quietly
<1>1. UNCHANGED links \/ links' = StockWoken
  BY DEF MarginStep, ClerkStep, SaveSnapshot
<1>2. links' \in [Sources -> Links] /\ \A s \in Sources : Alike(links[s], links'[s])
  <2>1. CASE UNCHANGED links
    BY <2>1, SameLinks
  <2>2. CASE links' = StockWoken
    <3>1. \A s \in Sources : Alike(links[s], StockWoken[s])
      BY WokenLink, AlikeItself DEF StockWoken
    <3> QED BY <2>2, <3>1 DEF StockWoken, Alike
  <2> QED BY <1>1, <2>1, <2>2
<1>3. policy' \in Policies
  <2>1. Unleased \in Leases /\ (a \in Workers => [owner |-> a, over |-> FALSE] \in Leases)
    BY UnleasedLease DEF Leases
  <2>2. /\ Released(policy) \in Policies
        /\ a \in Workers =>
              [policy EXCEPT !.lease = [owner |-> a, over |-> FALSE]] \in Policies
    BY <2>1, LeasedPolicy DEF Released, Policies, Due, Later
  <2>3. \/ UNCHANGED policy \/ policy' = Released(policy)
        \/ a \in Workers /\ policy' = [policy EXCEPT !.lease = [owner |-> a, over |-> FALSE]]
    BY DEF MarginStep, ClerkStep, RunMarginDaemon, ReadEconomics, SaveSnapshot, CompleteMargin,
           FailMargin, MarginThrows
  <2> QED BY <2>2, <2>3
<1> QED BY <1>2, <1>3 DEF Quietly

LEMMA StocksAreQuiet ==
    ASSUME links \in [Sources -> Links], policy \in Policies, NEW w \in Workers,
           StockStep(w) \/ StockThrows(w) \/ WorkerDies(w)
    PROVE  Quietly
<1>1. policy' \in Policies
  BY WokenPolicy
  DEF StockStep, RunStockDaemon, ReadStock, SaveAssessment, SaveProposal, ScheduleMargin,
      CompleteStock, FailStock, StockThrows, WorkerDies
<1>2. \/ UNCHANGED links \/ links' = LinkReleased(w)
      \/ \E s \in Sources : links' = [links EXCEPT ![s].lease = [owner |-> w, over |-> FALSE]]
  BY DEF StockStep, RunStockDaemon, ReadStock, SaveAssessment, SaveProposal, ScheduleMargin,
         CompleteStock, FailStock, StockThrows, WorkerDies
<1>3. CASE UNCHANGED links
  BY <1>1, <1>3, SameLinks DEF Quietly
<1>4. CASE links' = LinkReleased(w)
  <2> DEFINE s == desks[w].source
  <2>1. links' = [links EXCEPT ![s] = Released(links[s])]
    BY <1>4 DEF LinkReleased
  <2>2. s \in Sources => Alike(links[s], Released(links[s]))
    BY LeasedLink, UnleasedLease DEF Released
  <2> HIDE DEF s
  <2> QED BY <1>1, <2>1, <2>2, OneLink DEF Quietly
<1>5. ASSUME NEW s \in Sources, links' = [links EXCEPT ![s].lease = [owner |-> w, over |-> FALSE]]
      PROVE Quietly
  <2>1. [owner |-> w, over |-> FALSE] \in Leases
    BY DEF Leases
  <2>2. Alike(links[s], [links[s] EXCEPT !.lease = [owner |-> w, over |-> FALSE]])
    BY <2>1, LeasedLink
  <2>3. links' = [links EXCEPT ![s] = [links[s] EXCEPT !.lease = [owner |-> w, over |-> FALSE]]]
    BY <1>5
  <2> QED BY <1>1, <2>2, <2>3, OneLink DEF Quietly
<1> QED BY <1>2, <1>3, <1>4, <1>5

LEMMA TimeIsQuiet ==
    ASSUME links \in [Sources -> Links], policy \in Policies,
           \/ UNCHANGED links /\ (PolicyLeaseEnds \/ PolicyComesDue)
           \/ UNCHANGED policy /\ (LinkLeaseEnds(Watched) \/ LinkComesDue(Watched))
    PROVE  Quietly
<1>1. Watched \in Sources /\ links[Watched] \in Links
  BY CommerceAssumption
<1>2. policy' \in Policies
  <2>1. policy.lease \in Leases /\ [policy.lease EXCEPT !.over = TRUE] \in Leases
    BY DEF Policies, Leases
  <2>2. /\ [policy EXCEPT !.lease = [policy.lease EXCEPT !.over = TRUE]] \in Policies
        /\ [policy EXCEPT !.next = Due] \in Policies
    BY <2>1, LeasedPolicy
  <2>3. \/ UNCHANGED policy \/ policy' = [policy EXCEPT !.next = Due]
        \/ policy' = [policy EXCEPT !.lease = [policy.lease EXCEPT !.over = TRUE]]
    BY DEF PolicyLeaseEnds, PolicyComesDue
  <2> QED BY <2>2, <2>3
<1>3. CASE UNCHANGED links
  BY <1>2, <1>3, SameLinks DEF Quietly
<1>4. CASE LinkLeaseEnds(Watched)
  <2> DEFINE over == [links[Watched].lease EXCEPT !.over = TRUE]
  <2>1. over \in Leases
    BY <1>1 DEF Links, Leases
  <2>2. links' = [links EXCEPT ![Watched] = [links[Watched] EXCEPT !.lease = over]]
    BY <1>4 DEF LinkLeaseEnds
  <2> HIDE DEF over
  <2>3. Alike(links[Watched], [links[Watched] EXCEPT !.lease = over])
    BY <1>1, <2>1, LeasedLink
  <2> QED BY <1>2, <2>2, <2>3, OneLink DEF Quietly
<1>5. CASE LinkComesDue(Watched)
  <2>1. links' = [links EXCEPT ![Watched] = [links[Watched] EXCEPT !.next = Due]]
    BY <1>5 DEF LinkComesDue
  <2>2. Alike(links[Watched], [links[Watched] EXCEPT !.next = Due])
    BY <1>1, LeasedLink, UnleasedLease
  <2> QED BY <1>2, <2>1, <2>2, OneLink DEF Quietly
<1> QED BY <1>3, <1>4, <1>5

-----------------------------------------------------------------------------
(* Every step of the specification.                                        *)

LEMMA InvStep == MirrorInv /\ [Next]_vars => MirrorInv'
<1> SUFFICES ASSUME MirrorInv, [Next]_vars PROVE MirrorInv'
  OBVIOUS
<1>0. /\ MirrorTypeInv /\ links \in [Sources -> Links] /\ policy \in Policies
      /\ now \in Times /\ now \in Nat /\ changes \in 0..MaxChanges
  BY DEF MirrorInv, MirrorTypeInv, Times
<1>1. ASSUME UNCHANGED mirrorVars PROVE MirrorInv'
  <2>1. LeasesMove
    BY <1>0, <1>1, SameLinks DEF mirrorVars, LeasesMove
  <2> QED BY <2>1, LeasesStep
<1>2. ASSUME Tick PROVE MirrorInv'
  <2>1. LeasesMove
    BY <1>0, <1>2, SameLinks, MirrorAssumption DEF Tick, LeasesMove, Times
  <2> QED BY <2>1, LeasesStep
<1>3. ASSUME NEW s \in Sources, ChangeLink(s) PROVE MirrorInv'
  BY <1>3, ChangeChanges, ChangeStep
<1>4. ASSUME NEW s \in Sources, NEW at \in 1..now, NEW payloads \in SUBSET Payloads,
             Record(s, at, payloads)
      PROVE  MirrorInv'
  BY <1>4, RecordRecords, RecordStep
<1>5. ASSUME Quietly, Unsupplied, changes' \in 0..MaxChanges PROVE MirrorInv'
  <2>1. LeasesMove
    BY <1>0, <1>5 DEF Quietly, Unsupplied, LeasesMove
  <2> QED BY <2>1, LeasesStep
<1>6. CASE Mirroring /\ MirrorNext
  BY <1>2, <1>3, <1>4, <1>6 DEF MirrorNext
<1>7. CASE Supplying
  <2>1. now \in 1..now /\ Watched \in Sources /\ Plain \in SUBSET Payloads
    BY <1>0, CommerceAssumption DEF Times
  <2> QED BY <1>2, <1>3, <1>4, <1>7, <2>1 DEF Supplying
<1>8. CASE Selling
  <2>1. changes' \in 0..MaxChanges
    BY <1>0, <1>8, MirrorAssumption DEF Selling, ListingChanges, Changed
  <2>2. Quietly /\ Unsupplied
    BY <1>0, <1>8, SameLinks DEF Selling, Quietly, Unsupplied
  <2> QED BY <1>5, <2>1, <2>2
<1>9. ASSUME NEW w \in Workers, Working(w) PROVE MirrorInv'
  <2>1. Unsupplied /\ changes' \in 0..MaxChanges
    BY <1>0, <1>9 DEF Working, Unmirrored
  <2>2. Quietly
    BY <1>0, <1>9, MarginsAreQuiet, StocksAreQuiet DEF Working
  <2> QED BY <1>5, <2>1, <2>2
<1>10. ASSUME NEW c \in Clerks, Ingesting(c) PROVE MirrorInv'
  <2>1. Unsupplied /\ changes' \in 0..MaxChanges
    BY <1>0, <1>10, MirrorAssumption DEF Ingesting, ClerkStep, Changed
  <2>2. Quietly
    BY <1>0, <1>10, MarginsAreQuiet DEF Ingesting
  <2> QED BY <1>5, <2>1, <2>2
<1>11. CASE Failing
  <2>1. Unsupplied /\ changes' \in 0..MaxChanges
    BY <1>0, <1>11 DEF Failing, Unmirrored
  <2>2. Quietly
    BY <1>0, <1>11, MarginsAreQuiet, StocksAreQuiet DEF Failing
  <2> QED BY <1>5, <2>1, <2>2
<1>12. CASE PolicyTime \/ LinkTime(Watched) \/ PolicyQuarter \/ LinkQuarter(Watched)
  <2>1. Unsupplied /\ changes' \in 0..MaxChanges
    BY <1>0, <1>12 DEF PolicyTime, LinkTime, PolicyQuarter, LinkQuarter, Unmirrored
  <2>2. Quietly
    BY <1>0, <1>12, TimeIsQuiet DEF PolicyTime, LinkTime, PolicyQuarter, LinkQuarter
  <2> QED BY <1>5, <2>1, <2>2
<1>13. CASE Pricing /\ PricingNext
  BY <1>1, <1>13 DEF Pricing
<1>14. CASE UNCHANGED vars
  BY <1>1, <1>14 DEF vars
<1> QED
  BY <1>6, <1>7, <1>8, <1>9, <1>10, <1>11, <1>12, <1>13, <1>14 DEF Next

LEMMA OthersStep == OthersOK /\ [Next]_vars => OthersOK'
<1> SUFFICES ASSUME OthersOK, [Next]_vars PROVE OthersOK'
  OBVIOUS
<1>1. part' = part
  BY DEF Next, Mirroring, Auditing, Pricing, Supplying, Selling, Working, Ingesting, Failing,
         PolicyTime, LinkTime, PolicyQuarter, LinkQuarter, vars
<1>2. Incident \/ UNCHANGED incidents
  <2>1. CASE Mirroring /\ MirrorNext
    BY <2>1 DEF MirrorNext, Tick, ChangeLink, Record
  <2>2. CASE Supplying
    BY <2>2 DEF Supplying, Tick, ChangeLink, Record
  <2>3. CASE Failing
    BY <2>3 DEF Failing, MarginThrows, StockThrows, WorkerDies
  <2>4. CASE PolicyTime \/ LinkTime(Watched)
    BY <2>4 DEF PolicyTime, LinkTime, PolicyLeaseEnds, LinkLeaseEnds
  <2>5. CASE Selling
    BY <2>5 DEF Selling
  <2>6. CASE PolicyQuarter \/ LinkQuarter(Watched)
    BY <2>6 DEF PolicyQuarter, LinkQuarter
  <2>7. CASE Pricing /\ PricingNext
    BY <2>7 DEF Pricing
  <2>8. ASSUME NEW w \in Workers, Working(w) PROVE UNCHANGED incidents
    BY <2>8 DEF Working
  <2>9. ASSUME NEW c \in Clerks, Ingesting(c) PROVE UNCHANGED incidents
    BY <2>9 DEF Ingesting
  <2>10. CASE UNCHANGED vars
    BY <2>10 DEF vars
  <2> QED BY <2>1, <2>2, <2>3, <2>4, <2>5, <2>6, <2>7, <2>8, <2>9, <2>10 DEF Next
<1>3. incidents' \in 0..MaxIncidents
  BY <1>2, IncidentsAssumption DEF OthersOK, Incident
<1> QED BY <1>1, <1>3 DEF OthersOK

LEMMA InvHolds == Spec => [](MirrorInv /\ OthersOK)
BY InvInit, InvStep, OthersStep, PTL DEF Spec

-----------------------------------------------------------------------------
(* The arithmetic of the pricing.                                          *)

LEMMA Quotient ==
    ASSUME NEW n \in Int, NEW d \in Nat \ {0}
    PROVE  /\ n \div d \in Int
           /\ d * (n \div d) <= n /\ n < d * (n \div d) + d
OBVIOUS

LEMMA CeilBounds ==
    ASSUME NEW n \in Int, NEW d \in Nat \ {0}
    PROVE  /\ Ceil(n, d) \in Int
           /\ d * Ceil(n, d) >= n /\ d * (Ceil(n, d) - 1) < n
<1> DEFINE q == (-n) \div d
<1>1. -n \in Int /\ q \in Int /\ d * q <= -n /\ -n < d * q + d
  BY Quotient
<1>2. Ceil(n, d) = -q
  BY DEF Ceil
<1> HIDE DEF q
<1>3. d * (-q) = -(d * q) /\ d * (-q - 1) = -(d * q) - d
  BY <1>1
<1> QED BY <1>1, <1>2, <1>3

\* Math.ceil is the only whole number between its bounds.
LEMMA CeilExact ==
    ASSUME NEW q \in Int, NEW d \in Nat \ {0}
    PROVE  Ceil(q * d, d) = q
<1> DEFINE c == Ceil(q * d, d)
<1>1. q * d \in Int
  OBVIOUS
<1>2. c \in Int /\ d * c >= q * d /\ d * (c - 1) < q * d
  BY <1>1, CeilBounds
<1> HIDE DEF c
<1>3. d * (c - q) >= 0 /\ d * (c - 1 - q) < 0
  BY <1>2
<1>4. c - q >= 0 /\ c - q < 1
  <2> DEFINE x == c - q
  <2>1. x \in Int /\ d * x >= 0 /\ d * (x - 1) < 0
    BY <1>2, <1>3
  <2> HIDE DEF x
  <2>2. x >= 0
    BY <2>1
  <2>3. x - 1 < 0
    BY <2>1
  <2> QED BY <2>1, <2>2, <2>3 DEF x
<1> QED BY <1>2, <1>4 DEF c

LEMMA RoundedBounds ==
    ASSUME NEW n \in Nat
    PROVE  /\ Rounded(n, BasisPoints) \in Nat
           /\ 2 * BasisPoints * Rounded(n, BasisPoints) <= 2 * n + BasisPoints
           /\ 2 * n - BasisPoints < 2 * BasisPoints * Rounded(n, BasisPoints)
BY DEF Rounded, BasisPoints

LEMMA TruncBounds ==
    ASSUME NEW n \in Int, NEW d \in Nat \ {0}
    PROVE  /\ Trunc(n, d) \in Int
           /\ d * (Trunc(n, d) + 1) > n
           /\ n >= 0 => d * Trunc(n, d) <= n
<1>1. CASE n >= 0
  <2>1. d * (n \div d + 1) = d * (n \div d) + d /\ n \div d \in Int
    BY Quotient
  <2> QED BY <1>1, <2>1, Quotient DEF Trunc
<1>2. CASE n < 0
  <2>1. Trunc(n, d) = Ceil(n, d)
    BY <1>2 DEF Trunc, Ceil
  <2>2. d * (Ceil(n, d) + 1) = d * Ceil(n, d) + d
    BY CeilBounds
  <2> QED BY <1>2, <2>1, <2>2, CeilBounds
<1> QED BY <1>1, <1>2

-----------------------------------------------------------------------------
(* What the calculation returns.                                           *)

\* What PricingAssumption says of one input.
Calculable(input) ==
    /\ DOMAIN input = InputFields /\ DOMAIN input.costs \subseteq CostKinds
    /\ input.price \in Nat \ {0} /\ input.quantity \in Nat \ {0}
    /\ input.rate /= Null => input.rate.bps \in 0..BasisPoints
    /\ \A k \in DOMAIN input.costs : input.costs[k].amount \in Nat

\* The costs of the quantity are that many times the costs of one.
LEMMA CostsPerUnit ==
    ASSUME NEW input, Calculable(input), NEW price
    PROVE  LET one == [input EXCEPT !.price = price, !.quantity = 1]
           IN /\ FixedCosts(one) \in Nat
              /\ FixedCosts(input) = FixedCosts(one) * input.quantity
<1> DEFINE one == [input EXCEPT !.price = price, !.quantity = 1]
           amount(k) == IF k \in DOMAIN input.costs THEN input.costs[k].amount ELSE 0
<1>1. one.costs = input.costs /\ one.quantity = 1
  BY DEF Calculable, InputFields
<1> HIDE DEF one
<1>2. ASSUME NEW k PROVE amount(k) \in Nat
  BY DEF Calculable
<1>3. ASSUME NEW k PROVE Cost(one, k) = amount(k) /\ Cost(input, k) = amount(k) * input.quantity
  <2>1. CASE k \in DOMAIN input.costs
    <3>1. input.costs[k].amount \in Nat /\ input.quantity \in Nat
      BY <2>1 DEF Calculable
    <3> QED BY <1>1, <2>1, <3>1 DEF Cost
  <2>2. CASE k \notin DOMAIN input.costs
    BY <1>1, <2>2 DEF Cost, Calculable
  <2> QED BY <2>1, <2>2
<1> HIDE DEF amount
<1>4. input.quantity \in Nat
  BY DEF Calculable
<1>5. ASSUME NEW a \in Nat, NEW b \in Nat, NEW c \in Nat, NEW d \in Nat,
             NEW e \in Nat, NEW f \in Nat, NEW g \in Nat, NEW h \in Nat, NEW q \in Nat
      PROVE  a * q + b * q + c * q + d * q + e * q + f * q + g * q + h * q
                = (a + b + c + d + e + f + g + h) * q
  OBVIOUS
<1>6. FixedCosts(one) = amount("product-cost") + amount("fulfillment-cost")
         + amount("packaging-cost") + amount("ads-cost") + amount("returns-cost")
         + amount("discount-cost") + amount("import-cost") + amount("other-cost")
  BY <1>3 DEF FixedCosts
<1>7. FixedCosts(input) = amount("product-cost") * input.quantity
         + amount("fulfillment-cost") * input.quantity
         + amount("packaging-cost") * input.quantity + amount("ads-cost") * input.quantity
         + amount("returns-cost") * input.quantity + amount("discount-cost") * input.quantity
         + amount("import-cost") * input.quantity + amount("other-cost") * input.quantity
  BY <1>3 DEF FixedCosts
<1>8. FixedCosts(one) \in Nat
  BY <1>2, <1>6
<1>9. FixedCosts(input) = FixedCosts(one) * input.quantity
  <2> DEFINE a == amount("product-cost") b == amount("fulfillment-cost")
             c == amount("packaging-cost") d == amount("ads-cost")
             e == amount("returns-cost") f == amount("discount-cost")
             g == amount("import-cost") h == amount("other-cost")
  <2>1. /\ a \in Nat /\ b \in Nat /\ c \in Nat /\ d \in Nat
        /\ e \in Nat /\ f \in Nat /\ g \in Nat /\ h \in Nat
    BY <1>2
  <2>2. /\ FixedCosts(one) = a + b + c + d + e + f + g + h
        /\ FixedCosts(input) = a * input.quantity + b * input.quantity + c * input.quantity
              + d * input.quantity + e * input.quantity + f * input.quantity
              + g * input.quantity + h * input.quantity
    BY <1>6, <1>7
  <2> HIDE DEF a, b, c, d, e, f, g, h
  <2> QED BY <1>4, <1>5, <2>1, <2>2
<1> QED BY <1>8, <1>9 DEF one

\* A snapshot is incomplete, or has read all it should, fresh.
Whole(input) == MissingInputs(input) = {} /\ StaleEvidence(input) = {}

LEMMA SnapshotRead ==
    ASSUME NEW input
    PROVE  LET snapshot == CalculateProfitability(input)
           IN /\ snapshot.status = "incomplete" <=> ~Whole(input)
              /\ snapshot.price = input.price /\ snapshot.quantity = input.quantity
              /\ snapshot.refs = EvidenceRefs(input)
              /\ Whole(input) =>
                   /\ snapshot.rate = input.rate.bps /\ snapshot.fixed = FixedCosts(input)
                   /\ snapshot.margin = Margin(input)
              /\ snapshot.status = "profitable" =>
                   ~(Earnings(input) < 0) /\ ~(Margin(input) < input.minimum)
<1> DEFINE snapshot == CalculateProfitability(input)
           status == IF Earnings(input) < 0 THEN "loss"
                     ELSE IF Margin(input) < input.minimum THEN "below-floor" ELSE "profitable"
<1>1. CASE ~Whole(input)
  <2>1. snapshot = [status |-> "incomplete", price |-> input.price, quantity |-> input.quantity,
                    refs |-> EvidenceRefs(input),
                    missing |-> MissingInputs(input), stale |-> StaleEvidence(input)]
    BY <1>1 DEF CalculateProfitability, Whole
  <2> HIDE DEF snapshot
  <2> QED BY <1>1, <2>1 DEF snapshot
<1>2. CASE Whole(input)
  <2>1. snapshot = [status |-> status,
                    price |-> input.price, quantity |-> input.quantity,
                    refs |-> EvidenceRefs(input), rate |-> input.rate.bps,
                    fixed |-> FixedCosts(input), margin |-> Margin(input)]
    BY <1>2 DEF CalculateProfitability, Whole
  <2>2. /\ status /= "incomplete"
        /\ status = "profitable" =>
             ~(Earnings(input) < 0) /\ ~(Margin(input) < input.minimum)
    OBVIOUS
  <2> HIDE DEF snapshot, status
  <2> QED BY <1>2, <2>1, <2>2 DEF snapshot
<1> QED BY <1>1, <1>2

-----------------------------------------------------------------------------
(* The price that is proposed.                                             *)

\* What ProposalsReachTheTarget says of one decision.
Proper(e, d) ==
    /\ d.status = "proposed" =>
         LET input == e.input
             target == e.policy.target
             price == d.price
             later == [input EXCEPT !.price = price, !.quantity = 1]
         IN /\ MissingInputs(input) = {} /\ StaleEvidence(input) = {}
            /\ Reaches(price, input, target) /\ ~Reaches(price - 1, input, target)
            /\ price * BasisPoints <= input.price * (BasisPoints + e.policy.increase)
            /\ e.policy.ceiling = Null \/ price <= e.policy.ceiling
            /\ price >= 0
            /\ price > 0 =>
                 /\ d.projected = CalculateProfitability(later).margin
                 /\ 2 * price * (d.projected + 1) > 2 * price * target - BasisPoints
    /\ d = Blocked("maximum-increase-exceeded") =>
         LET input == e.input
             most == (input.price * (BasisPoints + e.policy.increase)) \div BasisPoints
         IN ~Reaches(most, input, e.policy.target)

\* Evidence and what is missing do not depend on price and quantity.
LEMMA EvidenceStays ==
    ASSUME NEW input, Calculable(input), NEW price
    PROVE  LET later == [input EXCEPT !.price = price, !.quantity = 1]
           IN /\ later.price = price /\ later.quantity = 1
              /\ later.rate = input.rate /\ later.costs = input.costs
              /\ Whole(later) <=> Whole(input)
<1> DEFINE later == [input EXCEPT !.price = price, !.quantity = 1]
<1>1. /\ later.price = price /\ later.quantity = 1
      /\ later.rate = input.rate /\ later.costs = input.costs
      /\ later.asOf = input.asOf /\ later.maxAge = input.maxAge
  BY DEF Calculable, InputFields
<1> HIDE DEF later
<1>2. Evidence(later) = Evidence(input) /\ MissingInputs(later) = MissingInputs(input)
  BY <1>1 DEF Evidence, MissingInputs
<1>3. StaleEvidence(later) = StaleEvidence(input)
  BY <1>1, <1>2 DEF StaleEvidence
<1> QED BY <1>1, <1>2, <1>3 DEF Whole, later

\* The least price at which what is left of each unit of price covers the costs.
LEMMA LeastPrice ==
    ASSUME NEW units \in Nat, NEW share \in Nat \ {0}
    PROVE  LET price == Ceil(units * BasisPoints, share)
           IN /\ price \in Nat
              /\ price * share >= units * BasisPoints
              /\ (price - 1) * share < units * BasisPoints
              /\ \A p \in Int : p < price => p * share < units * BasisPoints
<1> DEFINE price == Ceil(units * BasisPoints, share)
<1>1. units * BasisPoints \in Nat
  BY DEF BasisPoints
<1>2. /\ price \in Int /\ share * price >= units * BasisPoints
      /\ share * (price - 1) < units * BasisPoints
  BY <1>1, CeilBounds
<1> HIDE DEF price
<1>3. price >= 0
  <2>1. share * price >= 0
    BY <1>1, <1>2
  <2> QED BY <1>2, <2>1
<1>4. ASSUME NEW p \in Int, p < price PROVE p * share < units * BasisPoints
  <2>1. p <= price - 1 /\ price - 1 \in Int
    BY <1>2, <1>4
  <2>2. ASSUME NEW a \in Int, NEW b \in Int, a <= b PROVE share * a <= share * b
    BY <2>2
  <2>3. share * p <= share * (price - 1) /\ share * p = p * share
    BY <1>2, <2>1, <2>2
  <2>4. share * p \in Int /\ share * (price - 1) \in Int
    BY <1>2
  <2> QED BY <1>1, <1>2, <2>3, <2>4
<1> QED BY <1>1, <1>2, <1>3, <1>4 DEF price

\* The margin that is promised at a price that covers the costs at the target.
LEMMA PromisedMargin ==
    ASSUME NEW price \in Nat \ {0}, NEW units \in Nat, NEW rate \in Nat, NEW target \in Nat,
           price * (BasisPoints - rate - target) >= units * BasisPoints
    PROVE  LET profit == price - units - Rounded(price * rate, BasisPoints)
               margin == Trunc(profit * BasisPoints, price)
           IN 2 * price * (margin + 1) > 2 * price * target - BasisPoints
<1> DEFINE fee == Rounded(price * rate, BasisPoints)
           profit == price - units - fee
           margin == Trunc(profit * BasisPoints, price)
<1>1. fee \in Nat /\ 2 * BasisPoints * fee <= 2 * (price * rate) + BasisPoints
  BY RoundedBounds
<1>2. profit * BasisPoints \in Int
  BY <1>1 DEF BasisPoints
<1>3. margin \in Int /\ price * (margin + 1) > profit * BasisPoints
  BY <1>2, TruncBounds
<1> HIDE DEF fee, margin
<1>4. profit * BasisPoints = price * BasisPoints - units * BasisPoints - fee * BasisPoints
  BY <1>1 DEF BasisPoints
<1> HIDE DEF profit
<1>5. price * (BasisPoints - rate - target)
         = price * BasisPoints - price * rate - price * target
  BY DEF BasisPoints
<1> DEFINE rated == price * rate
           aimed == price * target
           earned == price * (margin + 1)
<1>6. rated \in Int /\ aimed \in Int /\ earned \in Int
  BY <1>3
<1>7. /\ 2 * price * (margin + 1) = 2 * earned
      /\ 2 * price * target = 2 * aimed
  BY <1>3
<1>8. /\ earned > price * BasisPoints - units * BasisPoints - fee * BasisPoints
      /\ price * BasisPoints - rated - aimed >= units * BasisPoints
      /\ 2 * BasisPoints * fee <= 2 * rated + BasisPoints
  BY <1>1, <1>3, <1>4, <1>5
<1> HIDE DEF rated, aimed, earned
<1>9. 2 * earned > 2 * aimed - BasisPoints
  BY <1>1, <1>6, <1>8 DEF BasisPoints
<1> QED BY <1>7, <1>9 DEF margin, profit, fee

LEMMA ProperDecision ==
    ASSUME NEW e \in Enquiries
    PROVE  Proper(e, PrepareRepricing(CalculateProfitability(e.input), e.policy))
<1> DEFINE input == e.input
           target == e.policy.target
           snapshot == CalculateProfitability(input)
           d == PrepareRepricing(snapshot, e.policy)
           rate == input.rate.bps
           share == BasisPoints - rate - target
           one == [input EXCEPT !.price = 0, !.quantity = 1]
           units == FixedCosts(one)
           price == Ceil(units * BasisPoints, share)
           most == (input.price * (BasisPoints + e.policy.increase)) \div BasisPoints
<1>1. /\ Calculable(input)
      /\ target \in 0..BasisPoints /\ e.policy.increase \in 0..BasisPoints
      /\ e.policy.ceiling /= Null => e.policy.ceiling \in Int
  BY PricingAssumption DEF Calculable
<1> HIDE DEF input, target
<1>2. input.price \in Nat \ {0} /\ input.quantity \in Nat \ {0} /\ BasisPoints = 10000
  <2>1. input.price \in Nat \ {0} /\ input.quantity \in Nat \ {0}
    BY <1>1 DEF Calculable
  <2> QED BY <2>1 DEF BasisPoints
<1>2a. input.price * (BasisPoints + e.policy.increase) \in Int
  <2>1. input.price \in Int
    BY <1>2
  <2>2. e.policy.increase \in Int
    <3>1. \A x \in 0..BasisPoints : x \in Int
      BY DEF BasisPoints
    <3> QED BY <1>1, <3>1
  <2> QED BY <2>1, <2>2 DEF BasisPoints
<1>3. units \in Nat /\ FixedCosts(input) = units * input.quantity
  BY <1>1, CostsPerUnit
<1> HIDE DEF one, units
<1>4. Ceil(FixedCosts(input), input.quantity) = units
  BY <1>2, <1>3, CeilExact
<1>5. Whole(input) => input.rate /= Null
  BY DEF Whole, MissingInputs
<1>6. Whole(input) => rate \in 0..BasisPoints
  BY <1>1, <1>5 DEF Calculable
<1>7. /\ snapshot.status = "incomplete" <=> ~Whole(input)
      /\ snapshot.price = input.price
      /\ Whole(input) => UnitCosts(snapshot) = units /\ snapshot.rate = rate
  <2>1. /\ snapshot.status = "incomplete" <=> ~Whole(input)
        /\ snapshot.price = input.price /\ snapshot.quantity = input.quantity
        /\ Whole(input) => snapshot.rate = rate /\ snapshot.fixed = FixedCosts(input)
    BY SnapshotRead
  <2> HIDE DEF snapshot
  <2> QED BY <1>4, <2>1 DEF UnitCosts
<1> HIDE DEF snapshot, rate
\* Only what is proposed, or refused as too dear, is priced.
<1>8. \/ /\ d.status /= "proposed" /\ d /= Blocked("maximum-increase-exceeded")
      \/ /\ Whole(input) /\ ~(rate + target >= BasisPoints)
         /\ d = Proposed(snapshot, e.policy)
  <2>1. \A r \in {"incomplete-economics", "invalid-policy"} :
           /\ Blocked(r).status /= "proposed"
           /\ Blocked(r) /= Blocked("maximum-increase-exceeded")
    <3>1. \A r : Blocked(r).reason = r /\ Blocked(r).status = "blocked"
      BY DEF Blocked
    <3> QED BY <3>1
  <2>2. /\ [status |-> "no-change"].status /= "proposed"
        /\ [status |-> "no-change"] /= Blocked("maximum-increase-exceeded")
    <3>1. [status |-> "no-change"].status = "no-change"
      OBVIOUS
    <3>2. Blocked("maximum-increase-exceeded").status = "blocked"
      BY DEF Blocked
    <3> QED BY <3>1, <3>2
  <2>3. CASE ~Whole(input)
    BY <1>7, <2>1, <2>3 DEF PrepareRepricing, target
  <2>4. CASE Whole(input) /\ rate + target >= BasisPoints
    BY <1>7, <2>1, <2>4 DEF PrepareRepricing, target
  <2>5. CASE Whole(input) /\ ~(rate + target >= BasisPoints)
    BY <1>7, <2>2, <2>5 DEF PrepareRepricing, target
  <2> QED BY <2>3, <2>4, <2>5
<1>9. CASE d.status /= "proposed" /\ d /= Blocked("maximum-increase-exceeded")
  BY <1>9 DEF Proper, snapshot, input
<1>10. CASE /\ Whole(input) /\ ~(rate + target >= BasisPoints)
            /\ d = Proposed(snapshot, e.policy)
  <2>1. share \in Nat \ {0} /\ rate \in Nat /\ target \in Nat
    <3>1. /\ rate \in 0..BasisPoints /\ target \in 0..BasisPoints
          /\ ~(rate + target >= BasisPoints)
      BY <1>1, <1>6, <1>10
    <3> QED BY <3>1 DEF BasisPoints
  <2>2. RequiredPrice(snapshot, e.policy) = price
    BY <1>7, <1>10 DEF RequiredPrice, target
  <2>3. /\ price \in Nat /\ price * share >= units * BasisPoints
        /\ (price - 1) * share < units * BasisPoints
        /\ \A p \in Int : p < price => p * share < units * BasisPoints
    BY <1>3, <2>1, LeastPrice
  <2> HIDE DEF price, share
  <2>4. /\ most \in Int /\ most * BasisPoints <= input.price * (BasisPoints + e.policy.increase)
        /\ MaximumAllowed(snapshot, e.policy) = most
    <3>1. input.price * (BasisPoints + e.policy.increase) \in Int
      BY <1>2a
    <3>2. most \in Int /\ BasisPoints * most <= input.price * (BasisPoints + e.policy.increase)
      BY <1>2, <3>1, Quotient
    <3> QED BY <1>2, <1>7, <3>2 DEF MaximumAllowed
  <2> HIDE DEF most
  <2>5. \A p \in Int : Reaches(p, input, target) <=> p * share >= units * BasisPoints
    BY <1>4 DEF Reaches, share, rate
  <2>6. \A p \in Int : p * share \in Int
    BY <2>1
  <2>7. ASSUME price > 0
        PROVE  LET later == [input EXCEPT !.price = price, !.quantity = 1]
                   projected == ProjectedMargin(snapshot, price)
               IN /\ projected = CalculateProfitability(later).margin
                  /\ 2 * price * (projected + 1) > 2 * price * target - BasisPoints
    <3> DEFINE later == [input EXCEPT !.price = price, !.quantity = 1]
               profit == price - units - Rounded(price * rate, BasisPoints)
    <3>1. price /= 0 /\ price \in Nat \ {0}
      BY <2>3, <2>7
    <3>2. ProjectedMargin(snapshot, price) = Trunc(profit * BasisPoints, price)
      BY <1>7, <1>10, <3>1 DEF ProjectedMargin
    <3>3. CalculateProfitability(later).margin = Margin(later)
      <4>1. Whole(later)
        BY <1>1, <1>10, EvidenceStays
      <4> HIDE DEF later
      <4> QED BY <4>1, SnapshotRead
    <3>4. /\ later.price = price /\ later.quantity = 1 /\ later.rate = input.rate
          /\ FixedCosts(later) = units
      <4>1. /\ later.price = price /\ later.quantity = 1
            /\ later.rate = input.rate /\ later.costs = input.costs
        BY <1>1, EvidenceStays
      <4>2. one.quantity = 1 /\ one.costs = input.costs
        BY <1>1, EvidenceStays DEF one
      <4> HIDE DEF later
      <4>3. \A k : Cost(later, k) = Cost(one, k)
        BY <4>1, <4>2 DEF Cost
      <4>4. FixedCosts(later) = FixedCosts(one)
        BY <4>3 DEF FixedCosts
      <4> QED BY <4>1, <4>4 DEF units
    <3> HIDE DEF later
    <3>5. price * 1 = price
      BY <3>1
    <3>6. Earnings(later) = profit
      BY <3>4, <3>5 DEF Earnings, rate
    <3>7. Margin(later) = Trunc(profit * BasisPoints, price)
      BY <3>4, <3>5, <3>6 DEF Margin
    <3>8. 2 * price * (Trunc(profit * BasisPoints, price) + 1) > 2 * price * target - BasisPoints
      BY <1>3, <2>1, <2>3, <3>1, PromisedMargin DEF share
    <3> HIDE DEF profit
    <3> QED BY <3>2, <3>3, <3>7, <3>8 DEF later
  <2>8. CASE price > most
    <3>1. d = Blocked("maximum-increase-exceeded")
      BY <1>10, <2>2, <2>4, <2>8 DEF Proposed
    <3>2. d.status = "blocked"
      BY <3>1 DEF Blocked
    <3>3. ~Reaches(most, input, target)
      BY <1>2, <1>3, <2>3, <2>4, <2>5, <2>6, <2>8
    <3> QED BY <3>2, <3>3 DEF Proper, most, input, target, snapshot
  <2>9. CASE ~(price > most) /\ e.policy.ceiling /= Null /\ price > e.policy.ceiling
    <3>1. d = Blocked("competitive-ceiling-exceeded")
      BY <1>10, <2>2, <2>4, <2>9 DEF Proposed
    <3>2. d.status = "blocked" /\ d.reason = "competitive-ceiling-exceeded"
      BY <3>1 DEF Blocked
    <3>3. Blocked("maximum-increase-exceeded").reason = "maximum-increase-exceeded"
      BY DEF Blocked
    <3> QED BY <3>2, <3>3 DEF Proper, input, snapshot
  <2>10. CASE ~(price > most) /\ ~(e.policy.ceiling /= Null /\ price > e.policy.ceiling)
    <3>1. d = [status |-> "proposed", price |-> price,
               projected |-> ProjectedMargin(snapshot, price)]
      BY <1>10, <2>2, <2>4, <2>10 DEF Proposed
    <3> HIDE DEF d
    <3>2. /\ d.status = "proposed" /\ d.price = price
          /\ d.projected = ProjectedMargin(snapshot, price)
      BY <3>1
    <3>3. d /= Blocked("maximum-increase-exceeded")
      BY <3>2 DEF Blocked
    <3>4. MissingInputs(input) = {} /\ StaleEvidence(input) = {}
      BY <1>10 DEF Whole
    <3>5. Reaches(price, input, target) /\ ~Reaches(price - 1, input, target)
      <4>1. price - 1 \in Int /\ price \in Int /\ price - 1 < price
        BY <2>3
      <4>2. units * BasisPoints \in Int
        BY <1>2, <1>3
      <4> QED BY <2>3, <2>5, <2>6, <4>1, <4>2
    <3>6. price * BasisPoints <= input.price * (BasisPoints + e.policy.increase)
      <4>1. price <= most
        BY <2>3, <2>4, <2>10
      <4>2. input.price * (BasisPoints + e.policy.increase) \in Int
        BY <1>2a
      <4> HIDE DEF most
      <4> QED BY <1>2, <2>3, <2>4, <4>1, <4>2
    <3>7. e.policy.ceiling = Null \/ price <= e.policy.ceiling
      BY <1>1, <2>3, <2>10
    <3>8. price >= 0
      BY <2>3
    <3>9. Proper(e, d)
      BY <2>7, <3>2, <3>3, <3>4, <3>5, <3>6, <3>7, <3>8 DEF Proper, input, target
    <3> QED BY <3>9 DEF d, snapshot, input
  <2> QED BY <2>8, <2>9, <2>10
<1> QED BY <1>8, <1>9, <1>10

\* A call of the pricing is answered once, from its own input.
PricingInv ==
    /\ enquiry \in Enquiries \union {NotAsked}
    /\ decision /= NotAsked =>
         /\ enquiry \in Enquiries
         /\ decision = PrepareRepricing(CalculateProfitability(enquiry.input), enquiry.policy)

LEMMA PricingHolds == Spec => []PricingInv
<1>1. Init => PricingInv
  BY DEF Init, PricingInit, PricingInv
<1>2. PricingInv /\ [Next]_vars => PricingInv'
  <2> SUFFICES ASSUME PricingInv, [Next]_vars PROVE PricingInv'
    OBVIOUS
  <2>1. CASE PrepareRepricingFor
    BY <2>1 DEF PrepareRepricingFor, PricingInv
  <2>2. CASE UNCHANGED pricingVars
    BY <2>2 DEF pricingVars, PricingInv
  <2>3. PrepareRepricingFor \/ UNCHANGED pricingVars
    BY DEF Next, vars, Mirroring, Auditing, Pricing, PricingNext, Supplying, Selling, Working,
           Ingesting, Failing, PolicyTime, LinkTime, PolicyQuarter, LinkQuarter
  <2> QED BY <2>1, <2>2, <2>3
<1> QED BY <1>1, <1>2, PTL DEF Spec

-----------------------------------------------------------------------------
(* What a proposal of the stock audit rests on.                            *)

ObservedInv == \A s \in Sources : \A o \in observations[s] : o.at \in Times

\* The cost is one its source reported at the time of its evidence.
CostBacked ==
    cost /= NoRow =>
      \E o \in observations[cost.source] : o.ok /\ o.at = cost.at /\ o.cost = cost.amount

\* Source s reported at time t a cost at which the listing earns its margin.
EarnedAt(s, t) ==
    \E o \in observations[s] : o.ok /\ o.at = t /\ o.cost \in Nat /\ EarnsAt(o.cost)

\* A snapshot that calls the listing profitable rests on such a cost.
Truthful(snapshot) ==
    snapshot.status = "profitable" =>
      \A s \in Sources, t \in Times : <<s, t>> \in snapshot.refs => EarnedAt(s, t)

\* The observations up to time t, as far back as all of them confirm.
Since(s, t) ==
    {o \in observations[s] :
       o.at <= t /\ \A q \in observations[s] : o.at <= q.at /\ q.at <= t => Confirms(q)}

RecoveredBy(s, o) ==
    /\ Confirms(o) /\ EarnsAt(o.cost)
    /\ s \in missed \/ Cardinality(Since(s, o.at)) >= RecoverySyncs

\* What an assessment proposes follows from what source s had reported at its time.
Deserved(s, assessment) ==
    assessment.proposal /= "none" =>
      /\ s \in OnlineSources
      /\ \E o \in observations[s] :
           /\ o.ok /\ o.at = assessment.at
           /\ assessment.proposal = "listing.pause" => o.stock = 0
           /\ assessment.proposal = "listing.reactivate" => RecoveredBy(s, o)

DeskFields == {"at", "source", "found", "earlier", "late"}

DeskOK(desk) ==
    /\ DOMAIN desk = DeskFields
    /\ desk.at = "save" => Truthful(desk.found)
    /\ desk.at \in {"stock-read", "stock-save", "stock-propose"} => desk.source \in Sources
    /\ desk.at \in {"stock-save", "stock-propose"} => Deserved(desk.source, desk.found)
    /\ desk.at = "stock-propose" => desk.found.proposal /= "none"

EarnedInv ==
    /\ ObservedInv /\ CostBacked
    /\ latest /= NoRow => Truthful(latest)
    /\ \A a \in Auditors : DeskOK(desks[a])

\* Observations are only added, each newer than all its source had reported.
Grows ==
    /\ missed \subseteq missed'
    /\ \A s \in Sources :
          /\ observations[s] \subseteq observations'[s] /\ observations'[s] \subseteq Observations
          /\ \A o \in observations'[s] \ observations[s] : \A q \in observations[s] : q.at < o.at

LEMMA TruthLasts ==
    ASSUME Grows, NEW snapshot, Truthful(snapshot)
    PROVE  Truthful(snapshot)'
BY DEF Grows, Truthful, EarnedAt

LEMMA DesertLasts ==
    ASSUME MirrorInv, Grows, NEW s \in Sources, NEW assessment, Deserved(s, assessment)
    PROVE  Deserved(s, assessment)'
<1>1. /\ observations[s] \subseteq observations'[s] /\ missed \subseteq missed'
      /\ \A o \in observations'[s] \ observations[s] : \A q \in observations[s] : q.at < o.at
  BY DEF Grows
<1>2. ASSUME NEW o \in observations[s] PROVE Since(s, o.at)' = Since(s, o.at)
  <2>1. \A q \in observations'[s] : q.at \in Nat
    BY DEF Grows, Observations
  <2>2. \A q \in observations'[s] : q.at <= o.at => q \in observations[s]
    BY <1>1, <2>1
  <2>3. ASSUME NEW p \in observations[s]
        PROVE  (\A q \in observations[s] : p.at <= q.at /\ q.at <= o.at => Confirms(q))
                 <=> \A q \in observations'[s] : p.at <= q.at /\ q.at <= o.at => Confirms(q)
    BY <1>1, <2>2
  <2> QED BY <1>1, <2>2, <2>3 DEF Since
<1>3. \A o \in observations[s] : RecoveredBy(s, o) => RecoveredBy(s, o)'
  BY <1>1, <1>2 DEF RecoveredBy
<1> QED BY <1>1, <1>3 DEF Deserved

LEMMA DeskLasts ==
    ASSUME MirrorInv, Grows, NEW desk, DeskOK(desk)
    PROVE  DeskOK(desk)'
BY TruthLasts, DesertLasts DEF DeskOK

LEMMA RecordGrows ==
    ASSUME MirrorInv, EarnedInv, NEW s \in Sources, NEW o \in Observations, Recorded(s, o)
    PROVE  Grows /\ ObservedInv' /\ CostBacked'
<1>0. /\ MirrorTypeInv /\ ObservedInv /\ CostBacked
      /\ NoRow \notin CostRows /\ NoRow \notin Nat
  BY NoRowIsNone, MirrorAssumption DEF MirrorInv, EarnedInv
<1>1. /\ observations'[s] = observations[s] \union {o}
      /\ \A t \in Sources \ {s} : observations'[t] = observations[t]
      /\ products'[s] = Mirrored(products[s], o) /\ missed \subseteq missed'
      /\ \A t \in Sources : observations[t] \subseteq Observations
  BY <1>0 DEF MirrorTypeInv, Recorded
<1>2. \A q \in observations[s] : q.at < o.at
  BY RecordedIsNewest
<1>3. Grows
  BY <1>1, <1>2 DEF Grows
<1>4. ObservedInv'
  <2>1. o.at \in Times
    BY <1>0, MirrorAssumption DEF Recorded, MirrorTypeInv, Times
  <2> QED BY <1>0, <1>1, <2>1 DEF ObservedInv
<1>5. CostBacked'
  <2>1. cost' = IF o.ok /\ links[s].costly THEN Fed(cost, s, products'[s]) ELSE cost
    BY <1>0, SetCostPolicy DEF MirrorTypeInv, Recorded
  <2>2. CASE cost' = cost \/ cost' = NoRow
    <3>1. cost /= NoRow => cost.source \in Sources
      BY <1>0 DEF MirrorTypeInv, CostRows
    <3> QED BY <1>0, <1>1, <2>2, <3>1 DEF CostBacked
  <2>3. CASE cost' /= cost /\ cost' /= NoRow
    <3> DEFINE new == products'[s]
    <3>1. o.ok /\ new.cost = o.cost /\ new.at = o.at
      BY <1>0, <1>1, <2>1, <2>3, MirroredProduct DEF MirrorTypeInv, Recorded
    <3> HIDE DEF new
    <3>2. cost' = [source |-> s, amount |-> new.cost, at |-> new.at]
      BY <2>1, <2>3 DEF Fed, Cleared, new
    <3>3. cost'.source = s /\ cost'.amount = o.cost /\ cost'.at = o.at
      BY <3>1, <3>2
    <3> QED BY <1>1, <3>1, <3>3 DEF CostBacked
  <2> QED BY <2>2, <2>3
<1> QED BY <1>3, <1>4, <1>5

LEMMA RelinkKeepsCost ==
    ASSUME MirrorInv, EarnedInv, NEW s \in Sources, NEW new \in Links, Relinked(s, new)
    PROVE  CostBacked'
<1>1. MirrorTypeInv /\ CostBacked /\ ProductInv(s) /\ products[s] /= NoRow
  BY DEF MirrorInv, EarnedInv, Relinked
<1>2. cost' = FedByLink(s, links[s], new) /\ UNCHANGED observations
  BY <1>1, SetCostPolicy DEF MirrorTypeInv, Relinked
<1>3. \/ cost' = cost \/ cost' = NoRow
      \/ cost' = [source |-> s, amount |-> products[s].cost, at |-> products[s].at]
  BY <1>2 DEF FedByLink, Fed, Cleared
<1>4. CASE cost' = cost \/ cost' = NoRow
  BY <1>1, <1>2, <1>4 DEF CostBacked
<1>5. CASE cost' = [source |-> s, amount |-> products[s].cost, at |-> products[s].at]
  <2>1. /\ cost'.source = s /\ cost'.amount = products[s].cost /\ cost'.at = products[s].at
    BY <1>5
  <2> QED BY <1>1, <1>2, <2>1 DEF CostBacked, ProductInv
<1> QED BY <1>3, <1>4, <1>5

\* The audits find everything as it was, but for the links' leases and due times.
LEMMA StillGrows ==
    ASSUME MirrorInv, UNCHANGED <<observations, missed>>
    PROVE  Grows
BY DEF MirrorInv, MirrorTypeInv, Grows

LEMMA RatesAreNumbers == \A rate \in 0..BasisPoints : rate \in Nat
BY DEF BasisPoints

\* A margin that reaches the minimum leaves the minimum's share of the price.
LEMMA MarginLeaves ==
    ASSUME NEW price \in Nat \ {0}, NEW profit \in Int, NEW minimum \in 0..BasisPoints,
           profit >= 0, Trunc(profit * BasisPoints, price) >= minimum
    PROVE  profit >= Rounded(price * minimum, BasisPoints)
<1> DEFINE margin == Trunc(profit * BasisPoints, price)
           share == Rounded(price * minimum, BasisPoints)
<1>1. minimum \in Nat
  BY RatesAreNumbers
<1>2. profit * BasisPoints \in Int /\ profit * BasisPoints >= 0
  BY DEF BasisPoints
<1>3. margin \in Int /\ price * margin <= profit * BasisPoints
  BY <1>2, TruncBounds
<1>4. price * minimum \in Nat
  BY <1>1
<1>5. share \in Nat /\ 2 * BasisPoints * share <= 2 * (price * minimum) + BasisPoints
  BY <1>4, RoundedBounds
<1> HIDE DEF margin, share
<1>6. price * minimum <= price * margin
  <2>1. margin >= minimum
    BY DEF margin
  <2>2. ASSUME NEW a \in Int, NEW b \in Int, b <= a PROVE price * b <= price * a
    BY <2>2
  <2> QED BY <1>1, <1>3, <2>1, <2>2
<1>7. price * margin \in Int
  BY <1>3
<1>8. price * minimum <= profit * BasisPoints
  BY <1>2, <1>3, <1>4, <1>6, <1>7
<1>9. share <= profit
  BY <1>4, <1>5, <1>8 DEF BasisPoints
<1> QED BY <1>9 DEF share

LEMMA SnapshotIsTruthful ==
    ASSUME MirrorInv, EarnedInv
    PROVE  Truthful(CalculateProfitability(EconomicInput(cost)))
<1> DEFINE input == EconomicInput(cost)
           snapshot == CalculateProfitability(input)
           known(name) == [id |-> <<name, 0>>, at |-> now]
           told == {"fulfillment-cost"} \union (IF cost = NoRow THEN {} ELSE {"product-cost"})
           product == [amount |-> cost.amount,
                       evidence |-> [id |-> <<cost.source, cost.at>>, at |-> cost.at]]
           fulfilment == [amount |-> Terms.fulfilment, evidence |-> known("fulfillment")]
<1>0. /\ MirrorTypeInv /\ ObservedInv /\ CostBacked
  BY DEF MirrorInv, EarnedInv
<1>1. /\ input.price = Terms.price /\ input.quantity = 1
      /\ input.rate = [bps |-> Terms.fee, evidence |-> known("fee")]
      /\ input.costs = [kind \in told |-> IF kind = "product-cost" THEN product ELSE fulfilment]
      /\ input.minimum = Terms.minimum
  BY DEF EconomicInput
<1>2. /\ snapshot.status = "incomplete" <=> ~Whole(input)
      /\ snapshot.refs = EvidenceRefs(input)
      /\ snapshot.status = "profitable" =>
           ~(Earnings(input) < 0) /\ ~(Margin(input) < input.minimum)
  BY SnapshotRead
<1> HIDE DEF input, snapshot
<1> SUFFICES ASSUME snapshot.status = "profitable", NEW s \in Sources, NEW t \in Times,
                    <<s, t>> \in snapshot.refs
             PROVE  EarnedAt(s, t)
  BY DEF Truthful, snapshot, input
\* The snapshot rests on the cost row, whose evidence alone has a time after 0.
<1>3. cost /= NoRow
  <2>1. "product-cost" \in DOMAIN input.costs
    BY <1>2 DEF Whole, MissingInputs, RequiredCostKinds
  <2> QED BY <1>1, <2>1
<1>4. cost \in CostRows /\ cost.amount \in Nat
  BY <1>0, <1>3 DEF MirrorTypeInv, CostRows
<1>5. told = {"fulfillment-cost", "product-cost"}
  BY <1>3
<1>6. /\ DOMAIN input.costs = {"fulfillment-cost", "product-cost"}
      /\ input.costs["product-cost"] = product
      /\ input.costs["fulfillment-cost"] = fulfilment
  BY <1>1, <1>5
<1>7. s = cost.source /\ t = cost.at
  <2>1. EvidenceRefs(input) \subseteq {<<"fee", 0>>, <<"fulfillment", 0>>, <<cost.source, cost.at>>}
    <3>1. /\ input.rate.evidence.id = <<"fee", 0>> /\ product.evidence.id = <<cost.source, cost.at>>
          /\ fulfilment.evidence.id = <<"fulfillment", 0>>
      BY <1>1
    <3> HIDE DEF product, fulfilment
    <3>2. Evidence(input) \subseteq {input.rate.evidence, product.evidence, fulfilment.evidence}
      BY <1>6 DEF Evidence
    <3> QED BY <3>1, <3>2 DEF EvidenceRefs
  <2>2. t /= 0
    BY DEF Times
  <2> QED BY <1>2, <2>1, <2>2
<1>8. PICK o \in observations[s] : o.ok /\ o.at = t /\ o.cost = cost.amount
  BY <1>0, <1>3, <1>7 DEF CostBacked
<1>9. EarnsAt(cost.amount)
  <2> DEFINE fee == Rounded(Terms.price * Terms.fee, BasisPoints)
             profit == Terms.price - cost.amount - Terms.fulfilment - fee
  <2>1. /\ Terms.price \in Nat \ {0} /\ Terms.fulfilment \in Nat
        /\ Terms.fee \in Nat /\ Terms.minimum \in 0..BasisPoints
    BY TermsAssumption, RatesAreNumbers
  <2>2. FixedCosts(input) = cost.amount + Terms.fulfilment
    <3>1. Cost(input, "product-cost") = cost.amount
      BY <1>1, <1>4, <1>6 DEF Cost
    <3>2. Cost(input, "fulfillment-cost") = Terms.fulfilment
      BY <1>1, <1>6, <2>1 DEF Cost
    <3>3. /\ Cost(input, "packaging-cost") = 0 /\ Cost(input, "ads-cost") = 0
          /\ Cost(input, "returns-cost") = 0 /\ Cost(input, "discount-cost") = 0
          /\ Cost(input, "import-cost") = 0 /\ Cost(input, "other-cost") = 0
      BY <1>6 DEF Cost
    <3> QED BY <1>4, <2>1, <3>1, <3>2, <3>3 DEF FixedCosts
  <2>3. fee \in Nat
    <3>1. Terms.price * Terms.fee \in Nat
      BY <2>1
    <3> QED BY <3>1, RoundedBounds
  <2>4. Terms.price * 1 = Terms.price /\ input.rate.bps = Terms.fee
    BY <1>1, <2>1
  <2> HIDE DEF fee
  <2>5. Earnings(input) = profit /\ profit \in Int
    BY <1>1, <1>4, <2>1, <2>2, <2>3, <2>4 DEF Earnings, fee
  <2> HIDE DEF profit
  <2>6. Margin(input) = Trunc(profit * BasisPoints, Terms.price)
    BY <1>1, <2>4, <2>5 DEF Margin
  <2>7. profit * BasisPoints \in Int
    BY <2>5 DEF BasisPoints
  <2>8. Trunc(profit * BasisPoints, Terms.price) \in Int
    BY <2>1, <2>7, TruncBounds
  <2>9. Terms.minimum \in Int
    BY <2>1, RatesAreNumbers
  <2>10. profit >= 0 /\ Trunc(profit * BasisPoints, Terms.price) >= Terms.minimum
    BY <1>1, <1>2, <2>5, <2>6, <2>8, <2>9
  <2>11. profit >= Rounded(Terms.price * Terms.minimum, BasisPoints)
    BY <2>1, <2>5, <2>10, MarginLeaves
  <2> QED BY <2>11 DEF EarnsAt, profit, fee
<1> QED BY <1>4, <1>8, <1>9 DEF EarnedAt

LEMMA EvaluationIsDeserved ==
    ASSUME MirrorInv, EarnedInv, NEW s \in Sources, links[s].active
    PROVE  Deserved(s, EvaluateSupplierStock(s))
<1> DEFINE product == products[s]
           found == EvaluateSupplierStock(s)
           eligible == s \in OnlineSources /\ product.ok /\ Fresh(s)
           earned == Profitability(s) = "profitable" /\ CostChange(product) = 0
<1>0. /\ MirrorTypeInv /\ ObservedInv /\ CostBacked /\ SeenInv(s) /\ ProductInv(s)
      /\ latest /= NoRow => Truthful(latest)
  BY DEF MirrorInv, EarnedInv
<1>1. product /= NoRow /\ product \in Products
  BY <1>0 DEF ProductInv, MirrorTypeInv
<1>2. /\ found.at = product.at
      /\ found.proposal = IF ~eligible THEN "none"
                          ELSE IF Recovered(s) /\ earned THEN "listing.reactivate"
                          ELSE IF product.stock = 0 /\ listing = "active" THEN "listing.pause"
                          ELSE "none"
  BY DEF EvaluateSupplierStock
<1> HIDE DEF found
<1> SUFFICES ASSUME found.proposal /= "none" PROVE Deserved(s, found)
  BY DEF Deserved, found
<1>3. eligible
  BY <1>2
<1>4. PICK o \in observations[s] : /\ o.ok /\ o.at = product.at
                                   /\ o.stock = product.stock /\ o.cost = product.cost
  BY <1>0, <1>1 DEF ProductInv
<1>5. found.proposal = "listing.pause" => o.stock = 0
  BY <1>2, <1>4
<1>6. ASSUME found.proposal = "listing.reactivate" PROVE RecoveredBy(s, o)
  <2>1. Recovered(s) /\ Profitability(s) = "profitable"
    BY <1>2, <1>6
  <2>2. Confirms(o)
    BY <1>4, <2>1 DEF Recovered, Confirms
  <2>3. EarnsAt(o.cost)
    <3>1. ProfitKnown(s) /\ latest.status = "profitable"
      BY <2>1 DEF Profitability
    <3>2. /\ latest /= NoRow /\ cost /= NoRow /\ product.cost = cost.amount
          /\ <<cost.source, cost.at>> \in latest.refs
      BY <3>1 DEF ProfitKnown
    <3>3. cost.source \in Sources
      BY <1>0, <3>2 DEF MirrorTypeInv, CostRows
    <3>4. PICK p \in observations[cost.source] : p.ok /\ p.at = cost.at /\ p.cost = cost.amount
      BY <1>0, <3>2 DEF CostBacked
    <3>5. cost.at \in Times
      BY <1>0, <3>3, <3>4 DEF ObservedInv
    <3>6. PICK q \in observations[cost.source] :
             q.ok /\ q.at = cost.at /\ q.cost \in Nat /\ EarnsAt(q.cost)
      BY <1>0, <3>1, <3>2, <3>3, <3>5 DEF Truthful, EarnedAt
    <3>7. SeenInv(cost.source)
      BY <3>3 DEF MirrorInv
    <3>8. p = q
      BY <3>4, <3>6, <3>7 DEF SeenInv
    <3> QED BY <1>4, <3>2, <3>4, <3>6, <3>8
  <2>4. ASSUME s \notin missed PROVE Cardinality(Since(s, o.at)) >= RecoverySyncs
    <3>1. links[s].confirmed >= RecoverySyncs /\ links[s].confirmed \in Nat
      BY <1>0, <2>1 DEF Recovered, MirrorTypeInv, Links
    <3>2. links[s].confirmed <= Cardinality(Run(s)) /\ IsFiniteSet(observations[s])
      BY <1>0, <2>4 DEF SeenInv
    \* The source's last sync stands, so that its product is what it reported last.
    <3>3. o.at = product.last
      <4>1. PICK n \in observations[s] : n.at = product.last /\ n.ok = product.ok
        BY <1>0, <1>1 DEF ProductInv
      <4>2. n.at <= product.at /\ product.at <= product.last
        BY <1>0, <1>1, <1>3, <4>1 DEF ProductInv
      <4>3. product.at \in Nat /\ product.last \in Nat
        BY <1>1 DEF Products
      <4> QED BY <1>4, <4>1, <4>2, <4>3
    <3>4. Run(s) \subseteq Since(s, o.at)
      <4>1. \A q \in observations[s] : q.at <= o.at
        BY <1>0, <1>1, <3>3 DEF ProductInv
      <4>2. \A p, q \in observations[s] : p.at <= q.at => q.at >= p.at
        BY <1>0 DEF MirrorTypeInv, Observations
      <4> QED BY <4>1, <4>2 DEF Run, Since
    <3>5. IsFiniteSet(Since(s, o.at))
      BY <3>2, FS_Subset DEF Since
    <3>6. Cardinality(Run(s)) <= Cardinality(Since(s, o.at))
      BY <3>4, <3>5, FS_Subset
    <3>7. Cardinality(Run(s)) \in Nat /\ Cardinality(Since(s, o.at)) \in Nat
      BY <3>4, <3>5, FS_Subset, FS_CardinalityType
    <3> QED BY <3>1, <3>2, <3>6, <3>7, StockAssumption
  <2> QED BY <2>2, <2>3, <2>4 DEF RecoveredBy
<1> QED BY <1>2, <1>3, <1>4, <1>5, <1>6 DEF Deserved

\* A desk whose step, source and finding are the same.
SameDesk(old, new) ==
    DOMAIN new = DeskFields /\ new.at = old.at /\ new.source = old.source /\ new.found = old.found

LEMMA SameDeskOK ==
    ASSUME NEW old, NEW new, SameDesk(old, new), DeskOK(old)
    PROVE  DeskOK(new)
BY DEF SameDesk, DeskOK

LEMMA DeskEdited ==
    ASSUME NEW desk, DOMAIN desk = DeskFields, NEW earlier, NEW late
    PROVE  /\ SameDesk(desk, [desk EXCEPT !.earlier = earlier])
           /\ SameDesk(desk, [desk EXCEPT !.late = late, !.earlier = earlier])
BY DEF SameDesk, DeskFields

LEMMA DeskCleared ==
    ASSUME NEW step, NEW s
    PROVE  LET desk == [AtMargins EXCEPT !.at = step]
               stock == [AtStocks EXCEPT !.at = step, !.source = s]
           IN /\ DOMAIN desk = DeskFields /\ desk.at = step
              /\ DOMAIN stock = DeskFields /\ stock.at = step /\ stock.source = s
BY DEF AtMargins, AtStocks, DeskFields

\* The steps at which a desk holds nothing that counts.
LEMMA IdleDeskOK ==
    ASSUME NEW desk, DOMAIN desk = DeskFields,
           desk.at \notin {"save", "stock-read", "stock-save", "stock-propose"}
    PROVE  DeskOK(desk)
BY DEF DeskOK

LEMMA ClearedDeskOK ==
    ASSUME NEW s,
           NEW step \in {"margins", "resting", "read", "close", "fail", "stocks",
                         "stock-schedule", "stock-close", "stock-fail"}
    PROVE  /\ DeskOK([AtMargins EXCEPT !.at = step])
           /\ DeskOK([AtStocks EXCEPT !.at = step, !.source = s])
           /\ DeskOK(AtMargins) /\ DeskOK(AtStocks) /\ DeskOK(Resting)
<1>1. /\ DeskOK([AtMargins EXCEPT !.at = step])
      /\ DeskOK([AtStocks EXCEPT !.at = step, !.source = s])
  BY DeskCleared, IdleDeskOK
<1>2. DOMAIN AtMargins = DeskFields /\ AtMargins.at = "margins"
  BY DEF AtMargins, DeskFields
<1>3. DeskOK(AtMargins)
  BY <1>2, IdleDeskOK
<1>4. DeskOK(AtStocks)
  BY DeskCleared, IdleDeskOK DEF AtStocks
<1>5. DeskOK(Resting)
  BY DeskCleared, IdleDeskOK DEF Resting
<1> QED BY <1>1, <1>3, <1>4, <1>5

Unseen == UNCHANGED <<observations, missed, cost>>

\* A step of one auditor that sees to it that its own desk is in order.
LEMMA DesksStep ==
    ASSUME MirrorInv, EarnedInv, Unseen,
           \A a \in Auditors : DeskOK(desks'[a]),
           latest' = latest \/ Truthful(latest')
    PROVE  EarnedInv'
<1>1. Grows
  BY StillGrows DEF Unseen
<1>2. ObservedInv' /\ CostBacked'
  BY DEF EarnedInv, ObservedInv, CostBacked, Unseen
<1>3. \A a \in Auditors : DeskOK(desks[a])'
  BY <1>1, DeskLasts
<1>4. latest' /= NoRow => Truthful(latest)'
  <2>1. ASSUME latest' /= NoRow PROVE Truthful(latest')
    BY <2>1 DEF EarnedInv
  <2> QED BY <1>1, <2>1, TruthLasts
<1> QED BY <1>2, <1>3, <1>4 DEF EarnedInv

LEMMA GoesStep ==
    ASSUME MirrorInv, EarnedInv, Unseen, UNCHANGED latest,
           NEW a, NEW desk, DeskOK(desk), Goes(a, desk)
    PROVE  EarnedInv'
<1>1. ASSUME NEW b \in Auditors PROVE DeskOK(desks'[b])
  <2>1. DeskOK(desks[b])
    BY DEF EarnedInv
  <2>2. SameDesk(desks[b], [desks[b] EXCEPT !.earlier = @ \ {a}])
    BY <2>1, DeskEdited DEF DeskOK
  <2>3. DeskOK([desks[b] EXCEPT !.earlier = @ \ {a}])
    BY <2>1, <2>2, SameDeskOK
  <2> QED BY <2>3 DEF Goes
<1> QED BY <1>1, DesksStep

LEMMA EarnedRead ==
    ASSUME MirrorInv, EarnedInv, Unseen, UNCHANGED latest, NEW a \in Auditors, ReadEconomics(a)
    PROVE  EarnedInv'
<1> DEFINE found == CalculateProfitability(EconomicInput(cost))
           desk == [desks[a] EXCEPT !.at = "save", !.found = found, !.earlier = Reading]
<1>1. Goes(a, desk)
  BY DEF ReadEconomics
<1>2. Truthful(found)
  BY SnapshotIsTruthful
<1> HIDE DEF found
<1>3. DOMAIN desks[a] = DeskFields
  BY DEF EarnedInv, DeskOK
<1>4. DOMAIN desk = DeskFields /\ desk.at = "save" /\ desk.found = found
  BY <1>3 DEF DeskFields
<1> HIDE DEF desk
<1>5. DeskOK(desk)
  BY <1>2, <1>4 DEF DeskOK
<1> QED BY <1>1, <1>5, GoesStep

LEMMA EarnedSave ==
    ASSUME MirrorInv, EarnedInv, Unseen, NEW a \in Auditors, SaveSnapshot(a)
    PROVE  EarnedInv'
<1> DEFINE snapshot == desks[a].found
           next == IF a \in Workers THEN [AtMargins EXCEPT !.at = "close"] ELSE Resting
<1>1. DeskOK(next)
  BY ClearedDeskOK
<1>2. Truthful(snapshot)
  BY DEF SaveSnapshot, At, EarnedInv, DeskOK
<1>3. CASE snapshot \in incomplete
  <2>1. Goes(a, next) /\ UNCHANGED latest
    BY <1>3 DEF SaveSnapshot
  <2> QED BY <1>1, <2>1, GoesStep
<1>4. CASE snapshot \notin incomplete
  <2>1. /\ desks' = [b \in Auditors |->
               IF b = a THEN next
               ELSE [desks[b] EXCEPT !.late = @ \/ b \in Overtaken(a), !.earlier = @ \ {a}]]
        /\ latest' = latest \/ latest' = snapshot
    BY <1>4 DEF SaveSnapshot
  <2> HIDE DEF next, snapshot
  <2>2. ASSUME NEW b \in Auditors PROVE DeskOK(desks'[b])
    <3> DEFINE kept == [desks[b] EXCEPT !.late = @ \/ b \in Overtaken(a), !.earlier = @ \ {a}]
    <3>1. DeskOK(desks[b])
      BY DEF EarnedInv
    <3>2. SameDesk(desks[b], kept)
      BY <3>1, DeskEdited DEF DeskOK
    <3>3. DeskOK(kept)
      BY <3>1, <3>2, SameDeskOK
    <3>4. desks'[b] = IF b = a THEN next ELSE kept
      BY <2>1
    <3> HIDE DEF kept
    <3> QED BY <1>1, <3>3, <3>4
  <2> QED BY <1>2, <2>1, <2>2, DesksStep
<1> QED BY <1>3, <1>4

LEMMA EarnedMargins ==
    ASSUME MirrorInv, EarnedInv, Unseen, NEW a,
           \/ a \in Workers /\ MarginStep(a)
           \/ a \in Clerks /\ ClerkStep(a)
           \/ MarginThrows(a) /\ UNCHANGED latest
    PROVE  EarnedInv'
<1>1. ASSUME NEW desk, Goes(a, desk), UNCHANGED latest,
             desk \in {AtMargins, AtStocks, Resting, [AtMargins EXCEPT !.at = "read"],
                       [AtMargins EXCEPT !.at = "close"], [AtMargins EXCEPT !.at = "fail"]}
      PROVE  EarnedInv'
  <2>1. DeskOK(desk)
    BY <1>1, ClearedDeskOK
  <2> QED BY <1>1, <2>1, GoesStep
<1>2. ASSUME a \in Auditors, ReadEconomics(a), UNCHANGED latest PROVE EarnedInv'
  BY <1>2, EarnedRead
<1>3. ASSUME a \in Auditors, SaveSnapshot(a) PROVE EarnedInv'
  BY <1>3, EarnedSave
<1>4. CASE a \in Workers /\ MarginStep(a)
  <2>1. CASE RunMarginDaemon(a) /\ UNCHANGED latest
    BY <1>1, <2>1 DEF RunMarginDaemon
  <2>2. CASE CompleteMargin(a) /\ UNCHANGED latest
    BY <1>1, <2>2 DEF CompleteMargin
  <2>3. CASE FailMargin(a) /\ UNCHANGED latest
    BY <1>1, <2>3 DEF FailMargin
  <2> QED BY <1>2, <1>3, <1>4, <2>1, <2>2, <2>3 DEF MarginStep, Auditors
<1>5. CASE a \in Clerks /\ ClerkStep(a)
  BY <1>2, <1>3, <1>5 DEF ClerkStep, Auditors
<1>6. CASE MarginThrows(a) /\ UNCHANGED latest
  BY <1>1, <1>6 DEF MarginThrows
<1> QED BY <1>4, <1>5, <1>6

LEMMA EarnedStocks ==
    ASSUME MirrorInv, EarnedInv, Unseen, UNCHANGED latest, NEW w \in Workers,
           StockStep(w) \/ StockThrows(w) \/ WorkerDies(w)
    PROVE  EarnedInv'
<1> DEFINE desk == desks[w]
           closed(step) == [AtStocks EXCEPT !.at = step, !.source = desk.source]
<1>0. DeskOK(desk)
  BY DEF EarnedInv, Auditors
<1>1. ASSUME NEW new, Goes(w, new),
             \/ new = AtMargins
             \/ \E step \in {"stock-schedule", "stock-close", "stock-fail"} : new = closed(step)
      PROVE  EarnedInv'
  <2>1. \A step \in {"stock-schedule", "stock-close", "stock-fail"} : DeskOK(closed(step))
    BY ClearedDeskOK
  <2>2. DeskOK(AtMargins)
    BY ClearedDeskOK
  <2> HIDE DEF closed
  <2>3. DeskOK(new)
    BY <1>1, <2>1, <2>2
  <2> QED BY <1>1, <2>3, GoesStep
<1>2. ASSUME NEW step \in {"stock-schedule", "stock-close", "stock-fail"}, Closes(w, step)
      PROVE  EarnedInv'
  BY <1>1, <1>2 DEF Closes
<1>3. CASE RunStockDaemon(w)
  <2>1. ASSUME NEW s \in Sources, Goes(w, [AtStocks EXCEPT !.at = "stock-read", !.source = s])
        PROVE  EarnedInv'
    <3> DEFINE new == [AtStocks EXCEPT !.at = "stock-read", !.source = s]
    <3>1. DOMAIN new = DeskFields /\ new.at = "stock-read" /\ new.source = s
      BY DeskCleared
    <3> HIDE DEF new
    <3>2. DeskOK(new)
      BY <3>1 DEF DeskOK
    <3> QED BY <2>1, <3>2, GoesStep DEF new
  <2>2. \/ Goes(w, AtMargins)
        \/ \E s \in Sources : Goes(w, [AtStocks EXCEPT !.at = "stock-read", !.source = s])
    BY <1>3 DEF RunStockDaemon
  <2> QED BY <1>1, <2>1, <2>2
<1>4. CASE ReadStock(w)
  <2> DEFINE s == desk.source
             found == EvaluateSupplierStock(s)
             new == [desk EXCEPT !.at = "stock-save", !.found = found]
  <2>1. desk.at = "stock-read" /\ s \in Sources
    BY <1>0, <1>4 DEF ReadStock, At, DeskOK
  <2>2. CASE Evaluates(s)
    <3>1. Goes(w, new)
      BY <1>4, <2>2 DEF ReadStock
    <3>2. Deserved(s, found)
      BY <2>1, <2>2, EvaluationIsDeserved DEF Evaluates
    <3> HIDE DEF found
    <3>3. /\ DOMAIN new = DeskFields /\ new.at = "stock-save"
          /\ new.source = s /\ new.found = found
      BY <1>0 DEF DeskOK, DeskFields
    <3> HIDE DEF new
    <3>4. DeskOK(new)
      BY <2>1, <3>2, <3>3 DEF DeskOK
    <3> QED BY <3>1, <3>4, GoesStep
  <2>3. CASE ~Evaluates(s)
    BY <1>2, <1>4, <2>3 DEF ReadStock
  <2> QED BY <2>2, <2>3
<1>5. ASSUME Considered(w) PROVE EarnedInv'
  BY <1>2, <1>5 DEF Considered
<1>6. CASE SaveAssessment(w)
  <2> DEFINE new == [desk EXCEPT !.at = "stock-propose"]
  <2>1. CASE desk.found.proposal = "none"
    BY <1>5, <1>6, <2>1 DEF SaveAssessment
  <2>2. CASE desk.found.proposal /= "none"
    <3>1. Goes(w, new) /\ desk.at = "stock-save"
      BY <1>6, <2>2 DEF SaveAssessment, Moves, At
    <3>2. /\ DOMAIN new = DeskFields /\ new.at = "stock-propose"
          /\ new.source = desk.source /\ new.found = desk.found
      BY <1>0 DEF DeskOK, DeskFields
    <3> HIDE DEF new
    <3>3. DeskOK(new)
      BY <1>0, <2>2, <3>1, <3>2 DEF DeskOK
    <3> QED BY <3>1, <3>3, GoesStep
  <2> QED BY <2>1, <2>2
<1>7. CASE SaveProposal(w)
  BY <1>5, <1>7 DEF SaveProposal
<1>8. CASE ScheduleMargin(w)
  BY <1>2, <1>8 DEF ScheduleMargin
<1>9. CASE CompleteStock(w)
  BY <1>1, <1>2, <1>9 DEF CompleteStock
<1>10. CASE FailStock(w) \/ WorkerDies(w)
  BY <1>1, <1>10 DEF FailStock, WorkerDies
<1>11. CASE StockThrows(w)
  BY <1>1, <1>2, <1>11 DEF StockThrows
<1> QED BY <1>3, <1>4, <1>6, <1>7, <1>8, <1>9, <1>10, <1>11 DEF StockStep

LEMMA EarnedStep == MirrorInv /\ EarnedInv /\ [Next]_vars => EarnedInv'
<1> SUFFICES ASSUME MirrorInv, EarnedInv, [Next]_vars PROVE EarnedInv'
  OBVIOUS
\* The mirror moves on; the audits hold what they held.
<1>1. ASSUME Grows, ObservedInv', CostBacked', UNCHANGED <<desks, latest>> PROVE EarnedInv'
  <2>1. latest' /= NoRow => Truthful(latest)'
    BY <1>1, TruthLasts DEF EarnedInv
  <2>2. \A a \in Auditors : DeskOK(desks[a])'
    BY <1>1, DeskLasts DEF EarnedInv
  <2> QED BY <1>1, <2>1, <2>2 DEF EarnedInv
<1>2. ASSUME Unseen, UNCHANGED <<desks, latest>> PROVE EarnedInv'
  <2>1. Grows /\ ObservedInv' /\ CostBacked'
    BY <1>2, StillGrows DEF Unseen, EarnedInv, ObservedInv, CostBacked
  <2> QED BY <1>1, <1>2, <2>1
<1>3. ASSUME NEW s \in Sources, ChangeLink(s), UNCHANGED <<desks, latest>> PROVE EarnedInv'
  <2>1. PICK new \in Links : Relinked(s, new)
    BY <1>3, ChangeChanges
  <2>2. CostBacked' /\ UNCHANGED <<observations, missed>>
    BY <2>1, RelinkKeepsCost DEF Relinked
  <2>3. Grows /\ ObservedInv'
    BY <2>2, StillGrows DEF EarnedInv, ObservedInv
  <2> QED BY <1>1, <1>3, <2>2, <2>3
<1>4. ASSUME NEW s \in Sources, NEW at \in 1..now, NEW payloads \in SUBSET Payloads,
             Record(s, at, payloads), UNCHANGED <<desks, latest>>
      PROVE  EarnedInv'
  <2>1. PICK o \in Observations : Recorded(s, o)
    BY <1>4, RecordRecords
  <2> QED BY <1>1, <1>4, <2>1, RecordGrows
<1>5. ASSUME Tick, UNCHANGED <<desks, latest>> PROVE EarnedInv'
  BY <1>2, <1>5 DEF Tick, Unseen
<1>6. CASE Mirroring /\ MirrorNext
  <2>1. UNCHANGED <<desks, latest>>
    BY <1>6 DEF Mirroring, auditVars, marginVars
  <2> QED BY <1>3, <1>4, <1>5, <1>6, <2>1 DEF MirrorNext
<1>7. CASE Supplying
  <2>1. UNCHANGED <<desks, latest>>
    BY <1>7 DEF Supplying, marginVars
  <2>2. now \in 1..now /\ Watched \in Sources /\ Plain \in SUBSET Payloads
    BY CommerceAssumption DEF MirrorInv, MirrorTypeInv, Times
  <2> QED BY <1>3, <1>4, <1>5, <1>7, <2>1, <2>2 DEF Supplying
<1>8. CASE Selling \/ (Pricing /\ PricingNext) \/ UNCHANGED vars
  <2>1. Unseen /\ UNCHANGED <<desks, latest>>
    BY <1>8 DEF Selling, Pricing, vars, auditVars, marginVars, mirrorVars, Unseen
  <2> QED BY <1>2, <2>1
<1>9. CASE PolicyTime \/ LinkTime(Watched) \/ PolicyQuarter \/ LinkQuarter(Watched)
  <2>1. Unseen /\ UNCHANGED <<desks, latest>>
    BY <1>9 DEF PolicyTime, LinkTime, PolicyQuarter, LinkQuarter, Unmirrored, Unsupplied, Unseen
  <2> QED BY <1>2, <2>1
<1>10. ASSUME NEW w \in Workers, Working(w) PROVE EarnedInv'
  <2>1. Unseen
    BY <1>10 DEF Working, Unmirrored, Unsupplied, Unseen
  <2> QED BY <1>10, <2>1, EarnedMargins, EarnedStocks DEF Working
<1>11. ASSUME NEW c \in Clerks, Ingesting(c) PROVE EarnedInv'
  <2>1. Unseen
    BY <1>11 DEF Ingesting, Unsupplied, Unseen
  <2> QED BY <1>11, <2>1, EarnedMargins DEF Ingesting
<1>12. CASE Failing
  <2>1. Unseen /\ UNCHANGED latest
    BY <1>12 DEF Failing, Unmirrored, Unsupplied, Unseen
  <2> QED BY <1>12, <2>1, EarnedMargins, EarnedStocks DEF Failing
<1> QED BY <1>6, <1>7, <1>8, <1>9, <1>10, <1>11, <1>12 DEF Next

LEMMA EarnedInit == Init => EarnedInv
<1> SUFFICES ASSUME Init PROVE EarnedInv
  OBVIOUS
<1>1. latest = NoRow /\ \A a \in Auditors : desks[a] = AtMargins \/ desks[a] = Resting
  BY DEF Init, MarginInit, Auditors
<1>2. \A a \in Auditors : DeskOK(desks[a])
  BY <1>1, ClearedDeskOK
<1>3. CASE part /= "audits"
  <2>1. ObservedInv /\ CostBacked
    BY <1>3 DEF Init, MirrorInit, ObservedInv, CostBacked
  <2> QED BY <1>1, <1>2, <2>1 DEF EarnedInv
<1>4. CASE part = "audits"
  <2>1. PICK p \in Firsts : LinkedInit(Watched, p[1], p[2])
    BY <1>4 DEF Init
  <2> DEFINE s == Watched
             one == Reported(p[1], 1)
             two == Reported(p[2], 2)
             first == Mirrored(NoRow, one)
             again == Mirrored(first, two)
             fed == Fed(NoRow, s, first)
  <2>2. s \in Sources /\ MaxTime \in Nat /\ MaxTime >= 2
    BY CommerceAssumption, MirrorAssumption
  <2>3. /\ observations = [t \in Sources |-> IF t = s THEN {one, two} ELSE {}]
        /\ cost = Fed(fed, s, again)
    BY <2>1 DEF LinkedInit
  <2>4. one.ok /\ one.at = 1 /\ two.ok /\ two.at = 2
    BY DEF Reported
  <2> HIDE DEF one, two
  <2>5. ObservedInv
    BY <2>2, <2>3, <2>4 DEF ObservedInv, Times
  <2>6. /\ first.cost = one.cost /\ first.at = 1 /\ again.cost = two.cost /\ again.at = 2
    BY <2>4 DEF Mirrored
  <2> HIDE DEF first, again
  <2>7. fed = NoRow \/ fed = [source |-> s, amount |-> one.cost, at |-> 1]
    BY <2>6 DEF Fed, Cleared
  <2> HIDE DEF fed
  <2>8. \/ cost = NoRow \/ cost = [source |-> s, amount |-> one.cost, at |-> 1]
        \/ cost = [source |-> s, amount |-> two.cost, at |-> 2]
    BY <2>3, <2>6, <2>7 DEF Fed, Cleared
  <2>9. cost /= NoRow =>
          /\ cost.source = s
          /\ \/ cost.amount = one.cost /\ cost.at = 1
             \/ cost.amount = two.cost /\ cost.at = 2
    BY <2>8
  <2>10. one \in observations[s] /\ two \in observations[s]
    BY <2>2, <2>3
  <2>11. CostBacked
    BY <2>4, <2>9, <2>10 DEF CostBacked
  <2> QED BY <1>1, <1>2, <2>5, <2>11 DEF EarnedInv
<1> QED BY <1>3, <1>4

LEMMA EarnedHolds == Spec => [](MirrorInv /\ EarnedInv)
BY InvInit, InvStep, EarnedInit, EarnedStep, PTL DEF Spec

-----------------------------------------------------------------------------
(* The theorems.                                                           *)

\* Every variable of the mirror keeps its type; a link counts no more
\* confirmations than there were moments to observe.
THEOREM TypeCorrect == Spec => []TypeOK
<1>1. MirrorInv /\ OthersOK => TypeOK
  <2> SUFFICES ASSUME MirrorInv, OthersOK PROVE TypeOK
    OBVIOUS
  <2>1. ASSUME NEW s \in Sources PROVE links[s].confirmed \in 0..MaxTime
    <3>1. ProductInv(s) /\ links[s].confirmed \in Nat /\ now \in 1..MaxTime /\ MaxTime \in Nat
      BY MirrorAssumption DEF MirrorInv, MirrorTypeInv, Links, Times
    <3>2. products[s] /= NoRow => products[s].last \in Nat
      BY DEF MirrorInv, MirrorTypeInv, Products
    <3> QED BY <3>1, <3>2 DEF ProductInv
  <2>2. \A s \in Sources : links[s].next \in {Due, Later, Never}
    BY DEF MirrorInv, MirrorTypeInv, Links
  <2>3. policy.next \in {Due, Later}
    BY DEF MirrorInv, MirrorTypeInv, Policies
  <2> QED BY <2>1, <2>2, <2>3 DEF MirrorInv, MirrorTypeInv, OthersOK, TypeOK, MirrorTypeOK
<1> QED BY <1>1, InvHolds, PTL

\* The newest of observations at different times.
LEMMA TheNewest ==
    ASSUME NEW S, NEW o \in S, \A q \in S : q.at <= o.at,
           \A p \in S : p.at \in Nat, \A p, q \in S : p.at = q.at => p = q
    PROVE  Newest(S) = o
<1>1. \E p \in S : \A q \in S : q.at <= p.at
  OBVIOUS
<1>2. Newest(S) \in S /\ \A q \in S : q.at <= Newest(S).at
  BY <1>1 DEF Newest
<1> QED BY <1>2

\* SDD 004: in whatever order a source's observations arrive and however often, a
\* product is the newest success that was recorded, with the status of the newest
\* attempt.
THEOREM MirrorShowsNewest == Spec => []ProductMirrorsNewest
<1>1. MirrorInv => ProductMirrorsNewest
  <2> SUFFICES ASSUME MirrorInv, NEW s \in Sources, products[s] /= NoRow
               PROVE  LET known == Newest(Successes(observations[s]))
                          last == Newest(observations[s])
                      IN /\ products[s].stock = known.stock /\ products[s].cost = known.cost
                         /\ products[s].at = known.at
                         /\ products[s].last = last.at /\ products[s].ok = last.ok
    BY DEF ProductMirrorsNewest
  <2>1. /\ SeenInv(s) /\ ProductInv(s)
        /\ \A o \in observations[s] : o.at \in Nat
    BY DEF MirrorInv, MirrorTypeInv, Observations
  <2>2. PICK o \in observations[s] : o.at = products[s].last /\ o.ok = products[s].ok
    BY <2>1 DEF ProductInv
  <2>3. PICK k \in observations[s] : /\ k.ok /\ k.at = products[s].at
                                     /\ k.stock = products[s].stock /\ k.cost = products[s].cost
    BY <2>1 DEF ProductInv
  <2>4. Newest(observations[s]) = o
    <3>1. /\ \A q \in observations[s] : q.at <= o.at
          /\ \A p, q \in observations[s] : p.at = q.at => p = q
      BY <2>1, <2>2 DEF SeenInv, ProductInv
    <3> QED BY <2>1, <3>1, TheNewest
  <2>5. Newest(Successes(observations[s])) = k
    <3>1. /\ k \in Successes(observations[s])
          /\ \A q \in Successes(observations[s]) : q.at <= k.at
          /\ \A p \in Successes(observations[s]) : p.at \in Nat
          /\ \A p, q \in Successes(observations[s]) : p.at = q.at => p = q
      BY <2>1, <2>3 DEF SeenInv, ProductInv, Successes
    <3> QED BY <3>1, TheNewest
  <2> QED BY <2>2, <2>3, <2>4, <2>5
<1> QED BY <1>1, InvHolds, PTL

\* The product cost is the one its present authority reports, through every change of
\* links and every late or failed observation.
THEOREM CostFollowsAuthority == Spec => []CostIsTheAuthoritys
<1>1. MirrorInv => CostIsTheAuthoritys
  <2> SUFFICES ASSUME MirrorInv PROVE CostIsTheAuthoritys
    OBVIOUS
  <2>1. CostInv /\ AuthorityInv
    BY DEF MirrorInv
  <2>2. ASSUME NEW s \in Sources, links[s].costly, products[s].ok, cost /= NoRow
        PROVE  cost.at <= products[s].at
    <3>1. cost.source \in Sources
      BY <2>2 DEF MirrorInv, MirrorTypeInv, CostRows
    <3> QED BY <2>1, <2>2, <3>1 DEF CostInv, AuthorityInv
  <2> QED BY <2>1, <2>2 DEF CostInv, CostIsTheAuthoritys
<1> QED BY <1>1, InvHolds, PTL

\* The recovery debounce counts only what a source confirmed without a break.
THEOREM ConfirmationsAreEarned == Spec => []ConfirmationsAreConsecutive
<1>1. MirrorInv => ConfirmationsAreConsecutive
  BY DEF MirrorInv, SeenInv, ConfirmationsAreConsecutive
<1> QED BY <1>1, InvHolds, PTL

\* The price that is proposed is the least that reaches the target, for every price,
\* quantity, cost and rate.
THEOREM PricesReachTheTarget == Spec => []ProposalsReachTheTarget
<1>1. PricingInv => ProposalsReachTheTarget
  <2> SUFFICES ASSUME PricingInv, decision /= NotAsked PROVE Proper(enquiry, decision)
    BY DEF ProposalsReachTheTarget, Proper
  <2> QED BY ProperDecision DEF PricingInv
<1> QED BY <1>1, PricingHolds, PTL

\* SDD 003 and 004: a reactivation is proposed only for a source that is online, after
\* as many confirmations without a break as the policy asks for, at a cost at which the
\* listing earns its margin; a pause only on a zero that was verified.
THEOREM StockProposalsAreEarned == Spec => []ProposalsAreEarned
<1>1. MirrorInv /\ EarnedInv => ProposalsAreEarned
  <2> SUFFICES ASSUME MirrorInv, EarnedInv, NEW w \in Workers, At(w, "stock-propose")
               PROVE  LET s == desks[w].source
                          p == desks[w].found
                          seen == CHOOSE o \in observations[s] : o.ok /\ o.at = p.at
                      IN /\ s \in OnlineSources
                         /\ p.proposal = "listing.pause" => seen.stock = 0
                         /\ p.proposal = "listing.reactivate" =>
                              /\ Confirms(seen) /\ EarnsAt(seen.cost)
                              /\ s \in missed \/ Cardinality(Since(s, p.at)) >= RecoverySyncs
    BY DEF ProposalsAreEarned, Since
  <2> DEFINE s == desks[w].source
             p == desks[w].found
             seen == CHOOSE o \in observations[s] : o.ok /\ o.at = p.at
  <2>1. s \in Sources /\ p.proposal /= "none" /\ Deserved(s, p)
    BY DEF EarnedInv, DeskOK, At, Auditors
  <2>2. SeenInv(s)
    BY <2>1 DEF MirrorInv
  <2> HIDE DEF s, p
  <2>3. PICK o \in observations[s] :
           /\ o.ok /\ o.at = p.at
           /\ p.proposal = "listing.pause" => o.stock = 0
           /\ p.proposal = "listing.reactivate" => RecoveredBy(s, o)
    BY <2>1 DEF Deserved
  <2>4. seen = o
    <3>1. seen \in observations[s] /\ seen.at = p.at
      BY <2>3
    <3> HIDE DEF seen
    <3> QED BY <2>2, <2>3, <3>1 DEF SeenInv
  <2> HIDE DEF seen
  <2>5. s \in OnlineSources
    BY <2>1 DEF Deserved
  <2> QED BY <2>3, <2>4, <2>5 DEF RecoveredBy, s, p, seen
<1> QED BY <1>1, EarnedHolds, PTL
=============================================================================
