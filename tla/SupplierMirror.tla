--------------------------- MODULE SupplierMirror ---------------------------
(***************************************************************************)
(* The supplier mirror: what each source was last known to hold of one     *)
(* product, the links of one listing to its sources, the product cost its  *)
(* economics rest on, and when its audits are due.  An observation is one  *)
(* transaction; the triggers of migrations 020 to 026 run inside it, and   *)
(* inside every change of a link by an operator.                           *)
(*                                                                         *)
(* Every source has one SKU and stays active.  An evidence is its source   *)
(* and its time.  An observation that is a duplicate, or too late, leaves  *)
(* the database as it was.  A link not inserted yet is an inactive one.    *)
(***************************************************************************)
EXTENDS Incidents, Integers, FiniteSets, FiniteSetsExt, TLC

CONSTANTS
    Sources,       \* the supplier sources of the account
    Payloads,      \* what an observation may report: stock and unit cost
    Threshold,     \* recovery_stock_threshold of the links
    MaxAge,        \* maximum_evidence_age_ms of each source's link
    MaxTime,       \* bound on the clock
    MaxReports,    \* bound on the observations of all sources
    MaxChanges,    \* bound on what operators and the marketplace do
    NoRow          \* no row, an absent column

ASSUME MirrorAssumption ==
    /\ Payloads \subseteq [stock : Nat, cost : Nat \union {NoRow}]
    /\ Threshold \in Nat /\ MaxAge \in [Sources -> Nat] /\ MaxTime \in Nat
    /\ MaxReports \in Nat /\ MaxChanges \in Nat
    /\ NoRow \notin Nat

Observations == [at : Nat, ok : BOOLEAN, stock : Nat, cost : Nat \union {NoRow}]
Products ==
    [stock : Nat, cost : Nat \union {NoRow}, at : Nat, last : Nat, ok : BOOLEAN,
     previous : Nat \union {NoRow}]
CostRows == [source : Sources, amount : Nat, at : Nat]

ASSUME NoRowIsNone == NoRow \notin Products /\ NoRow \notin CostRows

VARIABLES
    now,           \* the clock
    observations,  \* supplier_product_observations of each source
    products,      \* supplier_products of each source
    links,         \* supplier_listing_links of the listing
    missed,        \* history: links inactive, with a count, when an observation came
    cost,          \* economic_cost_observations of the listing: product-cost
    policy,        \* economic_listing_policies of the listing: next_audit_at, lease
    changes        \* what operators and the marketplace did so far

mirrorVars == <<now, observations, products, links, missed, cost, policy, changes>>

\* next_audit_at has come, will come, or is infinity; LEAST keeps the sooner.
Due == 0
Later == 1
Never == 2
Sooner(a, b) == Min({a, b})

Times == 1..MaxTime
Unleased == [owner |-> NoRow, over |-> FALSE]
Parked ==
    [active |-> FALSE, costly |-> FALSE, stocked |-> FALSE, confirmed |-> 0, next |-> Never,
     lease |-> Unleased]

MirrorInit ==
    /\ now = 1 /\ changes = 0
    /\ observations = [s \in Sources |-> {}]
    /\ products = [s \in Sources |-> NoRow]
    /\ links = [s \in Sources |-> Parked]
    /\ cost = NoRow
    /\ policy = [next |-> Later, lease |-> Unleased]

Changed == changes < MaxChanges /\ changes' = changes + 1
Woken(row) == [row EXCEPT !.next = Sooner(@, Due)]

-----------------------------------------------------------------------------
\* clear_supplier_product_cost_for_link: the row goes if the source's evidence made it.
\* FAULTY variant of Cleared: the cost of a source that lost its authority stays.
ClearedNever(row, s) == row
Cleared(row, s) == IF row /= NoRow /\ row.source = s THEN NoRow ELSE row

Supersedes(row, s, product) ==
    \/ row = NoRow
    \/ /\ row.at <= product.at
       /\ row.amount /= product.cost \/ row.at + MaxAge[s] < product.at

\* upsert_supplier_product_cost_for_links, for the link that has the authority.
Fed(row, s, product) ==
    CASE product.cost = NoRow -> Cleared(row, s)
      [] product.cost /= NoRow /\ Supersedes(row, s, product) ->
           [source |-> s, amount |-> product.cost, at |-> product.at]
      [] OTHER -> row

\* The feed wakes the margin audit if it changed the row.
SetCost(row) ==
    /\ cost' = row
    /\ policy' = IF row = cost THEN policy ELSE Woken(policy)

-----------------------------------------------------------------------------
\* assign_supplier_listing_authority, before every INSERT or UPDATE of a link.
Assigned(s, new) ==
    LET old == links[s]
        alone == ~old.active /\ \A t \in Sources \ {s} : ~links[t].active
        link == [new EXCEPT !.costly = new.active /\ (@ \/ alone),
                            !.stocked = new.active /\ (@ \/ alone)]
    IN IF ~link.stocked THEN [link EXCEPT !.next = Never, !.lease = Unleased]
       ELSE IF ~old.stocked THEN Woken(link) ELSE link

\* enforce_supplier_product_sync_invariants, and the check in the repository.
\* FAULTY variant of InOrder: only the last success is compared, as the repository does.
InOrderOfSuccesses(old, o) == IF old = NoRow THEN o.ok ELSE o.at > old.at
InOrder(old, o) == IF old = NoRow THEN o.ok ELSE o.at > old.last

Mirrored(old, o) ==
    IF o.ok THEN [stock |-> o.stock, cost |-> o.cost, at |-> o.at, last |-> o.at, ok |-> TRUE,
                  previous |-> IF old = NoRow THEN o.cost ELSE old.cost]
    ELSE [old EXCEPT !.ok = FALSE, !.last = o.at]

Confirms(o) == o.ok /\ o.stock > Threshold

\* FAULTY variant of Counted: an observation that does not confirm leaves the count.
CountedOn(n, o) == IF Confirms(o) THEN n + 1 ELSE n
Counted(n, o) == IF Confirms(o) THEN n + 1 ELSE 0

\* The count of an active link, the triggers of the product, and those of the link.
Recounted(s, o) ==
    IF links[s].active
    THEN Assigned(s, Woken([links[s] EXCEPT !.confirmed = Counted(@, o)]))
    ELSE links[s]

Reports == MapThenSumSet(LAMBDA s : Cardinality(observations[s]), Sources)

\* What a failed observation holds besides its status is never looked at.
Failed(at) == [at |-> at, ok |-> FALSE, stock |-> 0, cost |-> NoRow]
Reported(payload, at) ==
    [at |-> at, ok |-> TRUE, stock |-> payload.stock, cost |-> payload.cost]

\* A source has reported twice, before and after the listing was linked to it.
LinkedInit(s, earlier, payload) ==
    LET first == Mirrored(NoRow, Reported(earlier, 1))
        again == Mirrored(first, Reported(payload, 2))
        linked == [Parked EXCEPT !.active = TRUE, !.costly = TRUE, !.stocked = TRUE,
                      !.confirmed = Counted(0, Reported(payload, 2)), !.next = Due]
    IN /\ now = 2 /\ changes = 1
       /\ observations = [t \in Sources |->
             IF t = s THEN {Reported(earlier, 1), Reported(payload, 2)} ELSE {}]
       /\ products = [t \in Sources |-> IF t = s THEN again ELSE NoRow]
       /\ links = [t \in Sources |-> IF t = s THEN linked ELSE Parked]
       /\ cost = Fed(Fed(NoRow, s, first), s, again)
       /\ policy = [next |-> Due, lease |-> Unleased]

Record(s, at, payloads) ==
    /\ Reports < MaxReports
    /\ \E o \in {Failed(at)} \union {Reported(p, at) : p \in payloads} :
         /\ o \notin observations[s] /\ InOrder(products[s], o)
         /\ observations' = [observations EXCEPT ![s] = @ \union {o}]
         /\ products' = [products EXCEPT ![s] = Mirrored(@, o)]
         /\ links' = [links EXCEPT ![s] = Recounted(s, o)]
         /\ missed' = IF links[s].active \/ links[s].confirmed = 0 THEN missed
                       ELSE missed \union {s}
         /\ SetCost(IF o.ok /\ links[s].costly THEN Fed(cost, s, products'[s]) ELSE cost)
    /\ UNCHANGED <<now, changes, incidents>>

\* feed_supplier_product_cost_after_link_change.
FedByLink(s, old, new) ==
    IF old.costly /\ ~new.costly THEN Cleared(cost, s)
    ELSE IF new.costly /\ products[s].ok THEN Fed(cost, s, products[s]) ELSE cost

\* At most one active link has each authority; the indexes refuse a second.
ChangeLink(s) ==
    /\ products[s] /= NoRow /\ Changed
    /\ \E active, costly, stocked \in BOOLEAN :
         LET new == Assigned(s, [links[s] EXCEPT !.active = active, !.costly = costly,
                                                 !.stocked = stocked])
         IN /\ active \/ (~costly /\ ~stocked)
            /\ <<new.active, new.costly, new.stocked>>
                 /= <<links[s].active, links[s].costly, links[s].stocked>>
            /\ \A t \in Sources \ {s} :
                 ~(new.costly /\ links[t].costly) /\ ~(new.stocked /\ links[t].stocked)
            /\ links' = [links EXCEPT ![s] = new]
            /\ SetCost(FedByLink(s, links[s], new))
    /\ UNCHANGED <<now, observations, products, missed, incidents>>

Tick ==
    /\ now < MaxTime /\ now' = now + 1
    /\ UNCHANGED <<observations, products, links, missed, cost, policy, changes, incidents>>

MirrorNext == Tick \/ \E s \in Sources : ChangeLink(s) \/ \E at \in 1..now : Record(s, at, Payloads)

-----------------------------------------------------------------------------
MirrorTypeOK ==
    /\ now \in Times /\ changes \in 0..MaxChanges /\ missed \subseteq Sources
    /\ policy.next \in {Due, Later}
    /\ \A s \in Sources : links[s].confirmed \in 0..MaxTime /\ links[s].next \in {Due, Later, Never}

Newest(S) == CHOOSE o \in S : \A q \in S : q.at <= o.at
Successes(S) == {o \in S : o.ok}

\* SDD 004: whatever is delivered twice or late, the product is its newest
\* successful observation, and its sync status is that of the newest one; a
\* failure is kept but erases nothing that was verified.
ProductMirrorsNewest ==
    \A s \in Sources : products[s] /= NoRow =>
        LET known == Newest(Successes(observations[s]))
            last == Newest(observations[s])
        IN /\ products[s].stock = known.stock /\ products[s].cost = known.cost
           /\ products[s].at = known.at
           /\ products[s].last = last.at /\ products[s].ok = last.ok

\* A product cost comes from the source that has the cost authority now, and
\* from no other it once had; while that source's sync stands, the cost is
\* the one it reports and its evidence is no older than the policy allows.
CostIsTheAuthoritys ==
    /\ cost /= NoRow => links[cost.source].costly
    /\ \A s \in Sources : links[s].costly /\ products[s].ok =>
         IF products[s].cost = NoRow THEN cost = NoRow
         ELSE /\ cost /= NoRow /\ cost.amount = products[s].cost
              /\ cost.at <= products[s].at /\ products[s].at <= cost.at + MaxAge[s]

\* The newest observations of a source, as far back as all of them confirm.
Run(s) ==
    {o \in observations[s] : \A q \in observations[s] : q.at >= o.at => Confirms(q)}

\* SDD 004, recovery debounce: a link counts no more confirmations than its
\* source has reported without a break, unless it was inactive meanwhile
\* (then the count it had is kept, and a break it did not see with it).
ConfirmationsAreConsecutive ==
    \A s \in Sources \ missed : links[s].confirmed <= Cardinality(Run(s))
=============================================================================
