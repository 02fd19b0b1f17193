----------------------------- MODULE CommerceMC -----------------------------
(***************************************************************************)
(* The instance TLC checks: a listing that earns its margin at the lower   *)
(* of two positive costs, and the calls of the pricing.                             *)
(***************************************************************************)
EXTENDS Commerce, TLC

InstancePayloads ==
    {[stock |-> 0, cost |-> 40], [stock |-> 3, cost |-> 40], [stock |-> 3, cost |-> 70],
     [stock |-> 3, cost |-> 0], [stock |-> 3, cost |-> NoRow]}

PlainPayloads == {p \in InstancePayloads : p.cost \in {40, 70}}

\* The source has repeated itself, or has begun to ask for what was free.
FirstPayloads ==
    {p \in InstancePayloads \X PlainPayloads :
       /\ p[2].cost = 40
       /\ p[1] = p[2] \/ (p[1].cost = 0 /\ p[2].stock = 3)}

InstanceAges == [s \in Sources |-> IF s = Watched THEN 0 ELSE 1]

InstanceTerms == [price |-> 100, fee |-> 1000, fulfilment |-> 20, minimum |-> 1000]

Told(id, at) == [id |-> <<id, 0>>, at |-> at]

KnownCosts(product, fulfilment, at) ==
    ("product-cost" :> [amount |-> product, evidence |-> Told("product", at)]) @@
    (IF fulfilment = Null THEN <<>>
     ELSE "fulfillment-cost" :> [amount |-> fulfilment, evidence |-> Told("fulfillment", 1)])

Inputs ==
    {[price |-> p, quantity |-> q, rate |-> r, costs |-> KnownCosts(c, f, at),
      minimum |-> 1000, asOf |-> 2, maxAge |-> 1] :
       p \in {1, 100, 101}, q \in {1, 3}, c \in {0, 1, 57, 90}, f \in {Null, 0, 3, 40}, at \in {0, 1},
       r \in {Null} \union {[bps |-> b, evidence |-> Told("rate", 2)] : b \in {0, 1333, 5001}}}

InstanceEnquiries ==
    [input: Inputs,
     policy: [target: {1000, 2155, 5000}, increase: {0, 10000}, ceiling: {Null, 120}]]
=============================================================================
