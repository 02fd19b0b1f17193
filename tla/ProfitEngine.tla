---------------------------- MODULE ProfitEngine ----------------------------
(***************************************************************************)
(* The profit engine: what a listing earns at its price, and the price     *)
(* that would reach a target margin.  Money is in whole pesos and rates    *)
(* are in basis points; Math.round, Math.ceil and Math.trunc are modelled  *)
(* by what they do, the safe-integer checks are left out.                  *)
(*                                                                         *)
(* An enquiry is one call of prepareRepricing on what the reader may find: *)
(* the snapshot is calculated and a decision is drawn from it.             *)
(***************************************************************************)
EXTENDS Integers

CONSTANTS
    Null,          \* an absent column
    Enquiries,     \* the inputs and policies of the calls
    NotAsked,      \* no enquiry, no decision
    NotANumber     \* NaN: what dividing zero by zero gives

VARIABLES
    enquiry,       \* the input and the policy of the call
    decision       \* what it returned

pricingVars == <<enquiry, decision>>

BasisPoints == 10000
CostKinds ==
    {"product-cost", "fulfillment-cost", "packaging-cost", "ads-cost", "returns-cost",
     "discount-cost", "import-cost", "other-cost"}
RequiredCostKinds == {"product-cost", "fulfillment-cost"}

InputFields == {"price", "quantity", "rate", "costs", "minimum", "asOf", "maxAge"}

\* What calculateProfitability and prepareRepricingProposal do not throw at.
ASSUME PricingAssumption ==
    \A e \in Enquiries :
        /\ DOMAIN e.input = InputFields /\ DOMAIN e.input.costs \subseteq CostKinds
        /\ e.input.price \in Nat \ {0} /\ e.input.quantity \in Nat \ {0}
        /\ e.input.rate /= Null => e.input.rate.bps \in 0..BasisPoints
        /\ \A k \in DOMAIN e.input.costs : e.input.costs[k].amount \in Nat
        /\ e.policy.target \in 0..BasisPoints /\ e.policy.increase \in 0..BasisPoints
        /\ e.policy.ceiling /= Null => e.policy.ceiling \in Int

\* Math.round of a ratio that is not negative, Math.ceil, and Math.trunc.
Rounded(n, d) == (2 * n + d) \div (2 * d)
Ceil(n, d) == -((-n) \div d)
Trunc(n, d) == IF n >= 0 THEN n \div d ELSE -((-n) \div d)

Stale(evidence, asOf, maxAge) == evidence.at > asOf \/ asOf - evidence.at > maxAge

Evidence(input) ==
    {input.costs[k].evidence : k \in DOMAIN input.costs}
        \union (IF input.rate = Null THEN {} ELSE {input.rate.evidence})

MissingInputs(input) ==
    (RequiredCostKinds \ DOMAIN input.costs)
        \union (IF input.rate = Null THEN {"marketplace-fee-rate"} ELSE {})

StaleEvidence(input) ==
    {e.id : e \in {e \in Evidence(input) : Stale(e, input.asOf, input.maxAge)}}

Cost(input, kind) ==
    IF kind \in DOMAIN input.costs THEN input.costs[kind].amount * input.quantity ELSE 0

FixedCosts(input) ==
    Cost(input, "product-cost") + Cost(input, "fulfillment-cost") + Cost(input, "packaging-cost")
        + Cost(input, "ads-cost") + Cost(input, "returns-cost") + Cost(input, "discount-cost")
        + Cost(input, "import-cost") + Cost(input, "other-cost")

Earnings(input) ==
    LET gross == input.price * input.quantity
    IN gross - FixedCosts(input) - Rounded(gross * input.rate.bps, BasisPoints)

Margin(input) == Trunc(Earnings(input) * BasisPoints, input.price * input.quantity)

EvidenceRefs(input) == {e.id : e \in Evidence(input)}

CalculateProfitability(input) ==
    IF MissingInputs(input) /= {} \/ StaleEvidence(input) /= {}
    THEN [status |-> "incomplete", price |-> input.price, quantity |-> input.quantity,
          refs |-> EvidenceRefs(input),
          missing |-> MissingInputs(input), stale |-> StaleEvidence(input)]
    ELSE [status |-> IF Earnings(input) < 0 THEN "loss"
                     ELSE IF Margin(input) < input.minimum THEN "below-floor"
                     ELSE "profitable",
          price |-> input.price, quantity |-> input.quantity, refs |-> EvidenceRefs(input),
          rate |-> input.rate.bps, fixed |-> FixedCosts(input), margin |-> Margin(input)]

-----------------------------------------------------------------------------
UnitCosts(snapshot) == Ceil(snapshot.fixed, snapshot.quantity)

\* FAULTY variant of RequiredPrice: the marketplace's fee on the new price is forgotten.
RequiredPriceBeforeFee(snapshot, policy) ==
    Ceil(UnitCosts(snapshot) * BasisPoints, BasisPoints - policy.target)
RequiredPrice(snapshot, policy) ==
    Ceil(UnitCosts(snapshot) * BasisPoints, BasisPoints - snapshot.rate - policy.target)

MaximumAllowed(snapshot, policy) ==
    (snapshot.price * (BasisPoints + policy.increase)) \div BasisPoints

\* Only without any cost is the price 0, and then there is no profit either.
ProjectedMargin(snapshot, price) ==
    IF price = 0 THEN NotANumber
    ELSE Trunc((price - UnitCosts(snapshot) - Rounded(price * snapshot.rate, BasisPoints))
                   * BasisPoints, price)

Blocked(reason) == [status |-> "blocked", reason |-> reason]

Proposed(snapshot, policy) ==
    LET price == RequiredPrice(snapshot, policy)
    IN IF price > MaximumAllowed(snapshot, policy) THEN Blocked("maximum-increase-exceeded")
       ELSE IF policy.ceiling /= Null /\ price > policy.ceiling
       THEN Blocked("competitive-ceiling-exceeded")
       ELSE [status |-> "proposed", price |-> price, projected |-> ProjectedMargin(snapshot, price)]

PrepareRepricing(snapshot, policy) ==
    IF snapshot.status = "incomplete" THEN Blocked("incomplete-economics")
    ELSE IF snapshot.rate + policy.target >= BasisPoints THEN Blocked("invalid-policy")
    ELSE IF snapshot.margin >= policy.target THEN [status |-> "no-change"]
    ELSE Proposed(snapshot, policy)

-----------------------------------------------------------------------------
PricingInit == enquiry \in Enquiries /\ decision = NotAsked

PrepareRepricingFor ==
    /\ decision = NotAsked /\ enquiry /= NotAsked
    /\ decision' = PrepareRepricing(CalculateProfitability(enquiry.input), enquiry.policy)
    /\ UNCHANGED enquiry

PricingNext == PrepareRepricingFor

\* At a price the exact margin, the fee not rounded, is the target's or better.
Reaches(price, input, target) ==
    price * (BasisPoints - input.rate.bps - target)
        >= Ceil(FixedCosts(input), input.quantity) * BasisPoints

\* docs/specs/profit-engine-repricing.md: a proposal names the least price
\* that reaches the target, within what the policy allows and on complete
\* fresh evidence; the margin it promises is the one an audit at that price
\* will find, short of the target by no more than the rounding of one fee.
\* What is refused as too dear really cannot reach the target.
ProposalsReachTheTarget ==
    /\ decision /= NotAsked /\ decision.status = "proposed" =>
         LET input == enquiry.input
             target == enquiry.policy.target
             price == decision.price
             later == [input EXCEPT !.price = price, !.quantity = 1]
         IN /\ MissingInputs(input) = {} /\ StaleEvidence(input) = {}
            /\ Reaches(price, input, target) /\ ~Reaches(price - 1, input, target)
            /\ price * BasisPoints <= input.price * (BasisPoints + enquiry.policy.increase)
            /\ enquiry.policy.ceiling = Null \/ price <= enquiry.policy.ceiling
            /\ price >= 0
            /\ price > 0 =>
                 /\ decision.projected = CalculateProfitability(later).margin
                 /\ 2 * price * (decision.projected + 1) > 2 * price * target - BasisPoints
    /\ decision /= NotAsked /\ decision = Blocked("maximum-increase-exceeded") =>
         LET input == enquiry.input
             most == (input.price * (BasisPoints + enquiry.policy.increase)) \div BasisPoints
         IN ~Reaches(most, input, enquiry.policy.target)

\* docs/specs/profit-engine-repricing.md:94, "cero división o NaN": a margin
\* that is promised is a number.  (The code breaks it.)
NothingIsNaN ==
    decision /= NotAsked /\ decision.status = "proposed" => decision.projected /= NotANumber
=============================================================================
