------------------------------ MODULE Commerce ------------------------------
(***************************************************************************)
(* The economics of one linked listing: the supplier mirror, the margin    *)
(* audit and the stock audit, which wake each other through the database.  *)
(* A behaviour follows the mirror alone, with all its sources and the      *)
(* changes of their links, or one linked source with the audits, or one    *)
(* call of the pricing.                                                    *)
(***************************************************************************)
EXTENDS StockAudit

CONSTANTS
    Watched,       \* the source of the behaviours that run the audits
    Plain,         \* what it may report in them, of Payloads
    Firsts         \* the two payloads it has reported when they begin

ASSUME CommerceAssumption ==
    /\ Watched \in Sources /\ Plain \subseteq Payloads /\ Firsts \subseteq Payloads \X Payloads
    /\ MaxTime >= 2 /\ MaxChanges >= 1

VARIABLE part      \* what the behaviour follows

auditVars == <<marginVars, stockVars>>
vars == <<part, incidents, mirrorVars, auditVars, pricingVars>>

TypeOK ==
    /\ part \in {"mirror", "audits", "pricing"}
    /\ incidents \in 0..MaxIncidents
    /\ MirrorTypeOK

Init ==
    /\ incidents = 0 /\ missed = {}
    /\ MarginInit
    /\ \/ part = "pricing" /\ PricingInit
       \/ part \in {"mirror", "audits"} /\ enquiry = NotAsked /\ decision = NotAsked
    /\ IF part = "audits" THEN StockInit /\ \E p \in Firsts : LinkedInit(Watched, p[1], p[2])
       ELSE MirrorInit /\ listing = "active" /\ assessed = {}

Mirroring == part = "mirror" /\ UNCHANGED <<part, auditVars, pricingVars>>
Auditing == part = "audits" /\ UNCHANGED <<part, pricingVars>>
Pricing == part = "pricing" /\ UNCHANGED <<part, incidents, mirrorVars, auditVars>>

Unsupplied == UNCHANGED <<now, observations, products, missed, cost>>
Unmirrored == Unsupplied /\ UNCHANGED changes
Unaudited == UNCHANGED assessed

\* The supplier is scraped, operators change its link, and the clock goes on.
Supplying ==
    /\ Auditing
    /\ \/ Tick \/ Record(Watched, now, Plain) \/ ChangeLink(Watched)
    /\ assessed' = {s \in assessed : products'[s] = products[s]}
    /\ UNCHANGED <<marginVars, listing>>

Selling ==
    /\ Auditing /\ ListingChanges
    /\ UNCHANGED <<incidents, now, observations, products, links, missed, cost, policy, marginVars>>

Working(w) ==
    /\ Auditing /\ Unmirrored
    /\ UNCHANGED <<listing, incidents>>
    /\ \/ MarginStep(w) /\ Unaudited
       \/ StockStep(w) /\ UNCHANGED <<latest, incomplete>>

Ingesting(c) ==
    /\ Auditing /\ Unsupplied
    /\ UNCHANGED <<listing, incidents>>
    /\ ClerkStep(c) /\ Unaudited

Failing ==
    /\ Auditing /\ Unmirrored
    /\ UNCHANGED <<listing, latest, incomplete>>
    /\ \/ \E a \in Auditors : MarginThrows(a) /\ UNCHANGED links /\ Unaudited
       \/ \E w \in Workers : StockThrows(w) \/ WorkerDies(w)

PolicyTime ==
    /\ Auditing /\ Unmirrored
    /\ UNCHANGED <<links, desks, latest, incomplete, stockVars>>
    /\ PolicyLeaseEnds

LinkTime(s) ==
    /\ Auditing /\ Unmirrored
    /\ UNCHANGED <<policy, desks, latest, incomplete, stockVars>>
    /\ LinkLeaseEnds(s)

PolicyQuarter ==
    /\ Auditing /\ Unmirrored
    /\ UNCHANGED <<links, desks, latest, incomplete, stockVars, incidents>>
    /\ PolicyComesDue

LinkQuarter(s) ==
    /\ Auditing /\ Unmirrored
    /\ UNCHANGED <<policy, desks, latest, incomplete, stockVars, incidents>>
    /\ LinkComesDue(s)

Next ==
    \/ Mirroring /\ MirrorNext
    \/ Supplying \/ Selling
    \/ \E w \in Workers : Working(w)
    \/ \E c \in Clerks : Ingesting(c)
    \/ Failing
    \/ PolicyTime \/ LinkTime(Watched) \/ PolicyQuarter \/ LinkQuarter(Watched)
    \/ Pricing /\ PricingNext

Spec == Init /\ [][Next]_vars

\* The workers go on, leases run out and the next audits come due.
Fairness ==
    /\ \A w \in Workers : WF_vars(Working(w))
    /\ WF_vars(PolicyTime) /\ WF_vars(LinkTime(Watched))
    /\ WF_vars(PolicyQuarter) /\ WF_vars(LinkQuarter(Watched))

FairSpec == Spec /\ Fairness

-----------------------------------------------------------------------------
\* SDD 003 and 004: a listing is put up for reactivation only when the last
\* RecoverySyncs observations of an online source all confirmed its stock (the
\* link's count, if it was never inactive meanwhile), at a cost at which the
\* listing earns its margin; it is put up for a pause only on a verified zero.
EarnsAt(amount) ==
    Terms.price - amount - Terms.fulfilment - Rounded(Terms.price * Terms.fee, BasisPoints)
        >= Rounded(Terms.price * Terms.minimum, BasisPoints)

ProposalsAreEarned ==
    \A w \in {w \in Workers : At(w, "stock-propose")} :
      LET s == desks[w].source
          p == desks[w].found
          seen == CHOOSE o \in observations[s] : o.ok /\ o.at = p.at
          since == {o \in observations[s] : o.at <= p.at
                      /\ \A q \in observations[s] : o.at <= q.at /\ q.at <= p.at => Confirms(q)}
      IN /\ s \in OnlineSources
         /\ p.proposal = "listing.pause" => seen.stock = 0
         /\ p.proposal = "listing.reactivate" =>
              /\ Confirms(seen) /\ EarnsAt(seen.cost)
              /\ s \in missed \/ Cardinality(since) >= RecoverySyncs

\* What a source reported last is assessed in the end, while its link has the
\* stock authority and the listing is open, whatever fails or dies meanwhile:
\* except a cost after a cost of 0, at which every evaluation throws until the
\* source reports once more.
Unassessed(s) ==
    /\ part = "audits" /\ links[s].stocked /\ listing /= "closed" /\ s \notin assessed
    /\ ~CostChangeThrows(products[s])

EveryReportIsAssessed == Unassessed(Watched) ~> ~Unassessed(Watched)

\* The latest snapshot comes to tell what the listing earns now, unless it
\* should tell that the economics are incomplete in a way already told once.
Untold ==
    LET present == CalculateProfitability(EconomicInput(cost))
    IN /\ part = "audits" /\ present \notin incomplete
       /\ \/ latest = NoRow
          \/ latest /= NoRow /\ (latest.refs /= present.refs \/ latest.status /= present.status)

EconomicsAreTold == Untold ~> ~Untold

\* The audits wake each other, but they come to rest until the next one is
\* due, except while the stock audit goes on asking for the margin audit.
Asking ==
    /\ part = "audits" /\ links[Watched].stocked /\ Evaluates(Watched)
    /\ EvaluateSupplierStock(Watched).reaudit

AuditsComeToRest ==
    part = "audits" => []<>Asking \/ []<><<PolicyQuarter \/ LinkQuarter(Watched)>>_vars
=============================================================================
