----------------------------- MODULE StockAudit -----------------------------
(***************************************************************************)
(* The stock audit of one listing, which a worker runs after the margin    *)
(* audit: it leases the link that is due, reads source, product, listing,  *)
(* cost and latest snapshot in one query, and evaluates them; then it      *)
(* saves the assessment, the proposal it may hold, and the wake-up of the  *)
(* margin audit it may ask for, each in a transaction of its own.          *)
(*                                                                         *)
(* Only the link with the stock authority is ever due, so that a batch has *)
(* one link.  Assessments and proposals are written and never read:        *)
(* nothing in the code approves a proposal.  The listing's status follows  *)
(* the marketplace, its price stays.                                       *)
(***************************************************************************)
EXTENDS MarginAudit

CONSTANTS
    OnlineSources, \* the sources whose type is `online`
    RecoverySyncs, \* recovery_consecutive_syncs of the links
    CostAlert      \* cost_change_alert_bps of the links

ASSUME StockAssumption == OnlineSources \subseteq Sources /\ RecoverySyncs \in Nat \ {0}

VARIABLES
    listing,       \* status of the marketplace's listing
    assessed       \* history: sources whose present report has been assessed

stockVars == <<listing, assessed>>

StockInit == listing \in {"active", "paused"} /\ assessed = {}

ListingChanges ==
    /\ Changed
    /\ \E status \in {"active", "paused", "closed"} \ {listing} : listing' = status
    /\ UNCHANGED assessed

-----------------------------------------------------------------------------
\* The snapshot counts only if it rests on the product's present cost and its evidence.
ProfitKnown(s) ==
    /\ latest /= NoRow /\ cost /= NoRow
    /\ products[s].cost = cost.amount
    /\ <<cost.source, cost.at>> \in latest.refs

Profitability(s) == IF ProfitKnown(s) THEN latest.status ELSE "unknown"

\* calculateCostChangeBps asserts that the previous cost is positive, although a cost may be 0.
CostChangeThrows(product) == product.previous = 0 /\ product.cost /= NoRow

\* Asked only where it does not throw.
CostChange(product) ==
    IF product.previous = NoRow \/ product.cost = NoRow THEN NoRow
    ELSE Trunc((product.cost - product.previous) * BasisPoints, product.previous)

Magnitude(n) == IF n < 0 THEN -n ELSE n

Fresh(s) == products[s].at <= now /\ now - products[s].at <= MaxAge[s]

\* FAULTY variant of Recovered: the product's own run of syncs decides.
RecoveredAtOnce(s) == products[s].stock > Threshold /\ listing = "paused"
Recovered(s) ==
    /\ products[s].stock > Threshold /\ links[s].confirmed >= RecoverySyncs
    /\ listing = "paused"

\* evaluateSupplierStock, unless it throws: a stale stock evidence is a stale cost evidence too.
EvaluateSupplierStock(s) ==
    LET product == products[s]
        change == CostChange(product)
        eligible == s \in OnlineSources /\ product.ok /\ Fresh(s)
        earned == Profitability(s) = "profitable" /\ change = 0
        jumped == change /= NoRow /\ Magnitude(change) >= CostAlert
    IN [at |-> product.at, failed |-> ~product.ok,
        reaudit |-> jumped \/ (eligible /\ Recovered(s) /\ ~earned),
        proposal |-> IF ~eligible THEN "none"
                     ELSE IF Recovered(s) /\ earned THEN "listing.reactivate"
                     ELSE IF product.stock = 0 /\ listing = "active" THEN "listing.pause"
                     ELSE "none"]

-----------------------------------------------------------------------------
Moves(w, step) == Goes(w, [desks[w] EXCEPT !.at = step])
Closes(w, step) == Goes(w, [AtStocks EXCEPT !.at = step, !.source = desks[w].source])

RunStockDaemon(w) ==
    /\ At(w, "stocks")
    /\ LET due == {s \in Sources : links[s].active /\ links[s].next = Due /\ Free(links[s].lease)}
       IN IF due = {} THEN Goes(w, AtMargins) /\ UNCHANGED links
          ELSE \E s \in due :
                 /\ links' = [links EXCEPT ![s].lease = [owner |-> w, over |-> FALSE]]
                 /\ Goes(w, [AtStocks EXCEPT !.at = "stock-read", !.source = s])
    /\ UNCHANGED <<policy, assessed>>

\* The reader throws without an open, linked listing, and the evaluation on a cost change
\* from 0: nothing is saved, and the audit fails.
Evaluates(s) == links[s].active /\ listing /= "closed" /\ ~CostChangeThrows(products[s])

ReadStock(w) ==
    /\ At(w, "stock-read")
    /\ IF Evaluates(desks[w].source)
       THEN Goes(w, [desks[w] EXCEPT !.at = "stock-save",
                                     !.found = EvaluateSupplierStock(desks[w].source)])
       ELSE Closes(w, "stock-fail")
    /\ UNCHANGED <<policy, links, assessed>>

Considered(w) == Closes(w, IF desks[w].found.reaudit THEN "stock-schedule" ELSE "stock-close")

SaveAssessment(w) ==
    /\ At(w, "stock-save")
    /\ LET found == desks[w].found
           s == desks[w].source
           present == found.at = products[s].at /\ found.failed = ~products[s].ok
       IN assessed' = IF present THEN assessed \union {s} ELSE assessed
    /\ IF desks[w].found.proposal = "none" THEN Considered(w) ELSE Moves(w, "stock-propose")
    /\ UNCHANGED <<policy, links>>

SaveProposal(w) ==
    /\ At(w, "stock-propose") /\ Considered(w)
    /\ UNCHANGED <<policy, links, assessed>>

ScheduleMargin(w) ==
    /\ At(w, "stock-schedule")
    /\ policy' = Woken(policy)
    /\ Closes(w, "stock-close")
    /\ UNCHANGED <<links, assessed>>

Leads(w) == links[desks[w].source].lease.owner = w
LinkReleased(w) == [links EXCEPT ![desks[w].source] = Released(@)]

CompleteStock(w) ==
    /\ At(w, "stock-close")
    /\ IF Leads(w) THEN links' = LinkReleased(w) /\ Goes(w, AtMargins)
       ELSE UNCHANGED links /\ Closes(w, "stock-fail")
    /\ UNCHANGED <<policy, assessed>>

FailStock(w) ==
    /\ At(w, "stock-fail") /\ Goes(w, AtMargins)
    /\ links' = IF Leads(w) THEN LinkReleased(w) ELSE links
    /\ UNCHANGED <<policy, assessed>>

StockSteps ==
    {"stock-read", "stock-save", "stock-propose", "stock-schedule", "stock-close", "stock-fail"}

StockThrows(w) ==
    /\ Incident /\ desks[w].at \in StockSteps
    /\ IF At(w, "stock-fail") THEN Goes(w, AtMargins) ELSE Closes(w, "stock-fail")
    /\ UNCHANGED <<policy, links, assessed>>

\* The process dies and another takes its place; its lease stays behind.
WorkerDies(w) ==
    /\ Incident /\ desks[w].at \notin {"margins", "stocks"}
    /\ Goes(w, AtMargins)
    /\ UNCHANGED <<policy, links, assessed>>

LinkLeaseEnds(s) ==
    /\ links[s].lease.owner /= NoRow /\ ~links[s].lease.over
    /\ IF \E w \in Workers : links[s].lease.owner = w /\ desks[w].at \in StockSteps
                              /\ desks[w].source = s
       THEN Incident ELSE UNCHANGED incidents
    /\ links' = [links EXCEPT ![s].lease.over = TRUE]

LinkComesDue(s) == links[s].next = Later /\ links' = [links EXCEPT ![s].next = Due]

StockStep(w) ==
    \/ RunStockDaemon(w) \/ ReadStock(w) \/ SaveAssessment(w) \/ SaveProposal(w)
    \/ ScheduleMargin(w) \/ CompleteStock(w) \/ FailStock(w)
=============================================================================
