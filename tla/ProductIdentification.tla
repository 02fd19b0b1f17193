------------------------ MODULE ProductIdentification ------------------------
(***************************************************************************)
(* Product identification.  A call reads the verified image, computes its  *)
(* fingerprint, searches the confirmed fingerprints for duplicates, asks a *)
(* vision provider for candidates, and stores what the policy makes of     *)
(* them.  A person then confirms a pending identification as a product, or *)
(* rejects it, in one transaction that also stores the fingerprint of a    *)
(* confirmed product.                                                      *)
(*                                                                         *)
(* Fingerprints are numbers, and two are the more similar the nearer they  *)
(* are.  An identification is named by its content, the time of its        *)
(* evaluation included: identifying an image again makes another one.      *)
(* Scopes and field validation are left out; both vision providers cite    *)
(* the image in every candidate, so that it is never missing there.        *)
(***************************************************************************)
EXTENDS SourceImages, FiniteSetsExt

CONSTANTS
    Identifiers,   \* calls of POST product-identification/identify
    Look,          \* the fingerprint of each upload's image
    Products,      \* product ids, as numbers in their order
    SearchLimit,   \* LIMIT of the search for duplicates
    Policy,        \* confidence, lead, duplicate and age of the identification policy
    Proposals,     \* what the vision provider may answer: sets of candidates
    MaxIdentifications  \* bound on the identifications stored and under way

ASSUME IdentificationAssumption ==
    /\ Look \in [Uploads -> Nat] /\ Products \subseteq Nat
    /\ Policy \in [confidence: Nat, lead: Nat, duplicate: Nat, age: Nat]
    /\ SearchLimit \in Nat \ {0} /\ MaxIdentifications \in Nat

VARIABLES
    identifying,   \* how far each call is, and what it has read
    identifications, \* product_identification_results
    searches,      \* history: each stored identification with the rows its search could see
    reviews,       \* product_identification_reviews
    fingerprints   \* product_visual_fingerprints

identificationVars ==
    <<identifying, identifications, searches, reviews, fingerprints>>

NotIdentifying == [at |-> "idle"]

IdentificationInit ==
    /\ identifying = [c \in Identifiers |-> NotIdentifying]
    /\ identifications = {} /\ searches = {} /\ reviews = {} /\ fingerprints = {}

-----------------------------------------------------------------------------
Full == 100
Similarity(a, b) == IF a < b THEN Full - (b - a) ELSE Full - (a - b)

\* FAULTY variant of Ranked: rows in the order of their products.
RankedByProduct(image, rows) == {r \in rows :
    Cardinality({x \in rows : x.product < r.product}) < SearchLimit}
\* The first rows by similarity, then by product.
Ranked(image, rows) == {r \in rows :
    Cardinality({x \in rows :
        LET mine == Similarity(r.look, Look[image])
            other == Similarity(x.look, Look[image])
        IN other > mine \/ (other = mine /\ x.product < r.product)}) < SearchLimit}

Duplicates(image, rows) ==
    {[product |-> r.product, similarity |-> Similarity(r.look, Look[image])] : r \in Ranked(image, rows)}

Confidence(proposal) == Max({p.confidence : p \in proposal})
\* The best candidate, the first by id among equals.
Selected(proposal) == CHOOSE p \in proposal :
    \A x \in proposal : p.confidence > x.confidence \/ (p.confidence = x.confidence /\ p.id <= x.id)
Lead(proposal) == Confidence(proposal) - Max({p.confidence : p \in proposal \ {Selected(proposal)}})

StaleImage(verifiedAt, asOf) == asOf < verifiedAt \/ asOf - verifiedAt > Policy.age
Blocking(duplicates) == \E d \in duplicates : d.similarity >= Policy.duplicate

EvaluatedStatus(verifiedAt, asOf, proposal, duplicates) ==
    IF StaleImage(verifiedAt, asOf) THEN "incomplete"
    ELSE IF Blocking(duplicates) THEN "duplicate-blocked"
    ELSE IF proposal = {} THEN "no-match"
    ELSE IF Confidence(proposal) < Policy.confidence THEN "no-match"
    ELSE IF Cardinality(proposal) > 1 /\ Lead(proposal) < Policy.lead THEN "ambiguous"
    ELSE "identified-pending-confirmation"

-----------------------------------------------------------------------------
Identified(c) == identifying[c].at /= "idle"
Begun == {c \in Identifiers : Identified(c)}

StartIdentify(c, u) ==
    /\ ~Identified(c) /\ IsVerified(u)
    /\ Cardinality(identifications) + Cardinality(Begun) < MaxIdentifications
    /\ identifying' = [identifying EXCEPT ![c] =
           [at |-> "compute", image |-> u, verifiedAt |-> uploads[u].verifiedAt]]
    /\ UNCHANGED <<identifications, searches, reviews, fingerprints>>

\* The artifact is evaluated and stored, with nothing read in between.
Store(c, asOf, proposal, duplicates, rows) ==
    LET found == identifying[c]
        artifact == [image |-> found.image, at |-> asOf, proposal |-> proposal, duplicates |-> duplicates,
                     status |-> EvaluatedStatus(found.verifiedAt, asOf, proposal, duplicates)]
    IN /\ identifications' = identifications \union {artifact}
       /\ searches' = searches \union {[identification |-> artifact, rows |-> rows]}
       /\ identifying' = [identifying EXCEPT ![c] = NotIdentifying]
       /\ UNCHANGED <<reviews, fingerprints>>

\* The clock of the evaluation is read once the fingerprint is there.
ComputeFingerprint(c) ==
    /\ identifying[c].at = "compute"
    /\ IF StaleImage(identifying[c].verifiedAt, now)
       THEN Store(c, now, {}, {}, {})
       ELSE /\ identifying' = [identifying EXCEPT ![c] =
                   [at |-> "search", image |-> identifying[c].image,
                    verifiedAt |-> identifying[c].verifiedAt, asOf |-> now]]
            /\ UNCHANGED <<identifications, searches, reviews, fingerprints>>

SearchDuplicates(c) ==
    /\ identifying[c].at = "search"
    /\ LET found == Duplicates(identifying[c].image, fingerprints)
       IN IF Blocking(found)
          THEN Store(c, identifying[c].asOf, {}, found, fingerprints)
          ELSE /\ identifying' = [identifying EXCEPT ![c] =
                      [at |-> "propose", image |-> identifying[c].image,
                       verifiedAt |-> identifying[c].verifiedAt, asOf |-> identifying[c].asOf,
                       duplicates |-> found, rows |-> fingerprints]]
               /\ UNCHANGED <<identifications, searches, reviews, fingerprints>>

ProposeCandidates(c, proposal) ==
    /\ identifying[c].at = "propose"
    /\ Store(c, identifying[c].asOf, proposal, identifying[c].duplicates, identifying[c].rows)

\* A provider or the database throws, or the process stops: nothing is stored.
IdentifyThrows(c) ==
    /\ Identified(c) /\ Incident
    /\ identifying' = [identifying EXCEPT ![c] = NotIdentifying]
    /\ UNCHANGED <<identifications, searches, reviews, fingerprints>>

Identify(c) ==
    \/ \E u \in Uploads : StartIdentify(c, u)
    \/ ComputeFingerprint(c) \/ SearchDuplicates(c)
    \/ \E p \in Proposals : ProposeCandidates(c, p)

-----------------------------------------------------------------------------
\* A review reads the identification, which never changes, and records the decision in one
\* transaction.  Each call draws an id of its own, so that no second review equals the first:
\* it is refused, and so is one that confirms a product that already has a fingerprint.
Reviewable(i) ==
    /\ i.status = "identified-pending-confirmation"
    /\ ~\E r \in reviews : r.identification = i

Reject(i) ==
    /\ Reviewable(i)
    /\ reviews' = reviews \union {[identification |-> i, decision |-> "rejected", product |-> NoUpload]}
    /\ UNCHANGED <<identifying, identifications, searches, fingerprints>>

Fingerprint(i, p) == [product |-> p, look |-> Look[i.image], identification |-> i]
ConfirmedAs(i, p) == [identification |-> i, decision |-> "confirmed", product |-> p]

\* FAULTY variant of Confirm: the review outlives the fingerprint that was refused.
ConfirmKeepingReview(i, p) ==
    /\ Reviewable(i)
    /\ reviews' = reviews \union {ConfirmedAs(i, p)}
    /\ fingerprints' = fingerprints \union
           {f \in {Fingerprint(i, p)} : ~\E g \in fingerprints : g.product = p}
    /\ UNCHANGED <<identifying, identifications, searches>>
Confirm(i, p) ==
    /\ Reviewable(i)
    /\ ~\E f \in fingerprints : f.product = p
    /\ reviews' = reviews \union {ConfirmedAs(i, p)}
    /\ fingerprints' = fingerprints \union {Fingerprint(i, p)}
    /\ UNCHANGED <<identifying, identifications, searches>>

Review == \E i \in identifications : Reject(i) \/ \E p \in Products : Confirm(i, p)

-----------------------------------------------------------------------------
\* Two confirmed products that look the same were identified and confirmed side by side: neither
\* was in the catalog when the other was searched for.  (evaluateProductIdentification blocks a
\* duplicate, but the search is over before a person confirms.)
DuplicatesWereUnseen ==
    \A f, g \in fingerprints :
        f /= g /\ Similarity(f.look, g.look) >= Policy.duplicate =>
            ~\E s \in searches : s.identification = f.identification /\ g \in s.rows

\* A confirmation is recorded whole or not at all: an identification is reviewed once, a product
\* has one fingerprint (UNIQUE in migration 028 says: of each algorithm and version, and
\* the model has one), and the confirmed products are those the search for duplicates knows.
\* (saveReview inserts the review before it knows whether the fingerprint is refused.)
ConfirmationIsWhole ==
    /\ \A r, s \in reviews : r.identification = s.identification => r = s
    /\ \A f, g \in fingerprints : f.product = g.product => f = g
    /\ {ConfirmedAs(f.identification, f.product) : f \in fingerprints} =
           {r \in reviews : r.decision = "confirmed"}
=============================================================================
