-------------------------- MODULE CatalogAcquisition --------------------------
(***************************************************************************)
(* Catalog acquisition.  A discovery reads the verified image and the      *)
(* clock, asks a visual provider for similar products and the suppliers'   *)
(* catalogs for their offers, and saves a candidate for each fresh pair,   *)
(* one after the other.  The name of a candidate is the hash of what was   *)
(* found, so that finding it again finds the row that is there; the ids of *)
(* the evidence are not part of the hash.  A reviewer reads a candidate,   *)
(* then decides it with a compare-and-set on its status.                   *)
(*                                                                         *)
(* A finding stands for a match and one offer found for it, and the        *)
(* searches of one discovery for a single one, before its first save.      *)
(***************************************************************************)
EXTENDS SourceImages

CONSTANTS
    Discoverers,   \* calls of POST catalog-acquisition/discover
    Reviewers,     \* calls of POST candidates/:id/review
    Contents,      \* what a finding hashes to, its image aside
    EvidenceIds,   \* ids the providers give their evidence
    Answers,       \* what one discovery may find: sets of [content, evidence, similar, age]
    EvidenceAge,   \* maximumEvidenceAgeMs of the acquisition policy
    MaxDiscoveries \* bound on the discoveries of a behaviour

ASSUME AcquisitionAssumption ==
    /\ Answers \subseteq SUBSET
           [content: Contents, evidence: EvidenceIds, similar: BOOLEAN, age: Nat]
    /\ EvidenceAge \in Nat \ {0} /\ MaxDiscoveries \in Nat

Decisions == {"accepted", "rejected"}
Findings == [content: Contents, evidence: EvidenceIds]
Discoveries == [image: Uploads, at: Times, left: {NoUpload} \union SUBSET Findings]
CandidateRows ==
    [status: {"needs-review"} \union Decisions, by: {NoUpload} \union Reviewers, evidence: EvidenceIds]

ASSUME NoRowAssumption ==
    /\ NoUpload \notin Discoveries /\ NoUpload \notin CandidateRows
    /\ NoUpload \notin Uploads \X Contents

VARIABLES
    discovering,   \* the image of each discovery, its clock and the findings left
    discoveries,   \* discoveries so far
    candidates,    \* catalog_acquisition_candidates, by image and content
    deciding,      \* the candidate each review has read
    ruled          \* every decision a reviewer was told was taken

acquisitionVars == <<discovering, discoveries, candidates, deciding, ruled>>

AcquisitionTypeOK ==
    /\ discovering \in [Discoverers -> {NoUpload} \union Discoveries]
    /\ discoveries \in 0..MaxDiscoveries
    /\ candidates \in [Uploads \X Contents -> {NoUpload} \union CandidateRows]
    /\ deciding \in [Reviewers -> {NoUpload} \union (Uploads \X Contents)]
    /\ ruled \subseteq [candidate: Uploads \X Contents, decision: Decisions, by: Reviewers]

AcquisitionInit ==
    /\ discovering = [d \in Discoverers |-> NoUpload] /\ discoveries = 0
    /\ candidates = [k \in Uploads \X Contents |-> NoUpload]
    /\ deciding = [r \in Reviewers |-> NoUpload] /\ ruled = {}

-----------------------------------------------------------------------------
StartDiscover(d, u) ==
    /\ discovering[d] = NoUpload /\ IsVerified(u)
    /\ discoveries < MaxDiscoveries /\ discoveries' = discoveries + 1
    /\ discovering' = [discovering EXCEPT ![d] =
           [image |-> u, at |-> now, left |-> NoUpload]]
    /\ UNCHANGED <<candidates, deciding, ruled>>

\* The clock of the call is read before the providers observe: what they observe after it is
\* not yet fresh, and skipped.
Fresh(finding, asOf) ==
    LET observed == now - finding.age IN observed <= asOf /\ asOf - observed <= EvidenceAge
Eligible(answer, asOf) ==
    {[content |-> f.content, evidence |-> f.evidence] :
        f \in {x \in answer : x.similar /\ Fresh(x, asOf)}}

SearchCatalogs(d, answer) ==
    /\ discovering[d] /= NoUpload /\ discovering[d].left = NoUpload
    /\ discovering' = [discovering EXCEPT ![d].left = Eligible(answer, discovering[d].at)]
    /\ UNCHANGED <<discoveries, candidates, deciding, ruled>>

\* FAULTY variant of Stored: what is found again is written again.
StoredAnew(row, finding) == [status |-> "needs-review", by |-> NoUpload, evidence |-> finding.evidence]
Stored(row, finding) ==
    IF row /= NoUpload THEN row
    ELSE [status |-> "needs-review", by |-> NoUpload, evidence |-> finding.evidence]

\* A row of the same name and the same evidence is the candidate; with other evidence it is a
\* conflict, which ends the discovery.  A second finding of one content is skipped.
SaveCandidate(d, f) ==
    /\ LET key == <<discovering[d].image, f.content>>
           row == candidates[key]
       IN IF row /= NoUpload /\ row.evidence /= f.evidence
          THEN discovering' = [discovering EXCEPT ![d] = NoUpload] /\ UNCHANGED candidates
          ELSE /\ discovering' = [discovering EXCEPT ![d].left = {x \in @ : x.content /= f.content}]
               /\ candidates' = [candidates EXCEPT ![key] = Stored(row, f)]
    /\ UNCHANGED <<discoveries, deciding, ruled>>

EndDiscover(d) ==
    /\ discovering[d] /= NoUpload /\ discovering[d].left = {}
    /\ discovering' = [discovering EXCEPT ![d] = NoUpload]
    /\ UNCHANGED <<discoveries, candidates, deciding, ruled>>

\* A provider answers nonsense or nothing, or the database throws: what is saved stays.
DiscoverThrows(d) ==
    /\ discovering[d] /= NoUpload /\ Incident
    /\ discovering' = [discovering EXCEPT ![d] = NoUpload]
    /\ UNCHANGED <<discoveries, candidates, deciding, ruled>>

Discover(d) ==
    \/ \E u \in Uploads : StartDiscover(d, u)
    \/ \E a \in Answers : SearchCatalogs(d, a)
    \/ /\ discovering[d] /= NoUpload /\ discovering[d].left /= NoUpload
       /\ \E f \in discovering[d].left : SaveCandidate(d, f)
    \/ EndDiscover(d)

-----------------------------------------------------------------------------
NeedsReview(k) == candidates[k] /= NoUpload /\ candidates[k].status = "needs-review"

ReadCandidate(r, k) ==
    /\ deciding[r] = NoUpload /\ NeedsReview(k)
    /\ deciding' = [deciding EXCEPT ![r] = k]
    /\ UNCHANGED <<discovering, discoveries, candidates, ruled>>

\* A candidate that another review has decided is a conflict, and nothing changes.
Decide(r, decision) ==
    /\ deciding[r] /= NoUpload
    /\ deciding' = [deciding EXCEPT ![r] = NoUpload]
    /\ LET k == deciding[r]
       IN IF NeedsReview(k)
          THEN /\ candidates' = [candidates EXCEPT ![k].status = decision, ![k].by = r]
               /\ ruled' = ruled \union {[candidate |-> k, decision |-> decision, by |-> r]}
          ELSE UNCHANGED <<candidates, ruled>>
    /\ UNCHANGED <<discovering, discoveries>>

ReviewCandidate(r) ==
    \/ \E k \in Uploads \X Contents : ReadCandidate(r, k)
    \/ \E decision \in Decisions : Decide(r, decision)

-----------------------------------------------------------------------------
\* What a reviewer was told was decided is what the candidate says, for good: of two reviews of
\* one candidate one fails, and a discovery that finds it again does not open it again.
RulingsHold ==
    \A ruling \in ruled :
        /\ candidates[ruling.candidate].status = ruling.decision
        /\ candidates[ruling.candidate].by = ruling.by
=============================================================================
