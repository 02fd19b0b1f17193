---------------------------- MODULE IntakeProofs ----------------------------
(***************************************************************************)
(* Theorems about Intake, for every set of uploads, of calls and of        *)
(* reviewers, every policy and catalog of fingerprints, and any number of  *)
(* incidents.                                                              *)
(***************************************************************************)
EXTENDS Intake, WellFoundedInduction, FiniteSetTheorems, TLAPS

-----------------------------------------------------------------------------
(* Source images.                                                          *)

\* A verification keeps what it read: the row is there for good, and neither a verdict still
\* to come nor one that says verified was read of an upload that had expired.
ChecksHold ==
    \A v \in Verifiers : verifying[v] /= NoUpload =>
        LET check == verifying[v]
        IN /\ uploads[check.upload] /= NoUpload
           /\ check.verdict \in {NoUpload, "verified"} => check.at < uploads[check.upload].expires
           /\ check.verdict = "verified" => check.upload \in objects \intersect Honest

VerifiedAreWhole ==
    \A u \in Uploads : IsVerified(u) =>
        /\ u \in objects \intersect Honest
        /\ uploads[u].verifiedAt \in Times /\ uploads[u].verifiedAt < uploads[u].expires

ToldStands ==
    \A told \in toldVerified : IsVerified(told.upload) /\ uploads[told.upload].verifiedAt = told.at

ImagesInv == ImagesTypeOK /\ ChecksHold /\ VerifiedAreWhole /\ ToldStands

\* What the other components let happen to the images.
ImagesStep ==
    \/ \E u \in Uploads : Uploading(u)
    \/ \E v \in Verifiers : InspectObject(v) \/ SaveVerdict(v) \/ VerifyThrows(v)
    \/ Tick
    \/ UNCHANGED imageVars

LEMMA NextImages ==
    ASSUME [Next]_vars
    PROVE  ImagesStep
BY IntakeAssumption
   DEF Next, vars, ImagesStep, Photographing, Beginning, Identifying, Acquiring, Waiting

LEMMA TimesAreNaturals == Times \subseteq Nat
BY UploadsAssumption DEF Times

LEMMA InitImages ==
    ASSUME ImagesInit \/ VerifiedInit
    PROVE  ImagesInv
<1> USE UploadsAssumption, NoUploadAssumption DEF Times, UploadRows, Verdicts
<1>1. CASE ImagesInit
  BY <1>1 DEF ImagesInit, ImagesInv, ImagesTypeOK, ChecksHold, VerifiedAreWhole, ToldStands,
              IsVerified
<1>2. CASE VerifiedInit
  <2>1. ImagesTypeOK
    BY <1>2 DEF VerifiedInit, ImagesTypeOK
  <2>2. ChecksHold
    BY <1>2 DEF VerifiedInit, ChecksHold
  <2>3. VerifiedAreWhole
    BY <1>2 DEF VerifiedInit, VerifiedAreWhole, IsVerified
  <2>4. ToldStands
    BY <1>2 DEF VerifiedInit, ToldStands, IsVerified
  <2> QED BY <2>1, <2>2, <2>3, <2>4 DEF ImagesInv
<1> QED BY <1>1, <1>2

LEMMA ImagesKept ==
    ASSUME ImagesInv, ImagesStep
    PROVE  ImagesInv' /\ \A u \in Uploads : IsVerified(u) => IsVerified(u)' /\ uploads'[u] = uploads[u]
<1> DEFINE Kept == \A u \in Uploads : IsVerified(u) => IsVerified(u)' /\ uploads'[u] = uploads[u]
<1> USE UploadsAssumption, NoUploadAssumption
<1>1. ASSUME NEW u \in Uploads, RequestUpload(u)
      PROVE  ImagesInv' /\ Kept
  <2>1. uploads[u] = NoUpload /\ now + UploadExpiry \in Nat
    BY <1>1 DEF RequestUpload, ImagesInv, ImagesTypeOK, Times
  <2>2. ImagesTypeOK'
    BY <1>1, <2>1 DEF RequestUpload, ImagesInv, ImagesTypeOK, UploadRows
  <2>3. \A x \in Uploads : uploads[x] /= NoUpload => x /= u /\ uploads'[x] = uploads[x]
    BY <1>1, <2>1 DEF RequestUpload, ImagesInv, ImagesTypeOK
  <2>4. \A x \in Uploads : IsVerified(x)' => x /= u
    BY <1>1 DEF RequestUpload, IsVerified, ImagesInv, ImagesTypeOK
  <2>5. Kept
    BY <2>3 DEF IsVerified
  <2>6. ChecksHold'
    BY <1>1, <2>3 DEF RequestUpload, ImagesInv, ImagesTypeOK, ChecksHold, Verifications
  <2>7. VerifiedAreWhole'
    BY <1>1, <2>1, <2>4 DEF RequestUpload, ImagesInv, ImagesTypeOK, VerifiedAreWhole, IsVerified
  <2>8. ToldStands'
    BY <1>1, <2>5 DEF RequestUpload, ImagesInv, ImagesTypeOK, ToldStands
  <2> QED BY <2>2, <2>5, <2>6, <2>7, <2>8 DEF ImagesInv
<1>2. ASSUME NEW u \in Uploads, PutObject(u)
      PROVE  ImagesInv' /\ Kept
  BY <1>2 DEF PutObject, ImagesInv, ImagesTypeOK, ChecksHold, VerifiedAreWhole, ToldStands, IsVerified
<1>3. ASSUME NEW u \in Uploads, NEW v \in Verifiers, ReadUpload(v, u)
      PROVE  ImagesInv' /\ Kept
  <2>1. CASE IsVerified(u)
    BY <1>3, <2>1 DEF ReadUpload, ImagesInv, ImagesTypeOK, ChecksHold, VerifiedAreWhole, ToldStands,
                      IsVerified
  <2>2. CASE ~IsVerified(u)
    <3>1. /\ verifying' = [verifying EXCEPT ![v] =
                [upload |-> u, at |-> now,
                 verdict |-> IF uploads[u].expires <= now THEN "expired" ELSE NoUpload]]
          /\ uploads[u] \in UploadRows
          /\ UNCHANGED <<now, uploads, objects, toldVerified>>
      BY <1>3, <2>2 DEF ReadUpload, ImagesInv, ImagesTypeOK
    <3>2. ImagesTypeOK'
      BY <3>1 DEF ImagesInv, ImagesTypeOK, Verifications, Verdicts
    <3>3. ChecksHold'
      BY <3>1 DEF ImagesInv, ImagesTypeOK, ChecksHold, UploadRows, Verdicts, Times
    <3> QED BY <3>1, <3>2, <3>3 DEF ImagesInv, VerifiedAreWhole, ToldStands, IsVerified
  <2> QED BY <2>1, <2>2
<1>4. ASSUME NEW v \in Verifiers, InspectObject(v)
      PROVE  ImagesInv' /\ Kept
  <2>1. verifying[v] \in Verifications /\ Observed(verifying[v].upload) \in Verdicts
    BY <1>4 DEF InspectObject, ImagesInv, ImagesTypeOK, Observed, Verdicts
  <2>2. ImagesTypeOK'
    BY <1>4, <2>1 DEF InspectObject, ImagesInv, ImagesTypeOK, Verifications
  <2>3. ChecksHold'
    BY <1>4, <2>1 DEF InspectObject, ImagesInv, ImagesTypeOK, ChecksHold, Verifications, Observed
  <2> QED BY <1>4, <2>2, <2>3
          DEF InspectObject, ImagesInv, VerifiedAreWhole, ToldStands, IsVerified
<1>5. ASSUME NEW v \in Verifiers, SaveVerdict(v)
      PROVE  ImagesInv' /\ Kept
  <2> DEFINE u == verifying[v].upload
             verdict == verifying[v].verdict
  <2>1. /\ verifying[v] \in Verifications /\ u \in Uploads /\ verdict \in Verdicts
        /\ verifying' = [verifying EXCEPT ![v] = NoUpload] /\ UNCHANGED <<now, objects>>
    BY <1>5 DEF SaveVerdict, ImagesInv, ImagesTypeOK, Verifications
  <2>2. CASE ~MayTransition(u)
    BY <1>5, <2>1, <2>2 DEF SaveVerdict, ImagesInv, ImagesTypeOK, ChecksHold, VerifiedAreWhole,
                            ToldStands, IsVerified
  <2>3. CASE MayTransition(u)
    <3> DEFINE row == [uploads[u] EXCEPT !.status = verdict,
                          !.verifiedAt = IF verdict = "verified" THEN verifying[v].at ELSE @]
               told == [upload |-> u, at |-> verifying[v].at]
    <3>1. /\ uploads' = [uploads EXCEPT ![u] = row]
          /\ IF verdict = "verified" THEN toldVerified' = toldVerified \union {told}
             ELSE toldVerified' = toldVerified
      BY <1>5, <2>3 DEF SaveVerdict
    <3>2. uploads[u] \in UploadRows /\ uploads[u].status = "requested"
      BY <2>1, <2>3 DEF MayTransition, ImagesInv, ImagesTypeOK
    <3>3. row \in UploadRows /\ row /= NoUpload /\ row.status = verdict
          /\ row.expires = uploads[u].expires
          /\ (verdict = "verified" => row.verifiedAt = verifying[v].at)
      BY <2>1, <3>2 DEF UploadRows, Verifications
    <3>4. ImagesTypeOK'
      BY <2>1, <3>1, <3>3 DEF ImagesInv, ImagesTypeOK, Verifications
    <3>5. \A x \in Uploads : IsVerified(x) => x /= u
      BY <3>2 DEF IsVerified
    <3>6. Kept
      BY <3>1, <3>5 DEF IsVerified, ImagesInv, ImagesTypeOK
    <3>7. ChecksHold'
      <4> SUFFICES ASSUME NEW x \in Verifiers, verifying'[x] /= NoUpload
                   PROVE  LET check == verifying'[x]
                          IN /\ uploads'[check.upload] /= NoUpload
                             /\ check.verdict \in {NoUpload, "verified"} =>
                                  check.at < uploads'[check.upload].expires
                             /\ check.verdict = "verified" =>
                                  check.upload \in objects' \intersect Honest
        BY DEF ChecksHold
      <4>1. verifying'[x] = verifying[x] /\ verifying[x] \in Verifications
        BY <2>1 DEF ImagesInv, ImagesTypeOK
      <4>2. /\ uploads'[verifying[x].upload] /= NoUpload
            /\ uploads'[verifying[x].upload].expires = uploads[verifying[x].upload].expires
        BY <3>1, <3>3, <4>1 DEF ImagesInv, ImagesTypeOK, ChecksHold, Verifications
      <4> QED BY <2>1, <4>1, <4>2 DEF ImagesInv, ChecksHold
    <3>8. VerifiedAreWhole'
      <4>1. ASSUME verdict = "verified"
            PROVE  /\ u \in objects' \intersect Honest /\ row.verifiedAt \in Times
                   /\ row.verifiedAt < row.expires
        BY <2>1, <3>3, <4>1 DEF ImagesInv, ChecksHold, Verifications
      <4> QED BY <2>1, <3>1, <3>3, <4>1 DEF ImagesInv, ImagesTypeOK, VerifiedAreWhole, IsVerified
    <3>9. ToldStands'
      <4>1. \A x \in toldVerified : IsVerified(x.upload)' /\ uploads'[x.upload].verifiedAt = x.at
        BY <3>6 DEF ImagesInv, ImagesTypeOK, ToldStands
      <4>2. verdict = "verified" =>
                /\ uploads'[u] /= NoUpload /\ uploads'[u].status = "verified"
                /\ uploads'[u].verifiedAt = verifying[v].at
        BY <2>1, <3>1, <3>3 DEF ImagesInv, ImagesTypeOK
      <4>3. \A x \in toldVerified' : x \in toldVerified \/ (verdict = "verified" /\ x = told)
        BY <3>1
      <4>4. \A x \in toldVerified' :
                uploads'[x.upload] /= NoUpload /\ uploads'[x.upload].status = "verified"
                /\ uploads'[x.upload].verifiedAt = x.at
        BY <4>1, <4>2, <4>3 DEF IsVerified
      <4> QED BY <4>4 DEF ToldStands, IsVerified
    <3> QED BY <3>4, <3>6, <3>7, <3>8, <3>9 DEF ImagesInv
  <2> QED BY <2>2, <2>3
<1>6. ASSUME NEW v \in Verifiers, VerifyThrows(v)
      PROVE  ImagesInv' /\ Kept
  BY <1>6 DEF VerifyThrows, ImagesInv, ImagesTypeOK, ChecksHold, VerifiedAreWhole, ToldStands,
              IsVerified
<1>7. ASSUME Tick
      PROVE  ImagesInv' /\ Kept
  BY <1>7 DEF Tick, ImagesInv, ImagesTypeOK, Times, ChecksHold, VerifiedAreWhole, ToldStands,
              IsVerified
<1>8. ASSUME UNCHANGED imageVars
      PROVE  ImagesInv' /\ Kept
  BY <1>8 DEF imageVars, ImagesInv, ImagesTypeOK, ChecksHold, VerifiedAreWhole, ToldStands, IsVerified
<1> QED BY <1>1, <1>2, <1>3, <1>4, <1>5, <1>6, <1>7, <1>8 DEF ImagesStep, Uploading

LEMMA ImagesAlways == Spec => []ImagesInv
<1>1. Init => ImagesInv
  BY InitImages DEF Init
<1>2. ImagesInv /\ [Next]_vars => ImagesInv'
  BY NextImages, ImagesKept
<1> QED BY <1>1, <1>2, PTL DEF Spec

\* An answer that says verified stands: the row says so ever after, at the time that was told.
\* (verifyUpload decides on a row it read before it inspected the object; the compare-and-set of
\* recordVerification decides which of the racing verdicts is the upload's.)
THEOREM AnswersStand == Spec => []VerifiedAnswersHold
<1>1. ImagesInv => VerifiedAnswersHold
  BY DEF ImagesInv, ToldStands, VerifiedAnswersHold, IsVerified
<1> QED BY <1>1, ImagesAlways, PTL

-----------------------------------------------------------------------------
(* Catalog acquisition.                                                    *)

RulingsStand ==
    \A ruling \in ruled :
        /\ candidates[ruling.candidate] /= NoUpload
        /\ candidates[ruling.candidate].status = ruling.decision
        /\ candidates[ruling.candidate].by = ruling.by

AcquisitionInv == AcquisitionTypeOK /\ RulingsStand

AcquisitionStep ==
    \/ \E d \in Discoverers : Discover(d) \/ DiscoverThrows(d)
    \/ \E r \in Reviewers : ReviewCandidate(r)
    \/ UNCHANGED acquisitionVars

LEMMA NextAcquisition ==
    ASSUME [Next]_vars
    PROVE  AcquisitionStep
<1>1. ASSUME Beginning
      PROVE  AcquisitionStep
  BY <1>1, IntakeAssumption DEF Beginning, AcquisitionStep, Discover
<1> QED BY <1>1 DEF Next, vars, AcquisitionStep, Photographing, Identifying, Acquiring, Waiting

LEMMA EligibleAreFindings ==
    ASSUME NEW answer \in Answers, NEW asOf
    PROVE  Eligible(answer, asOf) \subseteq Findings
BY AcquisitionAssumption DEF Eligible, Findings

LEMMA AcquisitionKept ==
    ASSUME AcquisitionInv, AcquisitionStep, now \in Times
    PROVE  AcquisitionInv'
<1> USE AcquisitionAssumption, NoRowAssumption
<1>1. ASSUME NEW d \in Discoverers, NEW u \in Uploads, StartDiscover(d, u)
      PROVE  AcquisitionInv'
  BY <1>1 DEF StartDiscover, AcquisitionInv, AcquisitionTypeOK, Discoveries, RulingsStand
<1>2. ASSUME NEW d \in Discoverers, NEW answer \in Answers, SearchCatalogs(d, answer)
      PROVE  AcquisitionInv'
  <2>1. discovering[d] \in Discoveries
        /\ Eligible(answer, discovering[d].at) \in SUBSET Findings
    BY <1>2, EligibleAreFindings DEF SearchCatalogs, AcquisitionInv, AcquisitionTypeOK
  <2> QED BY <1>2, <2>1 DEF SearchCatalogs, AcquisitionInv, AcquisitionTypeOK, Discoveries, RulingsStand
<1>3. ASSUME NEW d \in Discoverers, discovering[d] /= NoUpload, discovering[d].left /= NoUpload,
             NEW f \in discovering[d].left, SaveCandidate(d, f)
      PROVE  AcquisitionInv'
  <2> DEFINE key == <<discovering[d].image, f.content>>
             row == candidates[key]
  <2>1. /\ discovering[d] \in Discoveries /\ discovering[d].left \in SUBSET Findings
        /\ f \in Findings /\ key \in Uploads \X Contents
    BY <1>3 DEF AcquisitionInv, AcquisitionTypeOK, Discoveries, Findings
  <2>2. CASE row /= NoUpload /\ row.evidence /= f.evidence
    BY <1>3, <2>2 DEF SaveCandidate, AcquisitionInv, AcquisitionTypeOK, RulingsStand
  <2>3. CASE ~(row /= NoUpload /\ row.evidence /= f.evidence)
    <3>1. /\ discovering' = [discovering EXCEPT ![d].left = {x \in @ : x.content /= f.content}]
          /\ candidates' = [candidates EXCEPT ![key] = Stored(row, f)]
          /\ UNCHANGED <<discoveries, deciding, ruled>>
      BY <1>3, <2>3 DEF SaveCandidate
    <3>2. Stored(row, f) \in CandidateRows /\ (row /= NoUpload => Stored(row, f) = row)
      BY <2>1 DEF Stored, AcquisitionInv, AcquisitionTypeOK, CandidateRows, Findings
    <3>3. AcquisitionTypeOK'
      BY <2>1, <3>1, <3>2 DEF AcquisitionInv, AcquisitionTypeOK, Discoveries
    <3>4. \A k \in Uploads \X Contents : candidates[k] /= NoUpload => candidates'[k] = candidates[k]
      BY <3>1, <3>2 DEF AcquisitionInv, AcquisitionTypeOK
    <3> QED BY <3>1, <3>3, <3>4 DEF AcquisitionInv, AcquisitionTypeOK, RulingsStand
  <2> QED BY <2>2, <2>3
<1>4. ASSUME NEW d \in Discoverers, EndDiscover(d) \/ DiscoverThrows(d)
      PROVE  AcquisitionInv'
  BY <1>4 DEF EndDiscover, DiscoverThrows, AcquisitionInv, AcquisitionTypeOK, RulingsStand
<1>5. ASSUME NEW r \in Reviewers, NEW k \in Uploads \X Contents, ReadCandidate(r, k)
      PROVE  AcquisitionInv'
  BY <1>5 DEF ReadCandidate, AcquisitionInv, AcquisitionTypeOK, RulingsStand
<1>6. ASSUME NEW r \in Reviewers, NEW decision \in Decisions, Decide(r, decision)
      PROVE  AcquisitionInv'
  <2> DEFINE k == deciding[r]
  <2>1. k \in Uploads \X Contents /\ deciding' = [deciding EXCEPT ![r] = NoUpload]
        /\ UNCHANGED <<discovering, discoveries>>
    BY <1>6 DEF Decide, AcquisitionInv, AcquisitionTypeOK
  <2>2. CASE ~NeedsReview(k)
    BY <1>6, <2>1, <2>2 DEF Decide, AcquisitionInv, AcquisitionTypeOK, RulingsStand
  <2>3. CASE NeedsReview(k)
    <3> DEFINE row == [candidates[k] EXCEPT !.status = decision, !.by = r]
               ruling == [candidate |-> k, decision |-> decision, by |-> r]
    <3>1. /\ candidates' = [candidates EXCEPT ![k] = row]
          /\ ruled' = ruled \union {ruling}
          /\ candidates[k] \in CandidateRows /\ candidates[k].status = "needs-review"
      BY <1>6, <2>1, <2>3 DEF Decide, NeedsReview, AcquisitionInv, AcquisitionTypeOK
    <3>2. row \in CandidateRows /\ row.status = decision /\ row.by = r
      BY <3>1 DEF CandidateRows
    <3>3. AcquisitionTypeOK'
      BY <2>1, <3>1, <3>2 DEF AcquisitionInv, AcquisitionTypeOK
    <3>4. \A x \in ruled : x.candidate /= k /\ x.candidate \in Uploads \X Contents
      BY <3>1 DEF AcquisitionInv, AcquisitionTypeOK, RulingsStand, Decisions
    <3>5. \A x \in ruled :
             candidates'[x.candidate] = candidates[x.candidate]
      BY <3>1, <3>4 DEF AcquisitionInv, AcquisitionTypeOK
    <3>6. candidates'[k] = row
      BY <2>1, <3>1 DEF AcquisitionInv, AcquisitionTypeOK
    <3>7. \A x \in ruled' : x \in ruled \/ x = ruling
      BY <3>1
    <3>8. \A x \in ruled' : /\ candidates'[x.candidate] /= NoUpload
                            /\ candidates'[x.candidate].status = x.decision
                            /\ candidates'[x.candidate].by = x.by
      <4>1. \A x \in ruled : /\ candidates[x.candidate] /= NoUpload
                            /\ candidates[x.candidate].status = x.decision
                            /\ candidates[x.candidate].by = x.by
        BY DEF AcquisitionInv, RulingsStand
      <4>2. ruling.candidate = k /\ ruling.decision = decision /\ ruling.by = r /\ row /= NoUpload
        BY <3>2
      <4> HIDE DEF row, ruling, k
      <4> QED BY <3>2, <3>5, <3>6, <3>7, <4>1, <4>2
    <3> QED BY <3>3, <3>8 DEF AcquisitionInv, RulingsStand
  <2> QED BY <2>2, <2>3
<1>7. ASSUME UNCHANGED acquisitionVars
      PROVE  AcquisitionInv'
  BY <1>7 DEF acquisitionVars, AcquisitionInv, AcquisitionTypeOK, RulingsStand
<1> QED BY <1>1, <1>2, <1>3, <1>4, <1>5, <1>6, <1>7 DEF AcquisitionStep, Discover, ReviewCandidate

LEMMA AcquisitionAlways == Spec => []AcquisitionInv
<1>1. Init => AcquisitionInv
  BY AcquisitionAssumption DEF Init, AcquisitionInit, AcquisitionInv, AcquisitionTypeOK, RulingsStand
<1>2. AcquisitionInv /\ ImagesInv /\ [Next]_vars => AcquisitionInv'
  BY NextAcquisition, AcquisitionKept DEF ImagesInv, ImagesTypeOK
<1> QED BY <1>1, <1>2, ImagesAlways, PTL DEF Spec

\* A decision that was confirmed to its reviewer is the candidate's for good, by that reviewer.
\* (review saves with a compare-and-set on the status; a discovery that finds the candidate again
\* gets the row that is there.)
THEOREM RulingsStandForGood == Spec => []RulingsHold
<1>1. AcquisitionInv => RulingsHold
  BY DEF AcquisitionInv, RulingsStand, RulingsHold
<1> QED BY <1>1, AcquisitionAlways, PTL

-----------------------------------------------------------------------------
(* The search for duplicates.                                              *)

\* A finite set that is not empty has an element above which a strict order puts none.
LEMMA Undominated ==
    ASSUME NEW R, NEW S, IsFiniteSet(S), S /= {},
           \A x \in S : <<x, x>> \notin R,
           \A x, y, z \in S : <<x, y>> \in R /\ <<y, z>> \in R => <<x, z>> \in R
    PROVE  \E x \in S : \A y \in S : <<y, x>> \notin R
<1> DEFINE Above(x) == {y \in S : <<y, x>> \in R}
           T == {U \in SUBSET S : \E x \in S : U = Above(x)}
<1>1. T \subseteq FiniteSubsetsOf(S)
  BY FS_FiniteSubsetsOfFinite
<1>2. T /= {}
  <2>1. PICK x \in S : TRUE
    OBVIOUS
  <2>2. Above(x) \in T
    OBVIOUS
  <2> QED BY <2>2
<1>3. PICK A \in T : \A B \in T : <<B, A>> \notin StrictSubsetOrdering(S)
  <2> HIDE DEF T
  <2> QED BY <1>1, <1>2, FS_StrictSubsetOrderingWellFounded, WFMin
<1>4. PICK x \in S : A = Above(x)
  OBVIOUS
<1>5. ASSUME NEW y \in S, <<y, x>> \in R
      PROVE  FALSE
  <2>1. Above(y) \subseteq Above(x)
    BY <1>5
  <2>2. y \in Above(x) /\ y \notin Above(y) /\ Above(y) \in T
    BY <1>5
  <2>3. <<Above(y), Above(x)>> \in StrictSubsetOrdering(S)
    BY <2>1, <2>2 DEF StrictSubsetOrdering
  <2> QED BY <1>3, <1>4, <2>2, <2>3
<1> QED BY <1>5

Unlike(u, rows) == \A r \in rows : Similarity(r.look, Look[u]) < Policy.duplicate
Rows(rows) == IsFiniteSet(rows) /\ \A r \in rows : r.look \in Nat /\ r.product \in Nat

LEMMA SimilarityType ==
    ASSUME NEW a \in Nat, NEW b \in Nat
    PROVE  Similarity(a, b) \in Int /\ Similarity(a, b) = Similarity(b, a)
BY DEF Similarity, Full

\* The search keeps the first rows only; none of them is a duplicate only if no row is one.
LEMMA SearchIsEnough ==
    ASSUME NEW u \in Uploads, NEW rows, Rows(rows), ~Blocking(Duplicates(u, rows))
    PROVE  Unlike(u, rows)
<1> DEFINE Sim(r) == Similarity(r.look, Look[u])
           Before(x, r) == Sim(x) > Sim(r) \/ (Sim(x) = Sim(r) /\ x.product < r.product)
           R == {pair \in rows \X rows : Before(pair[1], pair[2])}
<1>1. \A r \in rows : Sim(r) \in Int /\ r.product \in Nat
  BY SimilarityType, IdentificationAssumption DEF Rows
<1>2. CASE rows = {}
  BY <1>2 DEF Unlike
<1>3. CASE rows /= {}
  <2>1. PICK top \in rows : \A x \in rows : <<x, top>> \notin R
    <3>1. \A x \in rows : <<x, x>> \notin R
      <4> HIDE DEF Sim
      <4> QED BY <1>1
    <3>2. \A x, y, z \in rows : <<x, y>> \in R /\ <<y, z>> \in R => <<x, z>> \in R
      <4> HIDE DEF Sim
      <4> QED BY <1>1
    <3> HIDE DEF R
    <3> QED BY <1>3, <3>1, <3>2, Undominated DEF Rows
  <2>2. \A x \in rows : ~Before(x, top)
    BY <2>1
  <2>3. {x \in rows : Before(x, top)} = {}
    BY <2>2
  <2>4. top \in Ranked(u, rows)
    <3>1. Cardinality({x \in rows : Before(x, top)}) < SearchLimit
      <4>1. Cardinality({x \in rows : Before(x, top)}) = 0
        BY <2>3, FS_EmptySet, Zenon
      <4> HIDE DEF Before
      <4> QED BY <4>1, IdentificationAssumption
    <3> QED BY <3>1 DEF Ranked
  <2>5. [product |-> top.product, similarity |-> Sim(top)] \in Duplicates(u, rows)
    BY <2>4 DEF Duplicates
  <2>6. ~(Sim(top) >= Policy.duplicate)
    BY <2>5 DEF Blocking
  <2>7. \A r \in rows : Sim(r) < Policy.duplicate
    <3>1. Policy.duplicate \in Int
      BY IdentificationAssumption
    <3> HIDE DEF Sim
    <3> QED BY <1>1, <2>2, <2>6, <3>1
  <2> QED BY <2>7 DEF Unlike
<1> QED BY <1>2, <1>3

-----------------------------------------------------------------------------
(* Product identification.                                                 *)

Pending == "identified-pending-confirmation"

\* What is proposed, and what was stored as identified, resembled nothing the search could see.
IdentifyingOK ==
    /\ identifying = [c \in Identifiers |-> identifying[c]]
    /\ \A c \in Identifiers : Identified(c) => identifying[c].image \in Uploads
    /\ \A c \in Identifiers : identifying[c].at = "propose" =>
         Unlike(identifying[c].image, identifying[c].rows)

StoredOK ==
    /\ \A i \in identifications : i.image \in Uploads
    /\ \A s \in searches : s.identification.status = Pending => Unlike(s.identification.image, s.rows)

FingerprintsOK ==
    /\ IsFiniteSet(fingerprints)
    /\ \A f \in fingerprints :
         /\ f.product \in Products /\ f.look = Look[f.identification.image]
         /\ f.identification \in identifications /\ f.identification.status = Pending

IdentificationInv == IdentifyingOK /\ StoredOK /\ FingerprintsOK /\ ConfirmationIsWhole

IdentificationStep ==
    \/ \E c \in Identifiers : Identify(c) \/ IdentifyThrows(c)
    \/ Review
    \/ UNCHANGED identificationVars

LEMMA NextIdentification ==
    ASSUME [Next]_vars
    PROVE  IdentificationStep
<1>1. ASSUME Beginning
      PROVE  IdentificationStep
  BY <1>1, IntakeAssumption DEF Beginning, IdentificationStep, Identify
<1> QED BY <1>1 DEF Next, vars, IdentificationStep, Photographing, Identifying, Acquiring, Waiting

LEMMA FingerprintRows ==
    ASSUME FingerprintsOK, StoredOK
    PROVE  Rows(fingerprints)
BY IdentificationAssumption DEF FingerprintsOK, StoredOK, Rows

\* Only what is neither stale nor a duplicate is stored as identified.
LEMMA PendingMeansUnblocked ==
    ASSUME NEW verifiedAt, NEW asOf, NEW proposal, NEW duplicates,
           EvaluatedStatus(verifiedAt, asOf, proposal, duplicates) = Pending
    PROVE  ~Blocking(duplicates)
BY DEF EvaluatedStatus, Pending

LEMMA StoreKept ==
    ASSUME IdentificationInv, NEW c \in Identifiers, Identified(c),
           NEW asOf, NEW proposal, NEW duplicates, NEW rows,
           Store(c, asOf, proposal, duplicates, rows),
           EvaluatedStatus(identifying[c].verifiedAt, asOf, proposal, duplicates) = Pending
             => Unlike(identifying[c].image, rows)
    PROVE  IdentificationInv'
<1> DEFINE artifact == [image |-> identifying[c].image, at |-> asOf, proposal |-> proposal,
                        duplicates |-> duplicates,
                        status |-> EvaluatedStatus(identifying[c].verifiedAt, asOf, proposal, duplicates)]
           search == [identification |-> artifact, rows |-> rows]
<1>1. /\ identifications' = identifications \union {artifact}
      /\ searches' = searches \union {search}
      /\ identifying' = [identifying EXCEPT ![c] = NotIdentifying]
      /\ UNCHANGED <<reviews, fingerprints>>
  BY DEF Store
<1>2. IdentifyingOK'
  BY <1>1 DEF IdentificationInv, IdentifyingOK, Identified, NotIdentifying
<1>3. artifact.image \in Uploads
  BY DEF IdentificationInv, IdentifyingOK
<1>4. \A s \in searches' : s \in searches \/ s = search
  BY <1>1
<1>5. \A i \in identifications' : i \in identifications \/ i = artifact
  BY <1>1
<1>6. search.identification.status = Pending =>
        Unlike(search.identification.image, search.rows)
  OBVIOUS
<1>7. StoredOK'
  <2>1. \A i \in identifications' : i.image \in Uploads
    BY <1>3, <1>5 DEF IdentificationInv, StoredOK
  <2>2. \A s \in searches' : s.identification.status = Pending => Unlike(s.identification.image, s.rows)
    <3> HIDE DEF search
    <3> QED BY <1>4, <1>6 DEF IdentificationInv, StoredOK
  <2> QED BY <2>1, <2>2 DEF StoredOK, Unlike
<1>8. FingerprintsOK'
  BY <1>1 DEF IdentificationInv, FingerprintsOK
<1>9. ConfirmationIsWhole'
  BY <1>1 DEF IdentificationInv, ConfirmationIsWhole
<1> QED BY <1>2, <1>7, <1>8, <1>9 DEF IdentificationInv

LEMMA IdentificationKept ==
    ASSUME IdentificationInv, IdentificationStep
    PROVE  IdentificationInv'
<1>1. ASSUME NEW c \in Identifiers, NEW u \in Uploads, StartIdentify(c, u)
      PROVE  IdentificationInv'
  <2>1. IdentifyingOK'
    BY <1>1 DEF StartIdentify, IdentificationInv, IdentifyingOK, Identified
  <2> QED BY <1>1, <2>1
          DEF StartIdentify, IdentificationInv, StoredOK, FingerprintsOK, ConfirmationIsWhole
<1>2. ASSUME NEW c \in Identifiers, ComputeFingerprint(c)
      PROVE  IdentificationInv'
  <2>1. CASE StaleImage(identifying[c].verifiedAt, now)
    <3>1. Identified(c) /\ Store(c, now, {}, {}, {}) /\ Unlike(identifying[c].image, {})
      BY <1>2, <2>1 DEF ComputeFingerprint, Identified, Unlike
    <3> QED BY <3>1, StoreKept
  <2>2. CASE ~StaleImage(identifying[c].verifiedAt, now)
    <3>1. IdentifyingOK'
      BY <1>2, <2>2 DEF ComputeFingerprint, IdentificationInv, IdentifyingOK, Identified
    <3> QED BY <1>2, <2>2, <3>1
            DEF ComputeFingerprint, IdentificationInv, StoredOK, FingerprintsOK, ConfirmationIsWhole
  <2> QED BY <2>1, <2>2
<1>3. ASSUME NEW c \in Identifiers, SearchDuplicates(c)
      PROVE  IdentificationInv'
  <2> DEFINE u == identifying[c].image
             found == Duplicates(u, fingerprints)
  <2>1. Identified(c) /\ u \in Uploads
    BY <1>3 DEF SearchDuplicates, Identified, IdentificationInv, IdentifyingOK
  <2>2. CASE Blocking(found)
    <3>1. Store(c, identifying[c].asOf, {}, found, fingerprints)
      BY <1>3, <2>2 DEF SearchDuplicates
    <3>2. EvaluatedStatus(identifying[c].verifiedAt, identifying[c].asOf, {}, found) /= Pending
      BY <2>2, PendingMeansUnblocked
    <3> HIDE DEF found
    <3> QED BY <2>1, <3>1, <3>2, StoreKept
  <2>3. CASE ~Blocking(found)
    <3>1. Unlike(u, fingerprints)
      BY <2>1, <2>3, SearchIsEnough, FingerprintRows DEF IdentificationInv
    <3>2. IdentifyingOK'
      BY <1>3, <2>1, <2>3, <3>1 DEF SearchDuplicates, IdentificationInv, IdentifyingOK, Identified, Unlike
    <3> QED BY <1>3, <2>3, <3>2
            DEF SearchDuplicates, IdentificationInv, StoredOK, FingerprintsOK, ConfirmationIsWhole
  <2> QED BY <2>2, <2>3
<1>4. ASSUME NEW c \in Identifiers, NEW proposal \in Proposals, ProposeCandidates(c, proposal)
      PROVE  IdentificationInv'
  <2>1. /\ Identified(c) /\ Unlike(identifying[c].image, identifying[c].rows)
        /\ Store(c, identifying[c].asOf, proposal, identifying[c].duplicates, identifying[c].rows)
    BY <1>4 DEF ProposeCandidates, Identified, IdentificationInv, IdentifyingOK
  <2> QED BY <2>1, StoreKept
<1>5. ASSUME NEW c \in Identifiers, IdentifyThrows(c)
      PROVE  IdentificationInv'
  BY <1>5 DEF IdentifyThrows, IdentificationInv, IdentifyingOK, Identified, NotIdentifying, StoredOK,
              FingerprintsOK, ConfirmationIsWhole
<1>6. ASSUME NEW i \in identifications, Reject(i)
      PROVE  IdentificationInv'
  <2> DEFINE review == [identification |-> i, decision |-> "rejected", product |-> NoUpload]
  <2>1. \A r \in reviews' : r \in reviews \/ r = review
    BY <1>6 DEF Reject
  <2>2. \A r \in reviews : r.identification /= i
    BY <1>6 DEF Reject, Reviewable
  <2>3. {r \in reviews' : r.decision = "confirmed"} = {r \in reviews : r.decision = "confirmed"}
    BY <1>6 DEF Reject
  <2>4. ConfirmationIsWhole'
    BY <1>6, <2>1, <2>2, <2>3 DEF Reject, IdentificationInv, ConfirmationIsWhole, ConfirmedAs
  <2> QED BY <1>6, <2>4 DEF Reject, IdentificationInv, IdentifyingOK, Identified, StoredOK, FingerprintsOK
<1>7. ASSUME NEW i \in identifications, NEW p \in Products, Confirm(i, p)
      PROVE  IdentificationInv'
  <2> DEFINE print == Fingerprint(i, p)
             review == ConfirmedAs(i, p)
  <2>1. /\ reviews' = reviews \union {review} /\ fingerprints' = fingerprints \union {print}
        /\ UNCHANGED <<identifying, identifications, searches>>
    BY <1>7 DEF Confirm
  <2>2. /\ \A r \in reviews : r.identification /= i
        /\ \A f \in fingerprints : f.product /= p
        /\ i.status = Pending
    BY <1>7 DEF Confirm, Reviewable, Pending
  <2>3. print.product = p /\ print.look = Look[i.image] /\ print.identification = i
    BY DEF Fingerprint
  <2>4. review.identification = i /\ review.decision = "confirmed"
        /\ review = ConfirmedAs(print.identification, print.product)
    BY <2>3 DEF ConfirmedAs
  <2>5. FingerprintsOK'
    <3>1. IsFiniteSet(fingerprints')
      BY <2>1, FS_AddElement DEF IdentificationInv, FingerprintsOK
    <3>2. \A f \in fingerprints' : f \in fingerprints \/ f = print
      BY <2>1
    <3> HIDE DEF print
    <3> QED BY <2>1, <2>2, <2>3, <3>1, <3>2 DEF IdentificationInv, FingerprintsOK
  <2>6. ConfirmationIsWhole'
    <3> HIDE DEF print, review
    <3>1. \A r, s \in reviews' : r.identification = s.identification => r = s
      BY <2>1, <2>2, <2>4 DEF IdentificationInv, ConfirmationIsWhole
    <3>2. \A f, g \in fingerprints' : f.product = g.product => f = g
      BY <2>1, <2>2, <2>3 DEF IdentificationInv, ConfirmationIsWhole
    <3>3. {r \in reviews' : r.decision = "confirmed"}
            = {r \in reviews : r.decision = "confirmed"} \union {review}
      BY <2>1, <2>4
    <3>4. {ConfirmedAs(f.identification, f.product) : f \in fingerprints'}
            = {ConfirmedAs(f.identification, f.product) : f \in fingerprints} \union {review}
      BY <2>1, <2>4
    <3> QED BY <3>1, <3>2, <3>3, <3>4 DEF IdentificationInv, ConfirmationIsWhole
  <2> QED BY <2>1, <2>5, <2>6 DEF IdentificationInv, IdentifyingOK, Identified, StoredOK
<1>8. ASSUME UNCHANGED identificationVars
      PROVE  IdentificationInv'
  BY <1>8 DEF identificationVars, IdentificationInv, IdentifyingOK, Identified, StoredOK,
              FingerprintsOK, ConfirmationIsWhole
<1> QED BY <1>1, <1>2, <1>3, <1>4, <1>5, <1>6, <1>7, <1>8 DEF IdentificationStep, Identify, Review

LEMMA IdentificationAlways == Spec => []IdentificationInv
<1>1. Init => IdentificationInv
  BY FS_EmptySet DEF Init, IdentificationInit, NotIdentifying, IdentificationInv, IdentifyingOK,
                     Identified, StoredOK, FingerprintsOK, ConfirmationIsWhole
<1>2. IdentificationInv /\ [Next]_vars => IdentificationInv'
  BY NextIdentification, IdentificationKept
<1> QED BY <1>1, <1>2, PTL DEF Spec

\* A confirmation is recorded whole or not at all, whatever the order of reviews and calls.
\* (saveReview inserts the review before it knows whether the fingerprint is refused.)
THEOREM ConfirmedWhole == Spec => []ConfirmationIsWhole
<1>1. IdentificationInv => ConfirmationIsWhole
  BY DEF IdentificationInv
<1> QED BY <1>1, IdentificationAlways, PTL

\* A duplicate that a search could have seen was found by it, although the search returns the
\* first SearchLimit rows only.  (evaluateProductIdentification looks at what the search returned.)
THEOREM DuplicatesAreFound == Spec => []DuplicatesWereUnseen
<1>1. ASSUME IdentificationInv
      PROVE  DuplicatesWereUnseen
  <2> SUFFICES ASSUME NEW f \in fingerprints, NEW g \in fingerprints,
                      Similarity(f.look, g.look) >= Policy.duplicate,
                      NEW s \in searches, s.identification = f.identification, g \in s.rows
               PROVE  FALSE
    BY DEF DuplicatesWereUnseen
  <2>1. /\ f.identification.status = Pending /\ f.look = Look[f.identification.image]
        /\ f.identification.image \in Uploads /\ g.identification.image \in Uploads
        /\ g.look = Look[g.identification.image]
    BY <1>1 DEF IdentificationInv, FingerprintsOK, StoredOK
  <2>2. f.look \in Nat /\ g.look \in Nat /\ Policy.duplicate \in Int
    BY <2>1, IdentificationAssumption
  <2>3. Similarity(g.look, f.look) < Policy.duplicate
    BY <1>1, <2>1 DEF IdentificationInv, StoredOK, Unlike
  <2> QED BY <2>2, <2>3, SimilarityType
<1> QED BY <1>1, IdentificationAlways, PTL

-----------------------------------------------------------------------------
(* What rests on the images.                                               *)

AboutOfIdentification(u) ==
    \/ \E i \in identifications : i.image = u
    \/ \E c \in Identifiers : Identified(c) /\ identifying[c].image = u

AboutOfAcquisition(u) ==
    \/ \E k \in Uploads \X Contents : candidates[k] /= NoUpload /\ k[1] = u
    \/ \E d \in Discoverers : discovering[d] /= NoUpload /\ discovering[d].image = u

RestsOnVerified ==
    \A u : AboutOfIdentification(u) \/ AboutOfAcquisition(u) => u \in Uploads /\ IsVerified(u)

\* No step takes up an image that is not verified.
LEMMA IdentificationsBeginVerified ==
    ASSUME IdentificationInv, IdentificationStep, NEW u, AboutOfIdentification(u)'
    PROVE  AboutOfIdentification(u) \/ (u \in Uploads /\ IsVerified(u))
<1> USE DEF AboutOfIdentification, Identified
<1>1. ASSUME NEW c \in Identifiers, NEW x \in Uploads, StartIdentify(c, x)
      PROVE  AboutOfIdentification(u) \/ (u \in Uploads /\ IsVerified(u))
  BY <1>1 DEF StartIdentify, IdentificationInv, IdentifyingOK
<1>2. ASSUME NEW c \in Identifiers, Identified(c), NEW asOf, NEW proposal, NEW duplicates, NEW rows,
             Store(c, asOf, proposal, duplicates, rows)
      PROVE  AboutOfIdentification(u)
  BY <1>2 DEF Store, IdentificationInv, IdentifyingOK, NotIdentifying
<1>3. ASSUME NEW c \in Identifiers, ComputeFingerprint(c)
      PROVE  AboutOfIdentification(u)
  <2>1. CASE StaleImage(identifying[c].verifiedAt, now)
    BY <1>2, <1>3, <2>1 DEF ComputeFingerprint
  <2>2. CASE ~StaleImage(identifying[c].verifiedAt, now)
    BY <1>3, <2>2 DEF ComputeFingerprint, IdentificationInv, IdentifyingOK
  <2> QED BY <2>1, <2>2
<1>4. ASSUME NEW c \in Identifiers, SearchDuplicates(c)
      PROVE  AboutOfIdentification(u)
  <2>1. CASE Blocking(Duplicates(identifying[c].image, fingerprints))
    BY <1>2, <1>4, <2>1 DEF SearchDuplicates
  <2>2. CASE ~Blocking(Duplicates(identifying[c].image, fingerprints))
    BY <1>4, <2>2 DEF SearchDuplicates, IdentificationInv, IdentifyingOK
  <2> QED BY <2>1, <2>2
<1>5. ASSUME NEW c \in Identifiers, NEW proposal \in Proposals, ProposeCandidates(c, proposal)
      PROVE  AboutOfIdentification(u)
  BY <1>2, <1>5 DEF ProposeCandidates
<1>6. ASSUME NEW c \in Identifiers, IdentifyThrows(c)
      PROVE  AboutOfIdentification(u)
  BY <1>6 DEF IdentifyThrows, IdentificationInv, IdentifyingOK, NotIdentifying
<1>7. ASSUME Review \/ UNCHANGED identificationVars
      PROVE  AboutOfIdentification(u)
  BY <1>7 DEF Review, Reject, Confirm, identificationVars
<1> QED BY <1>1, <1>3, <1>4, <1>5, <1>6, <1>7 DEF IdentificationStep, Identify

LEMMA AcquisitionsBeginVerified ==
    ASSUME AcquisitionInv, AcquisitionStep, NEW u, AboutOfAcquisition(u)'
    PROVE  AboutOfAcquisition(u) \/ (u \in Uploads /\ IsVerified(u))
<1> USE NoRowAssumption DEF AboutOfAcquisition
<1>1. ASSUME NEW d \in Discoverers, NEW x \in Uploads, StartDiscover(d, x)
      PROVE  AboutOfAcquisition(u) \/ (u \in Uploads /\ IsVerified(u))
  BY <1>1 DEF StartDiscover, AcquisitionInv, AcquisitionTypeOK
<1>2. ASSUME NEW d \in Discoverers, NEW answer \in Answers, SearchCatalogs(d, answer)
      PROVE  AboutOfAcquisition(u)
  BY <1>2 DEF SearchCatalogs, AcquisitionInv, AcquisitionTypeOK, Discoveries
<1>3. ASSUME NEW d \in Discoverers, discovering[d] /= NoUpload, discovering[d].left /= NoUpload,
             NEW f \in discovering[d].left, SaveCandidate(d, f)
      PROVE  AboutOfAcquisition(u)
  <2> DEFINE key == <<discovering[d].image, f.content>>
  <2>1. discovering[d] \in Discoveries /\ f \in Findings /\ key \in Uploads \X Contents
    BY <1>3 DEF AcquisitionInv, AcquisitionTypeOK, Discoveries, Findings
  <2>2. \A k \in Uploads \X Contents :
            candidates'[k] /= NoUpload => candidates[k] /= NoUpload \/ k = key
    BY <1>3, <2>1 DEF SaveCandidate, AcquisitionInv, AcquisitionTypeOK
  <2>3. \A x \in Discoverers : discovering'[x] /= NoUpload =>
            discovering[x] /= NoUpload /\ discovering'[x].image = discovering[x].image
    BY <1>3, <2>1 DEF SaveCandidate, AcquisitionInv, AcquisitionTypeOK, Discoveries
  <2> QED BY <1>3, <2>2, <2>3
<1>4. ASSUME NEW d \in Discoverers, EndDiscover(d) \/ DiscoverThrows(d)
      PROVE  AboutOfAcquisition(u)
  BY <1>4 DEF EndDiscover, DiscoverThrows, AcquisitionInv, AcquisitionTypeOK
<1>5. ASSUME NEW r \in Reviewers, ReviewCandidate(r)
      PROVE  AboutOfAcquisition(u)
  <2>1. ASSUME NEW k \in Uploads \X Contents, ReadCandidate(r, k)
        PROVE  AboutOfAcquisition(u)
    BY <2>1 DEF ReadCandidate
  <2>2. ASSUME NEW decision \in Decisions, Decide(r, decision)
        PROVE  AboutOfAcquisition(u)
    <3>1. \A k \in Uploads \X Contents : candidates'[k] /= NoUpload => candidates[k] /= NoUpload
      BY <2>2 DEF Decide, NeedsReview, AcquisitionInv, AcquisitionTypeOK
    <3> QED BY <2>2, <3>1 DEF Decide
  <2> QED BY <1>5, <2>1, <2>2 DEF ReviewCandidate
<1>6. ASSUME UNCHANGED acquisitionVars
      PROVE  AboutOfAcquisition(u)
  BY <1>6 DEF acquisitionVars
<1> QED BY <1>1, <1>2, <1>3, <1>4, <1>5, <1>6 DEF AcquisitionStep, Discover

LEMMA RestKept ==
    ASSUME RestsOnVerified, ImagesInv, IdentificationInv, AcquisitionInv, [Next]_vars
    PROVE  RestsOnVerified'
<1>1. \A u \in Uploads : IsVerified(u) => IsVerified(u)'
  BY NextImages, ImagesKept
<1>2. ASSUME NEW u, AboutOfIdentification(u)'
      PROVE  u \in Uploads /\ IsVerified(u)
  BY <1>2, NextIdentification, IdentificationsBeginVerified DEF RestsOnVerified
<1>3. ASSUME NEW u, AboutOfAcquisition(u)'
      PROVE  u \in Uploads /\ IsVerified(u)
  BY <1>3, NextAcquisition, AcquisitionsBeginVerified DEF RestsOnVerified
<1> QED BY <1>1, <1>2, <1>3 DEF RestsOnVerified

\* Whatever is identified or acquired, stored or under way, is about an image that the storage
\* holds as it was declared: nothing begins on another, and none that is verified is ever refused.
\* (identify and discover read the image once, when they begin.)
THEOREM NothingRestsOnLess == Spec => []RestsOnWholeImages
<1>1. Init => RestsOnVerified
  BY DEF Init, IdentificationInit, AcquisitionInit, NotIdentifying, RestsOnVerified,
         AboutOfIdentification, AboutOfAcquisition, Identified
<1>2. RestsOnVerified /\ ImagesInv /\ IdentificationInv /\ AcquisitionInv /\ [Next]_vars
        => RestsOnVerified'
  BY RestKept
<1>3. ASSUME RestsOnVerified, ImagesInv
      PROVE  RestsOnWholeImages
  <2> SUFFICES ASSUME NEW u, AboutOfIdentification(u) \/ AboutOfAcquisition(u)
               PROVE  /\ uploads[u].status = "verified" /\ u \in objects \intersect Honest
                      /\ uploads[u].verifiedAt < uploads[u].expires
    BY DEF RestsOnWholeImages, AboutOfIdentification, AboutOfAcquisition, Begun
  <2> QED BY <1>3 DEF RestsOnVerified, ImagesInv, VerifiedAreWhole, IsVerified
<1> QED BY <1>1, <1>2, <1>3, ImagesAlways, IdentificationAlways, AcquisitionAlways, PTL DEF Spec

\* Every row, call and answer is of the kind the code gives it, and incidents keep to their bound.
THEOREM TypeCorrect == Spec => []TypeOK
<1> DEFINE PartOK == part \in {"uploads", "identification", "acquisition"} /\ incidents \in 0..MaxIncidents
<1>1. Init => PartOK
  BY IncidentsAssumption DEF Init
<1>2. ASSUME PartOK, [Next]_vars
      PROVE  PartOK'
  <2>1. part' = part /\ (UNCHANGED incidents \/ Incident)
    BY <1>2 DEF Next, vars, Photographing, Beginning, Identifying, Acquiring, Waiting, VerifyThrows,
                IdentifyThrows, DiscoverThrows
  <2> QED BY <1>2, <2>1, IncidentsAssumption DEF Incident
<1>3. PartOK /\ ImagesInv /\ AcquisitionInv => TypeOK
  BY DEF TypeOK, ImagesInv, AcquisitionInv
<1> QED BY <1>1, <1>2, <1>3, ImagesAlways, AcquisitionAlways, PTL DEF Spec
=============================================================================
