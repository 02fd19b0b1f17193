------------------------------- MODULE Intake -------------------------------
(***************************************************************************)
(* The way of a product photo into the system: its upload, and what rests  *)
(* on the verified image, the identification of the product and the        *)
(* acquisition of candidates for it.  A behaviour follows the uploads and  *)
(* the calls that begin on them, or one of the two from images that are    *)
(* verified: from there they share nothing but the images, which never     *)
(* change again.                                                           *)
(***************************************************************************)
EXTENDS ProductIdentification, CatalogAcquisition

CONSTANT Raced     \* the uploads of the behaviours that follow uploads

ASSUME IntakeAssumption == Raced \subseteq Uploads

VARIABLE part      \* what the behaviour follows

vars == <<part, incidents, imageVars, identificationVars, acquisitionVars>>

TypeOK ==
    /\ part \in {"uploads", "identification", "acquisition"}
    /\ incidents \in 0..MaxIncidents
    /\ ImagesTypeOK /\ AcquisitionTypeOK

Init ==
    /\ part \in {"uploads", "identification", "acquisition"}
    /\ incidents = 0
    /\ IF part = "uploads" THEN ImagesInit ELSE VerifiedInit
    /\ IdentificationInit /\ AcquisitionInit

Photographing ==
    /\ part = "uploads"
    /\ \/ (\E u \in Raced : Uploading(u)) /\ UNCHANGED incidents
       \/ (\E v \in Verifiers : InspectObject(v) \/ SaveVerdict(v)) /\ UNCHANGED incidents
       \/ \E v \in Verifiers : VerifyThrows(v)
    /\ UNCHANGED <<part, identificationVars, acquisitionVars>>

\* The calls that use an image begin on what they read of it.
Beginning ==
    /\ part = "uploads" /\ UNCHANGED <<part, incidents, imageVars>>
    /\ \E u \in Raced :
           \/ (\E c \in Identifiers : StartIdentify(c, u)) /\ UNCHANGED acquisitionVars
           \/ (\E d \in Discoverers : StartDiscover(d, u)) /\ UNCHANGED identificationVars

Identifying ==
    /\ part = "identification" /\ UNCHANGED <<part, imageVars, acquisitionVars>>
    /\ \/ ((\E c \in Identifiers : Identify(c)) \/ Review) /\ UNCHANGED incidents
       \/ \E c \in Identifiers : IdentifyThrows(c)

Acquiring ==
    /\ part = "acquisition" /\ UNCHANGED <<part, imageVars, identificationVars>>
    /\ \/ /\ \/ \E d \in Discoverers : Discover(d)
             \/ \E r \in Reviewers : ReviewCandidate(r)
          /\ UNCHANGED incidents
       \/ \E d \in Discoverers : DiscoverThrows(d)

Waiting == Tick /\ UNCHANGED <<part, incidents, identificationVars, acquisitionVars>>

Next == Photographing \/ Beginning \/ Identifying \/ Acquiring \/ Waiting

Spec == Init /\ [][Next]_vars

-----------------------------------------------------------------------------
\* Whoever was told that an upload is verified may rely on it: the row says so for good, at the
\* time that was told, however many verifications of it race.  (verifyUpload decides on a row
\* it read before it inspected the object.)
VerifiedAnswersHold ==
    \A told \in toldVerified :
        /\ uploads[told.upload].status = "verified"
        /\ uploads[told.upload].verifiedAt = told.at

\* Every identification and every candidate, stored or under way, is about an image that the
\* storage holds as its client declared it, uploaded in time and never refused.
RestsOnWholeImages ==
    LET about ==
            {i.image : i \in identifications}
            \union {identifying[c].image : c \in Begun}
            \union {k[1] : k \in {x \in Uploads \X Contents : candidates[x] /= NoUpload}}
            \union {discovering[d].image : d \in {x \in Discoverers : discovering[x] /= NoUpload}}
    IN \A u \in about :
           /\ uploads[u].status = "verified" /\ u \in objects \intersect Honest
           /\ uploads[u].verifiedAt < uploads[u].expires
=============================================================================
