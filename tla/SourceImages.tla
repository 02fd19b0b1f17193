---------------------------- MODULE SourceImages ----------------------------
(***************************************************************************)
(* Source image uploads.  A client asks for an upload, puts the object     *)
(* into the storage with a signed URL and asks the server to verify it:    *)
(* the server reads the row and the clock, inspects the object, and        *)
(* records its verdict.  Any number of verifications of one upload may be  *)
(* under way; the database decides between their verdicts.                 *)
(*                                                                         *)
(* The signed URL fixes the checksum and the content type, so the object   *)
(* of an upload either is the one its request declared or never will be.   *)
(* Another account's use of the same id is refused and left out.           *)
(***************************************************************************)
EXTENDS Integers, FiniteSets, Incidents

CONSTANTS
    Uploads,       \* source image uploads, by the id the client chose
    Honest,        \* those whose object matches its declared size, type and checksum
    Verifiers,     \* calls of POST source-images/:id/complete
    UploadExpiry,  \* uploadExpiresInSeconds
    MaxTime,       \* bound: the clock stops here
    NoUpload       \* no row, and no call under way

ASSUME UploadsAssumption == Honest \subseteq Uploads /\ UploadExpiry \in Nat \ {0} /\ MaxTime \in Nat

Verdicts == {"verified", "expired", "rejected"}
Times == 0..MaxTime
UploadRows ==
    [status: {"requested"} \union Verdicts, expires: Nat, verifiedAt: {NoUpload} \union Times]
Verifications == [upload: Uploads, at: Times, verdict: {NoUpload} \union Verdicts]

ASSUME NoUploadAssumption ==
    NoUpload \notin Verdicts /\ NoUpload \notin UploadRows /\ NoUpload \notin Verifications

VARIABLES
    now,           \* the clock of the server
    uploads,       \* source_image_uploads
    objects,       \* the uploads whose object the storage holds
    verifying,     \* what each verification has read and found
    toldVerified   \* every answer that said verified: the upload and its time

imageVars == <<now, uploads, objects, verifying, toldVerified>>

ImagesTypeOK ==
    /\ now \in Times
    /\ uploads \in [Uploads -> {NoUpload} \union UploadRows]
    /\ objects \subseteq Uploads
    /\ verifying \in [Verifiers -> {NoUpload} \union Verifications]
    /\ toldVerified \subseteq [upload: Uploads, at: Times]

ImagesInit ==
    /\ now = 0 /\ objects = {} /\ toldVerified = {}
    /\ uploads = [u \in Uploads |-> NoUpload]
    /\ verifying = [v \in Verifiers |-> NoUpload]

\* Every image whose client was honest has been uploaded and verified at once.
VerifiedInit ==
    /\ now = 0 /\ objects = Honest /\ toldVerified = [upload: Honest, at: {0}]
    /\ uploads = [u \in Uploads |-> IF u \notin Honest THEN NoUpload ELSE
           [status |-> "verified", expires |-> UploadExpiry, verifiedAt |-> 0]]
    /\ verifying = [v \in Verifiers |-> NoUpload]

Tick == now < MaxTime /\ now' = now + 1 /\ UNCHANGED <<uploads, objects, verifying, toldVerified>>

-----------------------------------------------------------------------------
\* FAULTY variant of IsVerified: whatever the server has not refused.
IsVerifiedUnlessRefused(u) == uploads[u] /= NoUpload /\ uploads[u].status \notin {"expired", "rejected"}
IsVerified(u) == uploads[u] /= NoUpload /\ uploads[u].status = "verified"

\* A repeated request finds its id taken, with other dates, and is refused.
RequestUpload(u) ==
    /\ uploads[u] = NoUpload
    /\ uploads' = [uploads EXCEPT ![u] =
           [status |-> "requested", expires |-> now + UploadExpiry, verifiedAt |-> NoUpload]]
    /\ UNCHANGED <<now, objects, verifying, toldVerified>>

\* The client uses the signed URL before it expires.
PutObject(u) ==
    /\ uploads[u] /= NoUpload /\ u \notin objects
    /\ now < uploads[u].expires
    /\ objects' = objects \union {u}
    /\ UNCHANGED <<now, uploads, verifying, toldVerified>>

ReadUpload(v, u) ==
    /\ verifying[v] = NoUpload /\ uploads[u] /= NoUpload
    /\ IF IsVerified(u)
       THEN /\ toldVerified' = toldVerified \union {[upload |-> u, at |-> uploads[u].verifiedAt]}
            /\ UNCHANGED verifying
       ELSE /\ verifying' = [verifying EXCEPT ![v] =
                   [upload |-> u, at |-> now,
                    verdict |-> IF uploads[u].expires <= now THEN "expired" ELSE NoUpload]]
            /\ UNCHANGED toldVerified
    /\ UNCHANGED <<now, uploads, objects>>

Observed(u) == IF u \in objects \intersect Honest THEN "verified" ELSE "rejected"

InspectObject(v) ==
    /\ verifying[v] /= NoUpload /\ verifying[v].verdict = NoUpload
    /\ verifying' = [verifying EXCEPT ![v].verdict = Observed(verifying[v].upload)]
    /\ UNCHANGED <<now, uploads, objects, toldVerified>>

\* FAULTY variant of MayTransition: the last verdict wins.
MayTransitionAgain(u) == uploads[u] /= NoUpload
MayTransition(u) == uploads[u] /= NoUpload /\ uploads[u].status = "requested"

\* A verdict that comes second is a transition conflict, and the call fails.
SaveVerdict(v) ==
    /\ verifying[v] /= NoUpload /\ verifying[v].verdict /= NoUpload
    /\ verifying' = [verifying EXCEPT ![v] = NoUpload]
    /\ LET u == verifying[v].upload
           verified == verifying[v].verdict = "verified"
           row == [uploads[u] EXCEPT !.status = verifying[v].verdict,
                                     !.verifiedAt = IF verified THEN verifying[v].at ELSE @]
       IN IF MayTransition(u)
          THEN /\ uploads' = [uploads EXCEPT ![u] = row]
               /\ toldVerified' = toldVerified \union
                      {[upload |-> x, at |-> verifying[v].at] : x \in {y \in {u} : verified}}
          ELSE UNCHANGED <<uploads, toldVerified>>
    /\ UNCHANGED <<now, objects>>

\* The storage or the database throws, or the process stops, before the verdict is saved.
\* (One that is saved with its answer lost is told to nobody, and asks nothing more.)
VerifyThrows(v) ==
    /\ verifying[v] /= NoUpload /\ Incident
    /\ verifying' = [verifying EXCEPT ![v] = NoUpload]
    /\ UNCHANGED <<now, uploads, objects, toldVerified>>

Uploading(u) == RequestUpload(u) \/ PutObject(u) \/ \E v \in Verifiers : ReadUpload(v, u)
=============================================================================
