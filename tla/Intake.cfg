SPECIFICATION Spec
CONSTANTS
    u1 = u1
    u2 = u2
    u3 = u3
    Uploads = {u1, u2, u3}
    Raced = {u2, u3}
    Honest = {u1, u2}
    Verifiers = {v1, v2}
    Identifiers = {c1, c2}
    Discoverers = {d1, d2}
    Reviewers = {r1, r2}
    Look <- Looks
    Products = {1, 2, 3}
    SearchLimit = 1
    Policy <- IdentificationPolicy
    Proposals <- InstanceProposals
    MaxIdentifications = 3
    Contents = {1, 2}
    EvidenceIds = {1, 2}
    Answers <- InstanceAnswers
    EvidenceAge = 1
    MaxDiscoveries = 2
    UploadExpiry = 1
    MaxTime = 1
    MaxIncidents = 1
    NoUpload = NoUpload
INVARIANTS
    VerifiedAnswersHold
    RestsOnWholeImages
    DuplicatesWereUnseen
    ConfirmationIsWhole
    RulingsHold
CHECK_DEADLOCK FALSE
