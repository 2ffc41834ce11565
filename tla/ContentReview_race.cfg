\* One account, one run: every interleaving of its operation thread with
\* administrators, a birthdate change, a birthday, expiry and crashes.
SPECIFICATION Spec
CONSTANTS
    kid = kid
    r1 = r1
    d1 = d1
    NoImage = NoImage
    Owners = {kid}
    Runs = {r1}
    OwnerOf <- MCOwnerOf
    Digests = {d1}
    MaxRevision = 1
    ReviewLimit = 1
INVARIANTS
    TypeOK
    ReadableIsReviewed
    StoredAfterBothDecisions
    StaleNeverApproved
    BytesOnlyWhileNeeded
PROPERTIES
    EndedStaysEnded
    ApprovalPromise
