--------------------------- MODULE ContentReview ---------------------------
(***************************************************************************)
(* Age-bound review of generated images: server/content_protection.py,     *)
(* the birthdate half of server/auth_store.py, and the image path of       *)
(* WorkflowJobs.perform and save_bytes (workflow/jobs.py).                 *)
(*                                                                         *)
(* Every run has at most one operation in flight, executed by a thread of  *)
(* the tool runner; call[r] is that thread's program counter and locals.   *)
(* Each read of the account store, each SQLite transaction and the GPU job *)
(* is a step of its own, so that administrators, birthdays, expiry and the *)
(* other runs interleave with them as they can in the code.                *)
(*                                                                         *)
(* The module is open: any run may start an operation at any time, and     *)
(* finish and a process crash may happen at any time.  WorkflowJobs.tla    *)
(* closes it with the job service and is checked to implement it.          *)
(***************************************************************************)
EXTENDS Naturals, FiniteSets

CONSTANTS
    Owners,        \* account ids
    Runs,          \* workflow run ids (uuid4: never used twice)
    OwnerOf,       \* the account each run belongs to
    Digests,       \* digests of (prompt, parameters, server)
    MaxRevision,   \* bound on birthdate changes of one account
    ReviewLimit,   \* open reviews allowed at once (32 in the code)
    NoImage        \* NULL in the image column

Revision == 0..MaxRevision

\* A review row is identified by its UNIQUE key; the uuid adds nothing.
\* The owner column is OwnerOf[run].
ReviewId == [run: Runs, digest: Digests, revision: Revision]

\* The bytes one generation returns, named by the request they were made for
\* and by the policy they were made under.
Image == [review: ReviewId, protected: BOOLEAN]

ASSUME ConstantsAssumption ==
    /\ OwnerOf \in [Runs -> Owners]
    /\ Digests # {}
    /\ MaxRevision \in Nat
    /\ ReviewLimit \in Nat
    /\ NoImage \notin Image

VARIABLES
    account,    \* users: present, protected (age unknown or < 18), content_revision
    review,     \* content_reviews
    reviewed,   \* reviewed_images: (owner, image, revision)
    decisions,  \* content_review_audit: (review, decision)
    files,      \* images in the artifact store
    call,       \* the tool-runner thread of each run
    produced    \* how often a protected request reached the image server

crvars == <<account, review, reviewed, decisions, files, call, produced>>

OpenStates == {"pending_request", "request_approved", "generating",
               "pending_image", "approved"}
EndStates  == {"rejected", "expired", "closed"}

Account == [present: BOOLEAN, protected: BOOLEAN, revision: Revision]
Review  == [state: OpenStates \cup EndStates \cup {"absent"},
            image: Image \cup {NoImage},
            aged: BOOLEAN]
PC == {"idle", "policy", "claim", "release", "produce", "recheck", "hold",
       "reject", "readGuard", "readLookup", "saveGuard", "saveLookup", "store",
       "saved", "held", "failed"}
Call == [pc: PC, digest: Digests, protected: BOOLEAN, revision: Revision,
         image: Image \cup {NoImage}]

\* The outcomes a finished operation reports to its caller.
Outcomes == {"saved", "held", "failed"}

IdleCall == [pc |-> "idle", digest |-> CHOOSE d \in Digests : TRUE,
             protected |-> FALSE, revision |-> 0, image |-> NoImage]

NoReview == [state |-> "absent", image |-> NoImage, aged |-> FALSE]

TypeOK ==
    /\ account \in [Owners -> Account]
    /\ review \in [ReviewId -> Review]
    /\ reviewed \subseteq [owner: Owners, image: Image, revision: Revision]
    /\ decisions \subseteq (ReviewId \X {"request_approved", "approved", "rejected"})
    /\ files \subseteq Image
    /\ call \in [Runs -> Call]
    /\ produced \in [ReviewId -> Nat]

-----------------------------------------------------------------------------
(* Helpers.                                                                *)

\* The row image() looks up: the revision is the one its policy() call read.
Key(r) == [run |-> r, digest |-> call[r].digest, revision |-> call[r].revision]

At(r, pc) == call[r].pc = pc
Goto(r, pc) == call' = [call EXCEPT ![r].pc = pc]
OwnerRow(r) == account[OwnerOf[r]]

IsOpen(rv) == rv.state \in OpenStates
OpenReviews(rvs) == {k \in ReviewId : IsOpen(rvs[k])}

Expired(rv) == [rv EXCEPT !.state = "expired", !.image = NoImage]

\* policy(owner) == (protected, revision) as read when the operation began.
SamePolicy(r) ==
    /\ OwnerRow(r).present
    /\ OwnerRow(r).protected = call[r].protected
    /\ OwnerRow(r).revision = call[r].revision

IsReviewed(r) ==
    [owner |-> OwnerOf[r], image |-> call[r].image, revision |-> OwnerRow(r).revision]
        \in reviewed

\* Fault: an approval given under an earlier birthdate still counts.
Readable_AnyRevision(o, f) ==
    \/ ~account[o].protected
    \/ \E e \in reviewed : e.owner = o /\ e.image = f

\* check_artifact: what a download of file f by account o asks.
Readable(o, f) ==
    \/ ~account[o].protected
    \/ [owner |-> o, image |-> f, revision |-> account[o].revision] \in reviewed

-----------------------------------------------------------------------------
(* The operation thread of run r.                                          *)

\* perform("image_generate_local"): the request's digest is fixed here.
BeginImage(r, d) ==
    /\ At(r, "idle")
    /\ call' = [call EXCEPT ![r] = [IdleCall EXCEPT !.pc = "policy", !.digest = d]]
    /\ UNCHANGED <<account, review, reviewed, decisions, files, produced>>

\* perform("artifact_copy"): reads a file of the owner, then saves a copy.
BeginCopy(r, f) ==
    /\ At(r, "idle")
    /\ call' = [call EXCEPT ![r] = [IdleCall EXCEPT !.pc = "readGuard", !.image = f]]
    /\ UNCHANGED <<account, review, reviewed, decisions, files, produced>>

\* check_owner, the lookup of the image server and the read of the input file
\* may each refuse before anything is generated or saved.
Refuse(r) ==
    /\ call[r].pc \in {"policy", "readGuard"}
    /\ Goto(r, "failed")
    /\ UNCHANGED <<account, review, reviewed, decisions, files, produced>>

ReadPolicy(r) ==
    /\ At(r, "policy")
    /\ IF OwnerRow(r).present
       THEN call' = [call EXCEPT
                ![r].pc = IF OwnerRow(r).protected THEN "claim" ELSE "produce",
                ![r].protected = OwnerRow(r).protected,
                ![r].revision = OwnerRow(r).revision]
       ELSE Goto(r, "failed")
    /\ UNCHANGED <<account, review, reviewed, decisions, files, produced>>

\* The sweep that opens image()'s transaction: unlike expire() it also turns
\* rejected and closed rows older than seven days into expired ones.
Swept ==
    [k \in ReviewId |-> IF review[k].aged /\ review[k].state # "absent"
                        THEN Expired(review[k]) ELSE review[k]]

\* The state a request-approved row is left in once a generation claims it.
\* Fault: the claim is not recorded.
ClaimedState_Lost == "request_approved"

ClaimedState == "generating"

\* "if count >= 32"
Full(rvs) == Cardinality(OpenReviews(rvs)) >= ReviewLimit

\* image()'s BEGIN IMMEDIATE transaction and the branch on the state it read.
SweptRow(r) == Swept[Key(r)]

ClaimNew(r) ==
    /\ SweptRow(r).state = "absent"
    /\ ~Full(Swept)
    /\ review' = [Swept EXCEPT ![Key(r)] = [NoReview EXCEPT !.state = "pending_request"]]
    /\ Goto(r, "held")

\* Storage full: the exception rolls the sweep back.
ClaimFull(r) ==
    /\ SweptRow(r).state = "absent"
    /\ Full(Swept)
    /\ Goto(r, "failed")
    /\ UNCHANGED review

ClaimGeneration(r) ==
    /\ SweptRow(r).state = "request_approved"
    /\ review' = [Swept EXCEPT ![Key(r)].state = ClaimedState]
    /\ Goto(r, "produce")

ClaimPending(r) ==
    /\ SweptRow(r).state \in {"pending_request", "pending_image"}
    /\ review' = Swept
    /\ Goto(r, "held")

ClaimApproved(r) ==
    /\ SweptRow(r).state = "approved" /\ SweptRow(r).image # NoImage
    /\ review' = Swept
    /\ call' = [call EXCEPT ![r].pc = "release", ![r].image = SweptRow(r).image]

\* Rejected, expired, or interrupted while it was generated.
ClaimEnded(r) ==
    /\ \/ SweptRow(r).state \in EndStates \cup {"generating"}
       \/ SweptRow(r).state = "approved" /\ SweptRow(r).image = NoImage
    /\ review' = Swept
    /\ Goto(r, "failed")

Claim(r) ==
    /\ At(r, "claim")
    /\ \/ ClaimNew(r) \/ ClaimFull(r) \/ ClaimGeneration(r)
       \/ ClaimPending(r) \/ ClaimApproved(r) \/ ClaimEnded(r)
    /\ UNCHANGED <<account, reviewed, decisions, files, produced>>

\* An approved image is handed over only under the policy it was approved for.
Release(r) ==
    /\ At(r, "release")
    /\ Goto(r, IF SamePolicy(r) THEN "saveGuard" ELSE "failed")
    /\ UNCHANGED <<account, review, reviewed, decisions, files, produced>>

\* produce(): the image server generates, or fails at any point.  Decoding,
\* re-encoding and the size limits of the protected path are part of it.
Produce(r) ==
    /\ At(r, "produce")
    /\ \/ call' = [call EXCEPT ![r].pc = "recheck",
              ![r].image = [review |-> Key(r), protected |-> call[r].protected]]
       \/ Goto(r, IF call[r].protected THEN "reject" ELSE "failed")
    /\ produced' = IF call[r].protected
                   THEN [produced EXCEPT ![Key(r)] = @ + 1] ELSE produced
    /\ UNCHANGED <<account, review, reviewed, decisions, files>>

\* Fault: the branch is taken on the policy of now, not the one read before.
AfterProduce_Now(r) ==
    IF OwnerRow(r).present /\ ~OwnerRow(r).protected THEN "saveGuard"
    ELSE IF SamePolicy(r) THEN "hold" ELSE "reject"

\* Where the thread goes with the bytes, by the policy it read before and the
\* one it reads now.
AfterProduce(r) ==
    IF call[r].protected
    THEN (IF SamePolicy(r) THEN "hold" ELSE "reject")
    ELSE (IF SamePolicy(r) THEN "saveGuard" ELSE "failed")

\* "Age can change while the GPU is busy. Never release unchecked bytes."
Recheck(r) ==
    /\ At(r, "recheck")
    /\ Goto(r, AfterProduce(r))
    /\ UNCHANGED <<account, review, reviewed, decisions, files, produced>>

\* Fault: the update is by id alone.
MayHold_Always(k) == TRUE

\* WHERE ... state='generating': the row may have ended meanwhile.
MayHold(k) == review[k].state = "generating"

Hold(r) ==
    LET k == Key(r) IN
    /\ At(r, "hold")
    /\ review' = IF MayHold(k)
                 THEN [review EXCEPT ![k].state = "pending_image",
                                     ![k].image = call[r].image]
                 ELSE review
    /\ Goto(r, "held")
    /\ UNCHANGED <<account, reviewed, decisions, files, produced>>

\* The except clause updates by id alone, whatever the state has become.
Reject(r) ==
    LET k == Key(r) IN
    /\ At(r, "reject")
    /\ review' = [review EXCEPT ![k].state = "rejected", ![k].image = NoImage]
    /\ Goto(r, "failed")
    /\ UNCHANGED <<account, reviewed, decisions, files, produced>>

\* check_download reads the policy, and for a protected owner reads it again
\* inside the query on reviewed_images.
Guard(r, here, lookup, pass) ==
    /\ At(r, here)
    /\ Goto(r, IF ~OwnerRow(r).present THEN "failed"
               ELSE IF OwnerRow(r).protected THEN lookup ELSE pass)
    /\ UNCHANGED <<account, review, reviewed, decisions, files, produced>>

Lookup(r, here, pass) ==
    /\ At(r, here)
    /\ Goto(r, IF OwnerRow(r).present /\ IsReviewed(r) THEN pass ELSE "failed")
    /\ UNCHANGED <<account, review, reviewed, decisions, files, produced>>

ReadGuard(r)  == Guard(r, "readGuard", "readLookup", "saveGuard")
ReadLookup(r) == Lookup(r, "readLookup", "saveGuard")
SaveGuard(r)  == Guard(r, "saveGuard", "saveLookup", "store")
SaveLookup(r) == Lookup(r, "saveLookup", "store")

\* artifacts.save commits the bytes, or a quota or disk error refuses them.
Store(r) ==
    /\ At(r, "store")
    /\ \/ files' = files \cup {call[r].image} /\ Goto(r, "saved")
       \/ UNCHANGED files /\ Goto(r, "failed")
    /\ UNCHANGED <<account, review, reviewed, decisions, produced>>

\* The caller has taken the result, or gave up waiting for it.
Return(r) ==
    /\ call[r].pc \in Outcomes
    /\ call' = [call EXCEPT ![r] = IdleCall]
    /\ UNCHANGED <<account, review, reviewed, decisions, files, produced>>

OperationStep(r) ==
    \/ ReadPolicy(r) \/ Claim(r) \/ Release(r) \/ Produce(r) \/ Recheck(r)
    \/ Hold(r) \/ Reject(r) \/ ReadGuard(r) \/ ReadLookup(r)
    \/ SaveGuard(r) \/ SaveLookup(r) \/ Store(r) \/ Refuse(r)

-----------------------------------------------------------------------------
(* Administrators, accounts and time.                                      *)

\* Fault: the account's present revision is not looked at.
Decidable_AnyRevision(k, stage) ==
    /\ review[k].state = stage
    /\ account[OwnerOf[k.run]].present
    /\ ~review[k].aged

\* decide() refuses a row whose stage or birthdate revision has moved on.
Decidable(k, stage) ==
    /\ review[k].state = stage
    /\ account[OwnerOf[k.run]].present
    /\ account[OwnerOf[k.run]].revision = k.revision
    /\ ~review[k].aged

\* Fault: approving a request approves the image as well.
Verdict_OneStage(stage, approve) == IF approve THEN "approved" ELSE "rejected"

Verdict(stage, approve) ==
    IF ~approve THEN "rejected"
    ELSE IF stage = "pending_request" THEN "request_approved" ELSE "approved"

\* decide(): the actor is an adult administrator; refusals change nothing.
Decide(k, stage, approve) ==
    LET verdict == Verdict(stage, approve) IN
    /\ stage \in {"pending_request", "pending_image"}
    /\ Decidable(k, stage)
    /\ review' = [review EXCEPT ![k].state = verdict,
                                ![k].image = IF approve THEN @ ELSE NoImage]
    /\ reviewed' = IF verdict = "approved"
                   THEN reviewed \cup {[owner |-> OwnerOf[k.run],
                                        image |-> review[k].image,
                                        revision |-> k.revision]}
                   ELSE reviewed
    /\ decisions' = decisions \cup {<<k, verdict>>}
    /\ UNCHANGED <<account, files, call, produced>>

\* Every review of the account expires with the birthdate it was made for.
ExpireOwner(o) ==
    [k \in ReviewId |-> IF OwnerOf[k.run] = o /\ review[k].state # "absent"
                        THEN Expired(review[k]) ELSE review[k]]

SetBirthdate(o, protected) ==
    /\ account[o].present
    /\ account[o].revision < MaxRevision
    /\ account' = [account EXCEPT ![o].protected = protected, ![o].revision = @ + 1]
    /\ review' = ExpireOwner(o)
    /\ UNCHANGED <<reviewed, decisions, files, call, produced>>

\* The eighteenth birthday passes: same birthdate, same content_revision.
Birthday(o) ==
    /\ account[o].present /\ account[o].protected
    /\ account' = [account EXCEPT ![o].protected = FALSE]
    /\ UNCHANGED <<review, reviewed, decisions, files, call, produced>>

\* delete_user removes the account row only; reviews and files stay.
DeleteAccount(o) ==
    /\ account[o].present
    /\ account' = [account EXCEPT ![o].present = FALSE]
    /\ UNCHANGED <<review, reviewed, decisions, files, call, produced>>

\* Seven days pass since a review was created.
WeekPasses(k) ==
    /\ review[k].state # "absent" /\ ~review[k].aged
    /\ review' = [review EXCEPT ![k].aged = TRUE]
    /\ UNCHANGED <<account, reviewed, decisions, files, call, produced>>

\* Fault: the bytes outlive the review.
AfterExpire_KeepsBytes ==
    [k \in ReviewId |-> IF review[k].aged /\ IsOpen(review[k])
                        THEN [review[k] EXCEPT !.state = "expired"] ELSE review[k]]

\* expire(), as run by listing, preview and ready.
AfterExpire ==
    [k \in ReviewId |-> IF review[k].aged /\ IsOpen(review[k])
                        THEN Expired(review[k]) ELSE review[k]]

Expire ==
    /\ review' = AfterExpire
    /\ UNCHANGED <<account, reviewed, decisions, files, call, produced>>

\* Fault: an approved image is kept when its run ends.
AfterFinish_KeepsApproved(r) ==
    [k \in ReviewId |->
        IF k.run = r /\ review[k].state \notin {"absent", "rejected", "expired", "approved"}
        THEN [review[k] EXCEPT !.state = "closed", !.image = NoImage]
        ELSE review[k]]

\* finish(owner, run_id)
AfterFinish(r) ==
    [k \in ReviewId |->
        IF k.run = r /\ review[k].state \notin {"absent", "rejected", "expired"}
        THEN [review[k] EXCEPT !.state = "closed", !.image = NoImage]
        ELSE review[k]]

Finish(r) ==
    /\ review' = AfterFinish(r)
    /\ UNCHANGED <<account, reviewed, decisions, files, call, produced>>

\* The process dies with every operation thread; the databases survive.
Crash ==
    /\ call' = [r \in Runs |-> IdleCall]
    /\ UNCHANGED <<account, review, reviewed, decisions, files, produced>>

-----------------------------------------------------------------------------
Init ==
    /\ account \in [Owners -> [present: {TRUE}, protected: BOOLEAN, revision: {0}]]
    /\ review = [k \in ReviewId |-> NoReview]
    /\ reviewed = {}
    /\ decisions = {}
    /\ files = {}
    /\ call = [r \in Runs |-> IdleCall]
    /\ produced = [k \in ReviewId |-> 0]

RunNext(r) ==
    \/ \E d \in Digests : BeginImage(r, d)
    \/ \E f \in files : OwnerOf[f.review.run] = OwnerOf[r] /\ BeginCopy(r, f)
    \/ OperationStep(r)
    \/ Return(r)
    \/ Finish(r)

AccountNext ==
    \/ \E o \in Owners, p \in BOOLEAN : SetBirthdate(o, p)
    \/ \E o \in Owners : Birthday(o) \/ DeleteAccount(o)
    \/ \E k \in ReviewId : WeekPasses(k)

ReviewNext ==
    \E k \in ReviewId, stage \in {"pending_request", "pending_image"},
       approve \in BOOLEAN : Decide(k, stage, approve)

Next ==
    \/ \E r \in Runs : RunNext(r)
    \/ AccountNext
    \/ ReviewNext
    \/ Expire
    \/ Crash

Spec == Init /\ [][Next]_crvars

-----------------------------------------------------------------------------
(* Properties.                                                             *)

\* What a protected account can download was generated for it under its
\* present birthdate, and an administrator approved both the request and the
\* image (check_artifact, decide; two threads and a birthday may race it).
ReadableIsReviewed ==
    \A f \in files : \A o \in Owners :
        account[o].protected /\ Readable(o, f) =>
            /\ f.protected
            /\ OwnerOf[f.review.run] = o
            /\ f.review.revision = account[o].revision
            /\ <<f.review, "request_approved">> \in decisions
            /\ <<f.review, "approved">> \in decisions

\* "Review bytes never enter the user's artifact store before approval":
\* an image made under the protected policy is in the store only after both
\* decisions, whoever copies it and whatever happened to its review since.
StoredAfterBothDecisions ==
    \A f \in files : f.protected =>
        /\ <<f.review, "request_approved">> \in decisions
        /\ <<f.review, "approved">> \in decisions

\* The image server is contacted at most once for a protected request, and
\* only after its request was approved: crashes, expiry and resumed runs
\* never generate again.
GeneratedOnce ==
    \A k \in ReviewId :
        /\ produced[k] <= 1
        /\ produced[k] = 1 => <<k, "request_approved">> \in decisions

\* After a birthdate change no review of an earlier revision is, or can
\* become, approved or hold an image, even one inserted by a thread that read
\* the old policy (set_birthdate against image()).
StaleNeverApproved ==
    \A k \in ReviewId :
        review[k].state \in OpenStates \ {"pending_request"} =>
            k.revision = account[OwnerOf[k.run]].revision

\* Private bytes are kept exactly while a review needs them.
BytesOnlyWhileNeeded ==
    \A k \in ReviewId :
        review[k].image # NoImage <=> review[k].state \in {"pending_image", "approved"}

\* A review that was rejected, expired or closed is never revived, although
\* the threads that hold or reject an image may be acting on an old read.
EndedStaysEnded ==
    [][\A k \in ReviewId :
         review[k].state \in EndStates => review'[k].state \in EndStates]_crvars

\* How far a protected request has come, by the audit table and the requests
\* that reached the image server.
StageOf(k) ==
    IF <<k, "rejected">> \in decisions THEN "refused"
    ELSE IF <<k, "approved">> \in decisions THEN "approved"
    ELSE IF produced[k] > 0 THEN "generated"
    ELSE IF <<k, "request_approved">> \in decisions THEN "allowed"
    ELSE "new"

Approvals == INSTANCE TwoApprovals WITH
    Requests    <- ReviewId,
    AccountOf   <- [k \in ReviewId |-> OwnerOf[k.run]],
    RevisionOf  <- [k \in ReviewId |-> k.revision],
    stage       <- [k \in ReviewId |-> StageOf(k)],
    generations <- produced,
    released    <- {f.review : f \in {g \in files : g.protected}},
    revision    <- [o \in Owners |-> account[o].revision]

\* Behind rows that expire, close, are swept and claimed by racing threads,
\* every protected request follows one path: allowed, generated once, approved,
\* released; each decision is made for the present birthdate and a refusal by
\* an administrator is final, whatever thread still works on the request.
ApprovalPromise == Approvals!Spec
=============================================================================
