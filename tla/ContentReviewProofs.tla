------------------------ MODULE ContentReviewProofs ------------------------
(***************************************************************************)
(* Proofs about ContentReview for every set of accounts, runs and digests  *)
(* and every value of the bounds.                                          *)
(***************************************************************************)
EXTENDS ContentReview, TLAPS

\* Both administrator decisions are in the audit table.
BothDecisions(k) ==
    <<k, "request_approved">> \in decisions /\ <<k, "approved">> \in decisions

\* What thread r knows at each place of its program.
CallOK(r) ==
    /\ call[r].pc \in {"claim", "hold", "reject"} => call[r].protected
    /\ call[r].pc \in {"recheck", "hold"} =>
          call[r].image = [review |-> Key(r), protected |-> call[r].protected]
    /\ call[r].pc \in {"release", "readGuard", "readLookup", "saveGuard",
                       "saveLookup", "store"} =>
          /\ call[r].image \in Image
          /\ call[r].image.protected => BothDecisions(call[r].image.review)
    /\ call[r].pc = "produce" /\ call[r].protected =>
          /\ produced[Key(r)] = 0
          /\ <<Key(r), "request_approved">> \in decisions
          /\ review[Key(r)].state \notin {"absent", "pending_request", "request_approved"}

CallInv == \A r \in Runs : CallOK(r)

ReviewInv ==
    \A k \in ReviewId :
        /\ review[k].state \in {"absent", "pending_request", "request_approved"} =>
              produced[k] = 0
        /\ review[k].state \in OpenStates \ {"pending_request"} =>
              <<k, "request_approved">> \in decisions
        /\ review[k].state = "approved" => <<k, "approved">> \in decisions
        /\ review[k].image # NoImage =>
              review[k].image = [review |-> k, protected |-> TRUE]

ReviewedInv ==
    \A e \in reviewed :
        /\ e.image.protected
        /\ e.owner = OwnerOf[e.image.review.run]
        /\ e.revision = e.image.review.revision
        /\ BothDecisions(e.image.review)

IInv ==
    /\ TypeOK
    /\ CallInv
    /\ ReviewInv
    /\ ReviewedInv
    /\ StoredAfterBothDecisions
    /\ GeneratedOnce
    /\ StaleNeverApproved
    /\ BytesOnlyWhileNeeded

-----------------------------------------------------------------------------
(* Types.                                                                  *)

LEMMA Constants ==
    /\ IdleCall \in Call
    /\ IdleCall.image = NoImage
    /\ IdleCall.pc = "idle"
    /\ NoReview \in Review
    /\ 0 \in Revision
BY ConstantsAssumption DEF IdleCall, NoReview, Call, PC, Review, Revision

\* Whatever a step rewrites of a review row is a row again.
LEMMA ReviewTypes ==
    ASSUME review \in [ReviewId -> Review]
    PROVE  /\ Swept \in [ReviewId -> Review]
           /\ AfterExpire \in [ReviewId -> Review]
           /\ \A r \in Runs : AfterFinish(r) \in [ReviewId -> Review]
           /\ \A o \in Owners : ExpireOwner(o) \in [ReviewId -> Review]
<1>1. ASSUME NEW k \in ReviewId
      PROVE  /\ review[k] \in Review
             /\ Expired(review[k]) \in Review
             /\ [review[k] EXCEPT !.state = "closed", !.image = NoImage] \in Review
  BY <1>1 DEF Expired, Review, EndStates
<1>2. QED
  BY <1>1 DEF Swept, AfterExpire, AfterFinish, ExpireOwner

LEMMA KeyType ==
    ASSUME TypeOK, NEW r \in Runs
    PROVE  Key(r) \in ReviewId
BY DEF TypeOK, Key, ReviewId, Call

LEMMA InitType == Init => TypeOK
<1> SUFFICES ASSUME Init PROVE TypeOK
  OBVIOUS
<1>1. account \in [Owners -> Account]
  BY Constants DEF Init, Account
<1>2. review \in [ReviewId -> Review]
  BY Constants DEF Init
<1>3. call \in [Runs -> Call]
  BY Constants DEF Init
<1>4. produced \in [ReviewId -> Nat]
  BY DEF Init
<1>5. QED
  BY <1>1, <1>2, <1>3, <1>4 DEF Init, TypeOK

\* The steps of an operation thread keep the types.
LEMMA GotoType ==
    ASSUME TypeOK, NEW r \in Runs, NEW pc \in PC, Goto(r, pc)
    PROVE  call' \in [Runs -> Call]
BY DEF TypeOK, Goto, Call

LEMMA OperationType ==
    ASSUME TypeOK, CallInv, NEW r \in Runs, OperationStep(r)
    PROVE  TypeOK'
<1> USE DEF TypeOK
<1>1. CASE ReadPolicy(r)
  <2>1. call' \in [Runs -> Call]
    <3>1. account[OwnerOf[r]] \in Account
      BY ConstantsAssumption
    <3>2. CASE OwnerRow(r).present
      <4>1. call' = [call EXCEPT ![r] = [call[r] EXCEPT
                        !.pc = IF OwnerRow(r).protected THEN "claim" ELSE "produce",
                        !.protected = OwnerRow(r).protected,
                        !.revision = OwnerRow(r).revision]]
        BY <1>1, <3>2 DEF ReadPolicy
      <4>2. OwnerRow(r).protected \in BOOLEAN /\ OwnerRow(r).revision \in Revision
        BY <3>1 DEF OwnerRow, Account
      <4>3. call[r] \in Call
        OBVIOUS
      <4>4. QED
        BY <4>1, <4>2, <4>3 DEF Call, PC
    <3>3. CASE ~OwnerRow(r).present
      BY <1>1, <3>3 DEF ReadPolicy, Goto, Call, PC
    <3>4. QED
      BY <3>2, <3>3
  <2>2. QED
    BY <1>1, <2>1 DEF ReadPolicy
<1>2. CASE Claim(r)
  <2> DEFINE k == Key(r)
  <2>1. k \in ReviewId /\ Swept \in [ReviewId -> Review]
    BY KeyType, ReviewTypes
  <2>2. Swept[k] \in Review
    BY <2>1
  <2>3. /\ [NoReview EXCEPT !.state = "pending_request"] \in Review
        /\ [Swept[k] EXCEPT !.state = "generating"] \in Review
    BY <2>2 DEF NoReview, Review, OpenStates
  <2>4. review' \in [ReviewId -> Review] /\ call' \in [Runs -> Call]
    <3>1. CASE ClaimNew(r)
      BY <3>1, <2>1, <2>3 DEF ClaimNew, Goto, Call, PC
    <3>2. CASE ClaimFull(r)
      BY <3>2 DEF ClaimFull, Goto, Call, PC
    <3>3. CASE ClaimGeneration(r)
      <4>1. review' = [Swept EXCEPT ![k] = [Swept[k] EXCEPT !.state = "generating"]]
        BY <3>3, <2>1 DEF ClaimGeneration, ClaimedState
      <4>2. QED
        BY <3>3, <4>1, <2>1, <2>3 DEF ClaimGeneration, Goto, Call, PC
    <3>4. CASE ClaimPending(r)
      BY <3>4, <2>1 DEF ClaimPending, Goto, Call, PC
    <3>5. CASE ClaimApproved(r)
      <4>1. call' = [call EXCEPT ![r] = [call[r] EXCEPT !.pc = "release",
                                                        !.image = Swept[k].image]]
        BY <3>5 DEF ClaimApproved, SweptRow
      <4>2. Swept[k].image \in Image \cup {NoImage} /\ call[r] \in Call
        BY <2>2 DEF Review
      <4>3. [call[r] EXCEPT !.pc = "release", !.image = Swept[k].image] \in Call
        BY <4>2 DEF Call, PC
      <4>4. QED
        BY <3>5, <4>1, <4>3, <2>1 DEF ClaimApproved
    <3>6. CASE ClaimEnded(r)
      BY <3>6, <2>1 DEF ClaimEnded, Goto, Call, PC
    <3>7. QED
      BY <1>2, <3>1, <3>2, <3>3, <3>4, <3>5, <3>6 DEF Claim
  <2>5. QED
    BY <1>2, <2>4 DEF Claim
<1>3. CASE Release(r)
  BY <1>3 DEF Release, Goto, Call, PC
<1>4. CASE Produce(r)
  <2>1. Key(r) \in ReviewId /\ call[r].protected \in BOOLEAN
    BY KeyType DEF Call
  <2>2. [review |-> Key(r), protected |-> call[r].protected] \in Image
    BY <2>1 DEF Image
  <2>3. call' \in [Runs -> Call]
    BY <1>4, <2>2 DEF Produce, Goto, Call, PC
  <2>4. produced' \in [ReviewId -> Nat]
    BY <1>4, <2>1 DEF Produce
  <2>5. QED
    BY <1>4, <2>3, <2>4 DEF Produce
<1>5. CASE Recheck(r)
  BY <1>5 DEF Recheck, AfterProduce, Goto, Call, PC
<1>6. CASE Hold(r)
  <2>1. Key(r) \in ReviewId /\ call[r].image \in Image \cup {NoImage}
    BY KeyType DEF Call
  <2>2. review' \in [ReviewId -> Review]
    BY <1>6, <2>1 DEF Hold, Review, OpenStates
  <2>3. QED
    BY <1>6, <2>2 DEF Hold, Goto, Call, PC
<1>7. CASE Reject(r)
  <2>1. review' \in [ReviewId -> Review]
    BY <1>7, KeyType DEF Reject, Review, EndStates
  <2>2. QED
    BY <1>7, <2>1 DEF Reject, Goto, Call, PC
<1>8. CASE ReadGuard(r) \/ SaveGuard(r)
  BY <1>8 DEF ReadGuard, SaveGuard, Guard, Goto, Call, PC
<1>9. CASE ReadLookup(r) \/ SaveLookup(r)
  BY <1>9 DEF ReadLookup, SaveLookup, Lookup, Goto, Call, PC
<1>10. CASE Store(r)
  <2>1. CASE files' = files \cup {call[r].image}
    <3>1. call[r].image \in Image
      BY <1>10 DEF CallInv, CallOK, Store, At
    <3>2. QED
      BY <1>10, <2>1, <3>1 DEF Store, Goto, Call, PC
  <2>2. CASE UNCHANGED files
    BY <1>10, <2>2 DEF Store, Goto, Call, PC
  <2>3. QED
    BY <1>10, <2>1, <2>2 DEF Store
<1>11. CASE Refuse(r)
  BY <1>11 DEF Refuse, Goto, Call, PC
<1>12. QED
  BY <1>1, <1>2, <1>3, <1>4, <1>5, <1>6, <1>7, <1>8, <1>9, <1>10, <1>11
     DEF OperationStep

LEMMA NextType ==
    ASSUME IInv, Next
    PROVE  TypeOK'
<1> USE DEF IInv, TypeOK
<1>1. ASSUME NEW r \in Runs, NEW d \in Digests, BeginImage(r, d)
      PROVE  TypeOK'
  <2>1. [IdleCall EXCEPT !.pc = "policy", !.digest = d] \in Call
    BY Constants DEF Call, PC
  <2>2. QED
    BY <1>1, <2>1 DEF BeginImage
<1>2. ASSUME NEW r \in Runs, NEW f \in files, BeginCopy(r, f)
      PROVE  TypeOK'
  <2>1. [IdleCall EXCEPT !.pc = "readGuard", !.image = f] \in Call
    BY Constants DEF Call, PC
  <2>2. QED
    BY <1>2, <2>1 DEF BeginCopy
<1>3. ASSUME NEW r \in Runs, Return(r)
      PROVE  TypeOK'
  BY <1>3, Constants DEF Return
<1>4. ASSUME NEW r \in Runs, Finish(r)
      PROVE  TypeOK'
  BY <1>4, ReviewTypes DEF Finish
<1>5. ASSUME NEW o \in Owners, NEW p \in BOOLEAN, SetBirthdate(o, p)
      PROVE  TypeOK'
  <2>1. account[o].revision + 1 \in Revision
    BY <1>5, ConstantsAssumption DEF SetBirthdate, Account, Revision
  <2>2. account' \in [Owners -> Account]
    BY <1>5, <2>1 DEF SetBirthdate, Account
  <2>3. QED
    BY <1>5, <2>2, ReviewTypes DEF SetBirthdate
<1>6. ASSUME NEW o \in Owners, Birthday(o) \/ DeleteAccount(o)
      PROVE  TypeOK'
  <2>1. account' \in [Owners -> Account]
    BY <1>6 DEF Birthday, DeleteAccount, Account
  <2>2. QED
    BY <1>6, <2>1 DEF Birthday, DeleteAccount
<1>7. ASSUME NEW k \in ReviewId, WeekPasses(k)
      PROVE  TypeOK'
  <2>1. review' \in [ReviewId -> Review]
    BY <1>7 DEF WeekPasses, Review
  <2>2. QED
    BY <1>7, <2>1 DEF WeekPasses
<1>8. ASSUME NEW k \in ReviewId, NEW stage \in {"pending_request", "pending_image"},
             NEW approve \in BOOLEAN, Decide(k, stage, approve)
      PROVE  TypeOK'
  <2> DEFINE verdict == Verdict(stage, approve)
  <2>1. verdict \in {"request_approved", "approved", "rejected"}
    BY DEF Verdict
  <2>2. review' \in [ReviewId -> Review]
    <3>1. [review[k] EXCEPT !.state = verdict,
                            !.image = IF approve THEN review[k].image ELSE NoImage]
             \in Review
      BY <2>1 DEF Review, OpenStates, EndStates
    <3>2. review' = [review EXCEPT ![k] = [review[k] EXCEPT !.state = verdict,
                            !.image = IF approve THEN review[k].image ELSE NoImage]]
      BY <1>8 DEF Decide
    <3>3. QED
      BY <3>1, <3>2
  <2>3. decisions' \subseteq (ReviewId \X {"request_approved", "approved", "rejected"})
    BY <1>8, <2>1 DEF Decide
  <2>4. reviewed' \subseteq [owner: Owners, image: Image, revision: Revision]
    <3>1. CASE verdict # "approved"
      BY <1>8, <3>1 DEF Decide
    <3>2. CASE verdict = "approved"
      <4>1. review[k].state = "pending_image"
        BY <1>8, <3>2 DEF Decide, Decidable, Verdict
      <4>2. review[k].image \in Image
        BY <4>1 DEF BytesOnlyWhileNeeded, Review
      <4>3. OwnerOf[k.run] \in Owners /\ k.revision \in Revision
        BY ConstantsAssumption DEF ReviewId
      <4>4. reviewed' = reviewed \cup {[owner |-> OwnerOf[k.run],
                                       image |-> review[k].image,
                                       revision |-> k.revision]}
        BY <1>8, <3>2 DEF Decide
      <4>5. QED
        BY <4>2, <4>3, <4>4
    <3>3. QED
      BY <3>1, <3>2
  <2>5. QED
    BY <1>8, <2>2, <2>3, <2>4 DEF Decide
<1>9. CASE Expire
  BY <1>9, ReviewTypes DEF Expire
<1>10. CASE Crash
  BY <1>10, Constants DEF Crash
<1>11. QED
  BY <1>1, <1>2, <1>3, <1>4, <1>5, <1>6, <1>7, <1>8, <1>9, <1>10, OperationType
     DEF Next, RunNext, AccountNext, ReviewNext

-----------------------------------------------------------------------------
(* Steps that only end reviews, and steps of one thread.                   *)

\* Each row keeps its state and image, or ends.
OnlyEnds ==
    \A k \in ReviewId :
        \/ review'[k].state = review[k].state /\ review'[k].image = review[k].image
        \/ review'[k].state \in EndStates /\ review'[k].image = NoImage

\* A thread that does not step keeps what it knows, as long as no row it has
\* claimed goes back to an unclaimed state.
LEMMA OtherThread ==
    ASSUME NEW q \in Runs, CallOK(q),
           call'[q] = call[q],
           decisions \subseteq decisions',
           produced'[Key(q)] = produced[Key(q)],
           review[Key(q)].state \notin {"absent", "pending_request", "request_approved"}
             => review'[Key(q)].state \notin
                    {"absent", "pending_request", "request_approved"}
    PROVE  CallOK(q)'
<1>1. Key(q)' = Key(q)
  BY DEF Key
<1>2. \A k : BothDecisions(k) => BothDecisions(k)'
  BY DEF BothDecisions
<1>3. QED
  BY <1>1, <1>2 DEF CallOK

LEMMA EndsKeep ==
    ASSUME IInv, TypeOK', OnlyEnds, StaleNeverApproved', CallInv',
           UNCHANGED <<reviewed, decisions, files, produced>>
    PROVE  IInv'
<1>1. ReviewInv'
  BY DEF IInv, ReviewInv, OnlyEnds, EndStates, OpenStates
<1>2. ReviewedInv'
  BY DEF IInv, ReviewedInv, BothDecisions
<1>3. StoredAfterBothDecisions' /\ GeneratedOnce'
  BY DEF IInv, StoredAfterBothDecisions, GeneratedOnce
<1>4. BytesOnlyWhileNeeded'
  BY DEF IInv, BytesOnlyWhileNeeded, OnlyEnds, EndStates
<1>5. QED
  BY <1>1, <1>2, <1>3, <1>4 DEF IInv

LEMMA EndsKeepCalls ==
    ASSUME IInv, OnlyEnds, UNCHANGED <<call, decisions, produced>>
    PROVE  CallInv'
<1> SUFFICES ASSUME NEW q \in Runs PROVE CallOK(q)'
  BY DEF CallInv
<1>1. Key(q) \in ReviewId
  BY KeyType DEF IInv
<1>2. QED
  BY <1>1, OtherThread DEF IInv, CallInv, OnlyEnds, EndStates

\* A step that moves thread r alone and leaves the stores as they are.
LEMMA ThreadOnly ==
    ASSUME IInv, TypeOK', NEW r \in Runs, CallOK(r)',
           \A q \in Runs \ {r} : call'[q] = call[q],
           StoredAfterBothDecisions',
           UNCHANGED <<account, review, reviewed, decisions, produced>>
    PROVE  IInv'
<1>1. CallInv'
  <2> SUFFICES ASSUME NEW q \in Runs, q # r PROVE CallOK(q)'
    BY DEF CallInv
  <2>1. QED
    BY OtherThread DEF IInv, CallInv
<1>2. ReviewInv'
  BY DEF IInv, ReviewInv
<1>3. ReviewedInv'
  BY DEF IInv, ReviewedInv, BothDecisions
<1>4. GeneratedOnce' /\ StaleNeverApproved' /\ BytesOnlyWhileNeeded'
  BY DEF IInv, GeneratedOnce, StaleNeverApproved, BytesOnlyWhileNeeded
<1>5. QED
  BY <1>1, <1>2, <1>3, <1>4 DEF IInv

LEMMA SweepsEnd ==
    ASSUME TypeOK
    PROVE  /\ \A k \in ReviewId :
                 \/ Swept[k] = review[k]
                 \/ /\ Swept[k] = Expired(review[k]) /\ review[k].state # "absent"
                    /\ Swept[k].state = "expired" /\ Swept[k].image = NoImage
           /\ review' = Swept => OnlyEnds
           /\ review' = AfterExpire => OnlyEnds
           /\ \A r \in Runs : review' = AfterFinish(r) => OnlyEnds
           /\ \A o \in Owners : review' = ExpireOwner(o) => OnlyEnds
<1>1. \A k \in ReviewId : Expired(review[k]).state = "expired" /\ Expired(review[k]).image = NoImage
  BY DEF TypeOK, Expired, Review
<1>2. \A k \in ReviewId :
          LET c == [review[k] EXCEPT !.state = "closed", !.image = NoImage]
          IN  c.state = "closed" /\ c.image = NoImage
  BY DEF TypeOK, Review
<1>3. QED
  BY <1>1, <1>2 DEF Swept, AfterExpire, AfterFinish, ExpireOwner, OnlyEnds, EndStates

-----------------------------------------------------------------------------
(* The operation thread.                                                   *)

LEMMA GotoFacts ==
    ASSUME TypeOK, NEW r \in Runs, NEW pc, Goto(r, pc)
    PROVE  /\ call'[r].pc = pc
           /\ call'[r].image = call[r].image
           /\ call'[r].protected = call[r].protected
           /\ Key(r)' = Key(r)
           /\ \A q \in Runs \ {r} : call'[q] = call[q]
BY DEF TypeOK, Goto, Call, Key

\* Threads step over reads: nothing but their own place changes.
LEMMA ReadStep ==
    ASSUME IInv, TypeOK', NEW r \in Runs,
           ReadPolicy(r) \/ Release(r) \/ Recheck(r) \/ Refuse(r)
             \/ ReadGuard(r) \/ SaveGuard(r) \/ ReadLookup(r) \/ SaveLookup(r)
    PROVE  IInv'
<1> USE DEF IInv
<1>1. UNCHANGED <<account, review, reviewed, decisions, files, produced>>
  BY DEF ReadPolicy, Release, Recheck, Refuse, ReadGuard, SaveGuard, ReadLookup,
         SaveLookup, Guard, Lookup
<1>2. StoredAfterBothDecisions'
  BY <1>1 DEF StoredAfterBothDecisions
<1>3. CallOK(r)
  BY DEF CallInv
<1>4. \A k : BothDecisions(k)' = BothDecisions(k)
  BY <1>1 DEF BothDecisions
<1>5. CallOK(r)' /\ \A q \in Runs \ {r} : call'[q] = call[q]
  <2>1. CASE ReadPolicy(r)
    <3>1. CASE OwnerRow(r).present
      <4>1. /\ call'[r].pc = IF OwnerRow(r).protected THEN "claim" ELSE "produce"
            /\ call'[r].protected = OwnerRow(r).protected
            /\ \A q \in Runs \ {r} : call'[q] = call[q]
        BY <2>1, <3>1 DEF ReadPolicy, TypeOK, Call
      <4>2. QED
        BY <4>1 DEF CallOK
    <3>2. CASE ~OwnerRow(r).present
      BY <2>1, <3>2, GotoFacts DEF ReadPolicy, CallOK
    <3>3. QED
      BY <3>1, <3>2
  <2>2. CASE Refuse(r)
    BY <2>2, GotoFacts DEF Refuse, CallOK
  <2>3. CASE Recheck(r)
    <3> DEFINE there == IF call[r].protected
                        THEN (IF SamePolicy(r) THEN "hold" ELSE "reject")
                        ELSE (IF SamePolicy(r) THEN "saveGuard" ELSE "failed")
    <3>1. Goto(r, there)
      BY <2>3 DEF Recheck, AfterProduce
    <3>2. /\ call'[r].pc = there
          /\ call'[r].image = call[r].image
          /\ call'[r].protected = call[r].protected
          /\ Key(r)' = Key(r)
          /\ \A q \in Runs \ {r} : call'[q] = call[q]
      BY <3>1, GotoFacts
    <3>3. call[r].image = [review |-> Key(r), protected |-> call[r].protected]
      BY <2>3, <1>3 DEF Recheck, At, CallOK
    <3>4. call[r].image \in Image
      BY <3>3, KeyType DEF Image, TypeOK, Call
    <3>5. CASE call[r].protected
      BY <3>2, <3>3, <3>5 DEF CallOK
    <3>6. CASE ~call[r].protected
      BY <3>2, <3>3, <3>4, <3>6 DEF CallOK
    <3>7. QED
      BY <3>2, <3>5, <3>6
  <2>4. CASE Release(r) \/ ReadGuard(r) \/ SaveGuard(r) \/ ReadLookup(r) \/ SaveLookup(r)
    <3>1. /\ call[r].pc \in {"release", "readGuard", "readLookup", "saveGuard", "saveLookup"}
          /\ \E pc \in {"readLookup", "saveGuard", "saveLookup", "store", "failed"} : Goto(r, pc)
      BY <2>4 DEF Release, ReadGuard, SaveGuard, ReadLookup, SaveLookup, Guard, Lookup, At
    <3>2. PICK pc \in {"readLookup", "saveGuard", "saveLookup", "store", "failed"} : Goto(r, pc)
      BY <3>1
    <3>3. /\ call'[r].pc = pc
          /\ call'[r].image = call[r].image
          /\ \A q \in Runs \ {r} : call'[q] = call[q]
      BY <3>2, GotoFacts
    <3>4. /\ call'[r].image \in Image
          /\ call'[r].image.protected => BothDecisions(call[r].image.review)'
      BY <3>1, <3>3, <1>1, <1>3 DEF CallOK, BothDecisions
    <3>5. QED
      BY <3>3, <3>4 DEF CallOK
  <2>5. QED
    BY <2>1, <2>2, <2>3, <2>4
<1>6. QED
  BY <1>1, <1>2, <1>5, ThreadOnly

LEMMA StoreStep ==
    ASSUME IInv, TypeOK', NEW r \in Runs, Store(r)
    PROVE  IInv'
<1> USE DEF IInv
<1>1. CallOK(r) /\ call[r].pc = "store"
  BY DEF CallInv, Store, At
<1>2. StoredAfterBothDecisions'
  BY <1>1 DEF Store, StoredAfterBothDecisions, CallOK, BothDecisions
<1>3. CallOK(r)' /\ \A q \in Runs \ {r} : call'[q] = call[q]
  BY GotoFacts DEF Store, CallOK
<1>4. QED
  BY <1>2, <1>3, ThreadOnly DEF Store

LEMMA BeginStep ==
    ASSUME IInv, TypeOK', NEW r \in Runs,
           \/ \E d \in Digests : BeginImage(r, d)
           \/ \E f \in files : BeginCopy(r, f)
           \/ Return(r)
    PROVE  IInv'
<1> USE DEF IInv
<1>1. UNCHANGED <<account, review, reviewed, decisions, files, produced>>
  BY DEF BeginImage, BeginCopy, Return
<1>2. \A q \in Runs \ {r} : call'[q] = call[q]
  BY DEF BeginImage, BeginCopy, Return, TypeOK
<1>3. CallOK(r)'
  <2>1. CASE \E d \in Digests : BeginImage(r, d)
    <3>1. PICK d \in Digests : BeginImage(r, d)
      BY <2>1
    <3>2. call'[r].pc = "policy"
      BY <3>1, Constants DEF BeginImage, TypeOK, Call
    <3>3. QED
      BY <3>2 DEF CallOK
  <2>2. CASE \E f \in files : BeginCopy(r, f)
    <3>1. PICK f \in files : BeginCopy(r, f)
      BY <2>2
    <3>2. call'[r].pc = "readGuard" /\ call'[r].image = f
      BY <3>1, Constants DEF BeginCopy, TypeOK, Call
    <3>3. f \in Image /\ (f.protected => BothDecisions(f.review)')
      BY <1>1 DEF StoredAfterBothDecisions, BothDecisions, TypeOK
    <3>4. QED
      BY <3>2, <3>3 DEF CallOK
  <2>3. CASE Return(r)
    <3>1. call'[r].pc = "idle"
      BY <2>3, Constants DEF Return, TypeOK
    <3>2. QED
      BY <3>1 DEF CallOK
  <2>4. QED
    BY <2>1, <2>2, <2>3
<1>4. StoredAfterBothDecisions'
  BY <1>1 DEF StoredAfterBothDecisions
<1>5. QED
  BY <1>1, <1>2, <1>3, <1>4, ThreadOnly

LEMMA ClaimStep ==
    ASSUME IInv, TypeOK', NEW r \in Runs, Claim(r)
    PROVE  IInv'
<1> USE DEF IInv
<1> DEFINE k == Key(r)
<1>1. /\ k \in ReviewId
      /\ CallOK(r) /\ call[r].pc = "claim" /\ call[r].protected
      /\ UNCHANGED <<account, reviewed, decisions, files, produced>>
  BY KeyType DEF Claim, At, CallInv, CallOK
<1>2. \A q \in Runs \ {r} : Key(q) # k
  BY DEF Key
<1>3. \A q \in Runs : Key(q) \in ReviewId
  BY KeyType
<1>4. Swept \in [ReviewId -> Review]
  BY ReviewTypes DEF TypeOK
\* Rows other than k are swept at most.
<1>5. ASSUME CallOK(r)', \A q \in Runs \ {r} : call'[q] = call[q],
             \A j \in ReviewId \ {k} :
                \/ review'[j].state = review[j].state /\ review'[j].image = review[j].image
                \/ review'[j].state \in EndStates /\ review'[j].image = NoImage
      PROVE  CallInv'
  <2> SUFFICES ASSUME NEW q \in Runs, q # r PROVE CallOK(q)'
    BY <1>5 DEF CallInv
  <2>1. QED
    BY <1>1, <1>2, <1>3, <1>5, OtherThread DEF CallInv, EndStates
<1>6. ASSUME CallOK(r)', \A q \in Runs \ {r} : call'[q] = call[q], OnlyEnds
      PROVE  IInv'
  <2>1. CallInv'
    BY <1>5, <1>6 DEF OnlyEnds
  <2>2. StaleNeverApproved'
    BY <1>1, <1>6 DEF StaleNeverApproved, OnlyEnds, EndStates, OpenStates
  <2>3. QED
    BY <1>1, <1>6, <2>1, <2>2, EndsKeep
<1>7. CASE ClaimFull(r)
  <2>1. OnlyEnds
    BY <1>7 DEF ClaimFull, OnlyEnds
  <2>2. QED
    BY <1>6, <1>7, <2>1, GotoFacts DEF ClaimFull, CallOK
<1>8. CASE ClaimPending(r) \/ ClaimEnded(r)
  <2>1. OnlyEnds
    BY <1>8, SweepsEnd DEF ClaimPending, ClaimEnded
  <2>2. QED
    BY <1>6, <1>8, <2>1, GotoFacts DEF ClaimPending, ClaimEnded, CallOK
<1>9. CASE ClaimApproved(r)
  <2>1. OnlyEnds
    BY <1>9, SweepsEnd DEF ClaimApproved
  <2>2. /\ call'[r].pc = "release" /\ call'[r].image = Swept[k].image
        /\ \A q \in Runs \ {r} : call'[q] = call[q]
    BY <1>9 DEF ClaimApproved, SweptRow, TypeOK, Call
  <2>3. Swept[k] = review[k] /\ review[k].state = "approved" /\ review[k].image # NoImage
    BY <1>1, <1>9, SweepsEnd DEF ClaimApproved, SweptRow
  <2>4. review[k].image = [review |-> k, protected |-> TRUE] /\ BothDecisions(k)
    BY <1>1, <2>3 DEF ReviewInv, OpenStates, BothDecisions
  <2>5. call'[r].image \in Image /\ call'[r].image.review = k
    BY <1>1, <2>2, <2>3, <2>4 DEF Image
  <2>6. CallOK(r)'
    BY <1>1, <2>2, <2>4, <2>5 DEF CallOK, BothDecisions
  <2>7. QED
    BY <1>6, <2>1, <2>2, <2>6
<1>10. CASE ClaimNew(r)
  <2>1. review[k].state = "absent" /\ review[k].image = NoImage /\ produced[k] = 0
    BY <1>1, <1>10, SweepsEnd DEF ClaimNew, SweptRow, ReviewInv, BytesOnlyWhileNeeded
  <2>2. /\ review'[k].state = "pending_request" /\ review'[k].image = NoImage
        /\ \A j \in ReviewId \ {k} : review'[j] = Swept[j]
    BY <1>1, <1>4, <1>10 DEF ClaimNew, NoReview
  <2>3. \A j \in ReviewId \ {k} :
                \/ review'[j].state = review[j].state /\ review'[j].image = review[j].image
                \/ review'[j].state \in EndStates /\ review'[j].image = NoImage
    BY <2>2, SweepsEnd DEF EndStates
  <2>4. CallInv'
    BY <1>5, <1>10, <2>3, GotoFacts DEF ClaimNew, CallOK
  <2>5. ReviewInv'
    BY <1>1, <2>1, <2>2, <2>3 DEF ReviewInv, OpenStates, EndStates
  <2>6. ReviewedInv' /\ StoredAfterBothDecisions' /\ GeneratedOnce'
    BY <1>1 DEF ReviewedInv, StoredAfterBothDecisions, GeneratedOnce, BothDecisions
  <2>7. StaleNeverApproved' /\ BytesOnlyWhileNeeded'
    BY <1>1, <2>2, <2>3 DEF StaleNeverApproved, BytesOnlyWhileNeeded, OpenStates, EndStates
  <2>8. QED
    BY <2>4, <2>5, <2>6, <2>7
<1>11. CASE ClaimGeneration(r)
  <2>1. Swept[k] = review[k] /\ review[k].state = "request_approved"
    BY <1>1, <1>11, SweepsEnd DEF ClaimGeneration, SweptRow
  <2>2. produced[k] = 0 /\ <<k, "request_approved">> \in decisions
    BY <1>1, <2>1 DEF ReviewInv, OpenStates
  <2>3. /\ review'[k].state = "generating" /\ review'[k].image = review[k].image
        /\ \A j \in ReviewId \ {k} : review'[j] = Swept[j]
    BY <1>1, <1>4, <1>11, <2>1 DEF ClaimGeneration, ClaimedState, Review
  <2>4. \A j \in ReviewId \ {k} :
                \/ review'[j].state = review[j].state /\ review'[j].image = review[j].image
                \/ review'[j].state \in EndStates /\ review'[j].image = NoImage
    BY <2>3, SweepsEnd DEF EndStates
  <2>5. call'[r].pc = "produce" /\ Key(r)' = k /\ \A q \in Runs \ {r} : call'[q] = call[q]
    BY <1>11, GotoFacts DEF ClaimGeneration
  <2>6. CallOK(r)'
    BY <1>1, <2>2, <2>3, <2>5 DEF CallOK
  <2>7. CallInv'
    BY <1>5, <2>4, <2>5, <2>6
  <2>8. ReviewInv'
    BY <1>1, <2>1, <2>2, <2>3, <2>4 DEF ReviewInv, OpenStates, EndStates
  <2>9. ReviewedInv' /\ StoredAfterBothDecisions' /\ GeneratedOnce'
    BY <1>1 DEF ReviewedInv, StoredAfterBothDecisions, GeneratedOnce, BothDecisions
  <2>10. StaleNeverApproved' /\ BytesOnlyWhileNeeded'
    BY <1>1, <2>1, <2>3, <2>4
       DEF StaleNeverApproved, BytesOnlyWhileNeeded, OpenStates, EndStates
  <2>11. QED
    BY <2>7, <2>8, <2>9, <2>10
<1>12. QED
  BY <1>7, <1>8, <1>9, <1>10, <1>11 DEF Claim

LEMMA ProduceStep ==
    ASSUME IInv, TypeOK', NEW r \in Runs, Produce(r)
    PROVE  IInv'
<1> USE DEF IInv
<1> DEFINE k == Key(r)
<1>1. /\ k \in ReviewId
      /\ CallOK(r) /\ call[r].pc = "produce"
      /\ UNCHANGED <<account, review, reviewed, decisions, files>>
  BY KeyType DEF Produce, At, CallInv
<1>2. /\ \A q \in Runs \ {r} : call'[q] = call[q] /\ Key(q) # k
      /\ Key(r)' = k
      /\ call'[r].protected = call[r].protected
      /\ \/ call'[r].pc = "recheck"
            /\ call'[r].image = [review |-> k, protected |-> call[r].protected]
         \/ call'[r].pc = IF call[r].protected THEN "reject" ELSE "failed"
  BY DEF Produce, Goto, TypeOK, Call, Key
<1>3. CallOK(r)'
  BY <1>2 DEF CallOK
<1>4. \A j \in ReviewId : j # k => produced'[j] = produced[j]
  BY <1>1 DEF Produce, TypeOK
<1>5. CallInv'
  <2> SUFFICES ASSUME NEW q \in Runs, q # r PROVE CallOK(q)'
    BY <1>3 DEF CallInv
  <2>1. Key(q) \in ReviewId
    BY KeyType
  <2>2. QED
    BY <2>1, <1>1, <1>2, <1>4, OtherThread DEF CallInv
<1>6. \/ produced'[k] = produced[k]
      \/ /\ produced'[k] = 1
         /\ <<k, "request_approved">> \in decisions
         /\ review[k].state \notin {"absent", "pending_request", "request_approved"}
  <2>1. CASE call[r].protected
    <3>1. produced'[k] = produced[k] + 1
      BY <1>1, <2>1 DEF Produce, TypeOK
    <3>2. QED
      BY <1>1, <2>1, <3>1 DEF CallOK
  <2>2. CASE ~call[r].protected
    BY <1>1, <2>2 DEF Produce
  <2>3. QED
    BY <2>1, <2>2
<1>7. ReviewInv'
  BY <1>1, <1>4, <1>6 DEF ReviewInv
<1>8. GeneratedOnce'
  <2> SUFFICES ASSUME NEW j \in ReviewId
               PROVE  /\ produced'[j] <= 1
                      /\ produced'[j] = 1 => <<j, "request_approved">> \in decisions
    BY <1>1 DEF GeneratedOnce
  <2>1. produced[j] <= 1 /\ (produced[j] = 1 => <<j, "request_approved">> \in decisions)
    BY DEF GeneratedOnce
  <2>2. QED
    BY <2>1, <1>4, <1>6
<1>9. ReviewedInv' /\ StoredAfterBothDecisions' /\ StaleNeverApproved' /\ BytesOnlyWhileNeeded'
  BY <1>1 DEF ReviewedInv, StoredAfterBothDecisions, StaleNeverApproved,
              BytesOnlyWhileNeeded, BothDecisions
<1>10. QED
  BY <1>5, <1>7, <1>8, <1>9

LEMMA HoldStep ==
    ASSUME IInv, TypeOK', NEW r \in Runs, Hold(r)
    PROVE  IInv'
<1> USE DEF IInv
<1> DEFINE k == Key(r)
<1>1. /\ k \in ReviewId
      /\ CallOK(r) /\ call[r].pc = "hold" /\ call[r].protected
      /\ call[r].image = [review |-> k, protected |-> TRUE]
      /\ UNCHANGED <<account, reviewed, decisions, files, produced>>
  BY KeyType DEF Hold, At, CallInv, CallOK, TypeOK, Call
<1>2. /\ call'[r].pc = "held"
      /\ \A q \in Runs \ {r} : call'[q] = call[q]
  BY GotoFacts DEF Hold
<1>3. /\ \A j \in ReviewId \ {k} : review'[j] = review[j]
      /\ \/ review'[k] = review[k]
         \/ /\ review[k].state = "generating"
            /\ review'[k].state = "pending_image"
            /\ review'[k].image = [review |-> k, protected |-> TRUE]
  BY <1>1 DEF Hold, MayHold, TypeOK, Review
<1>4. CallInv'
  <2> SUFFICES ASSUME NEW q \in Runs, q # r PROVE CallOK(q)'
    BY <1>2 DEF CallInv, CallOK
  <2>1. Key(q) \in ReviewId
    BY KeyType
  <2>2. QED
    BY <2>1, <1>1, <1>2, <1>3, OtherThread DEF CallInv
<1>5. ReviewInv'
  BY <1>1, <1>3 DEF ReviewInv, OpenStates
<1>6. StaleNeverApproved'
  BY <1>1, <1>3 DEF StaleNeverApproved, OpenStates
<1>7. BytesOnlyWhileNeeded'
  <2>1. \A b \in BOOLEAN : [review |-> k, protected |-> b] \in Image
    BY <1>1 DEF Image
  <2>2. [review |-> k, protected |-> TRUE] # NoImage
    BY <2>1, ConstantsAssumption
  <2>3. QED
    BY <1>1, <1>3, <2>2 DEF BytesOnlyWhileNeeded
<1>8. ReviewedInv' /\ StoredAfterBothDecisions' /\ GeneratedOnce'
  BY <1>1 DEF ReviewedInv, StoredAfterBothDecisions, GeneratedOnce, BothDecisions
<1>9. QED
  BY <1>4, <1>5, <1>6, <1>7, <1>8

LEMMA RejectStep ==
    ASSUME IInv, TypeOK', NEW r \in Runs, Reject(r)
    PROVE  IInv'
<1> USE DEF IInv
<1> DEFINE k == Key(r)
<1>1. k \in ReviewId /\ UNCHANGED <<account, reviewed, decisions, files, produced>>
  BY KeyType DEF Reject
<1>2. call'[r].pc = "failed" /\ \A q \in Runs \ {r} : call'[q] = call[q]
  BY GotoFacts DEF Reject
<1>3. OnlyEnds
  BY <1>1 DEF Reject, OnlyEnds, EndStates, TypeOK, Review
<1>4. CallInv'
  <2> SUFFICES ASSUME NEW q \in Runs, q # r PROVE CallOK(q)'
    BY <1>2 DEF CallInv, CallOK
  <2>1. Key(q) \in ReviewId
    BY KeyType
  <2>2. QED
    BY <2>1, <1>1, <1>2, <1>3, OtherThread DEF CallInv, OnlyEnds, EndStates
<1>5. StaleNeverApproved'
  BY <1>1, <1>3 DEF StaleNeverApproved, OnlyEnds, EndStates, OpenStates
<1>6. QED
  BY <1>1, <1>3, <1>4, <1>5, EndsKeep

-----------------------------------------------------------------------------
(* Administrators, accounts and time.                                      *)

LEMMA DecideStep ==
    ASSUME IInv, TypeOK', NEW k \in ReviewId,
           NEW stage \in {"pending_request", "pending_image"},
           NEW approve \in BOOLEAN, Decide(k, stage, approve)
    PROVE  IInv'
<1> USE DEF IInv
<1> DEFINE verdict == Verdict(stage, approve)
<1>1. /\ review[k].state = stage
      /\ account[OwnerOf[k.run]].revision = k.revision
      /\ decisions' = decisions \cup {<<k, verdict>>}
      /\ UNCHANGED <<account, files, call, produced>>
  BY DEF Decide, Decidable
<1>2. /\ \A j \in ReviewId \ {k} : review'[j] = review[j]
      /\ review'[k].state = verdict
      /\ review'[k].image = IF approve THEN review[k].image ELSE NoImage
  BY DEF Decide, TypeOK, Review
<1>3. \A j : BothDecisions(j) => BothDecisions(j)'
  BY <1>1 DEF BothDecisions
<1>4. CallInv'
  <2> SUFFICES ASSUME NEW q \in Runs PROVE CallOK(q)'
    BY DEF CallInv
  <2>1. Key(q) \in ReviewId /\ CallOK(q)
    BY KeyType DEF CallInv
  <2>2. review[Key(q)].state \notin {"absent", "pending_request", "request_approved"}
          => review'[Key(q)].state \notin {"absent", "pending_request", "request_approved"}
    BY <2>1, <1>1, <1>2 DEF Verdict
  <2>3. QED
    BY <2>1, <2>2, <1>1, OtherThread
<1>5. /\ verdict = "request_approved" =>
            stage = "pending_request" /\ <<k, "request_approved">> \in decisions'
      /\ verdict = "approved" => stage = "pending_image" /\ BothDecisions(k)'
  BY <1>1 DEF ReviewInv, OpenStates, BothDecisions, Verdict
<1>6. ReviewInv'
  BY <1>1, <1>2, <1>3, <1>5 DEF ReviewInv, OpenStates, BothDecisions, Verdict
<1>7. ReviewedInv'
  <2>1. CASE verdict # "approved"
    <3>1. reviewed' = reviewed
      BY <2>1 DEF Decide
    <3>2. QED
      BY <3>1, <1>3 DEF ReviewedInv
  <2>2. CASE verdict = "approved"
    <3>1. reviewed' = reviewed \cup {[owner |-> OwnerOf[k.run],
                                     image |-> review[k].image,
                                     revision |-> k.revision]}
      BY <2>2 DEF Decide
    <3>2. review[k].image = [review |-> k, protected |-> TRUE]
      BY <1>1, <1>5, <2>2 DEF ReviewInv, BytesOnlyWhileNeeded
    <3>3. QED
      BY <3>1, <3>2, <1>3, <1>5, <2>2 DEF ReviewedInv
  <2>3. QED
    BY <2>1, <2>2
<1>8. StoredAfterBothDecisions' /\ GeneratedOnce'
  BY <1>1, <1>3 DEF StoredAfterBothDecisions, GeneratedOnce, BothDecisions
<1>9. StaleNeverApproved' /\ BytesOnlyWhileNeeded'
  BY <1>1, <1>2 DEF StaleNeverApproved, BytesOnlyWhileNeeded, OpenStates, Verdict
<1>10. QED
  BY <1>4, <1>6, <1>7, <1>8, <1>9

\* A step that ends reviews and leaves the birthdate revisions as they are.
LEMMA EndingStep ==
    ASSUME IInv, TypeOK', OnlyEnds,
           UNCHANGED <<account, reviewed, decisions, files, call, produced>>
    PROVE  IInv'
<1>1. CallInv'
  BY EndsKeepCalls
<1>2. StaleNeverApproved'
  BY DEF IInv, StaleNeverApproved, OnlyEnds, EndStates, OpenStates
<1>3. QED
  BY <1>1, <1>2, EndsKeep

LEMMA BirthdateStep ==
    ASSUME IInv, TypeOK', NEW o \in Owners, NEW p \in BOOLEAN, SetBirthdate(o, p)
    PROVE  IInv'
<1>1. OnlyEnds /\ UNCHANGED <<reviewed, decisions, files, call, produced>>
  BY SweepsEnd DEF IInv, SetBirthdate
<1>2. CallInv'
  BY <1>1, EndsKeepCalls
<1>3. StaleNeverApproved'
  <2> SUFFICES ASSUME NEW k \in ReviewId,
                      review'[k].state \in OpenStates \ {"pending_request"}
               PROVE  k.revision = account'[OwnerOf[k.run]].revision
    BY DEF StaleNeverApproved
  <2>1. review'[k].state = review[k].state
    BY <1>1 DEF OnlyEnds, OpenStates, EndStates
  <2>2. OwnerOf[k.run] # o
    <3>1. review[k].state # "absent"
      BY <2>1 DEF OpenStates
    <3>2. OwnerOf[k.run] = o => review'[k] = Expired(review[k])
      BY <3>1 DEF SetBirthdate, ExpireOwner
    <3>3. Expired(review[k]).state = "expired"
      BY DEF Expired, IInv, TypeOK, Review
    <3>4. QED
      BY <3>2, <3>3 DEF OpenStates
  <2>3. OwnerOf[k.run] \in Owners
    BY ConstantsAssumption DEF ReviewId
  <2>4. account'[OwnerOf[k.run]] = account[OwnerOf[k.run]]
    BY <2>2, <2>3 DEF SetBirthdate, IInv, TypeOK
  <2>5. QED
    BY <2>1, <2>4 DEF IInv, StaleNeverApproved
<1>4. QED
  BY <1>1, <1>2, <1>3, EndsKeep

\* A step of the account that leaves its revision alone.
LEMMA AccountStep ==
    ASSUME IInv, TypeOK', NEW o \in Owners, Birthday(o) \/ DeleteAccount(o)
    PROVE  IInv'
<1> USE DEF IInv
<1>1. UNCHANGED <<review, reviewed, decisions, files, call, produced>>
  BY DEF Birthday, DeleteAccount
<1>2. \A p \in Owners : account'[p].revision = account[p].revision
  BY DEF Birthday, DeleteAccount, TypeOK, Account
<1>3. \A k \in ReviewId : OwnerOf[k.run] \in Owners
  BY ConstantsAssumption DEF ReviewId
<1>4. StaleNeverApproved'
  BY <1>1, <1>2, <1>3 DEF StaleNeverApproved
<1>5. OnlyEnds
  BY <1>1 DEF OnlyEnds
<1>6. CallInv'
  BY <1>1, <1>5, EndsKeepCalls
<1>7. QED
  BY <1>1, <1>4, <1>5, <1>6, EndsKeep

LEMMA CrashStep ==
    ASSUME IInv, TypeOK', Crash
    PROVE  IInv'
<1> USE DEF IInv
<1>1. UNCHANGED <<account, review, reviewed, decisions, files, produced>>
  BY DEF Crash
<1>2. CallInv'
  <2>1. \A r \in Runs : call'[r].pc = "idle"
    BY Constants DEF Crash
  <2>2. QED
    BY <2>1 DEF CallInv, CallOK
<1>3. OnlyEnds /\ StaleNeverApproved'
  BY <1>1 DEF OnlyEnds, StaleNeverApproved
<1>4. QED
  BY <1>1, <1>2, <1>3, EndsKeep

-----------------------------------------------------------------------------
(* The inductive invariant.                                                *)

LEMMA InitInv == Init => IInv
<1> SUFFICES ASSUME Init PROVE IInv
  OBVIOUS
<1>1. TypeOK
  BY InitType
<1>2. CallInv
  BY Constants DEF Init, CallInv, CallOK
<1>3. \A k \in ReviewId : review[k].state = "absent" /\ review[k].image = NoImage
  BY DEF Init, NoReview
<1>4. ReviewInv /\ StaleNeverApproved /\ BytesOnlyWhileNeeded
  BY <1>3 DEF Init, ReviewInv, StaleNeverApproved, BytesOnlyWhileNeeded, OpenStates
<1>5. ReviewedInv /\ StoredAfterBothDecisions /\ GeneratedOnce
  BY DEF Init, ReviewedInv, StoredAfterBothDecisions, GeneratedOnce
<1>6. QED
  BY <1>1, <1>2, <1>4, <1>5 DEF IInv

LEMMA NextInv == IInv /\ [Next]_crvars => IInv'
<1> SUFFICES ASSUME IInv, [Next]_crvars PROVE IInv'
  OBVIOUS
<1>1. CASE Next
  <2>1. TypeOK'
    BY <1>1, NextType
  <2>2. ASSUME NEW r \in Runs, RunNext(r)
        PROVE  IInv'
    <3>1. CASE OperationStep(r)
      BY <2>1, <3>1, ReadStep, ClaimStep, ProduceStep, HoldStep, RejectStep, StoreStep
         DEF OperationStep
    <3>2. CASE Finish(r)
      BY <2>1, <3>2, SweepsEnd, EndingStep DEF Finish, IInv
    <3>3. QED
      BY <2>1, <2>2, <3>1, <3>2, BeginStep DEF RunNext
  <2>3. CASE AccountNext
    <3>1. ASSUME NEW k \in ReviewId, WeekPasses(k)
          PROVE  IInv'
      <4>1. OnlyEnds
        BY <3>1 DEF WeekPasses, OnlyEnds, IInv, TypeOK, Review
      <4>2. QED
        BY <2>1, <3>1, <4>1, EndingStep DEF WeekPasses
    <3>2. QED
      BY <2>1, <2>3, <3>1, BirthdateStep, AccountStep DEF AccountNext
  <2>4. CASE ReviewNext
    BY <2>1, <2>4, DecideStep DEF ReviewNext
  <2>5. CASE Expire
    BY <2>1, <2>5, SweepsEnd, EndingStep DEF Expire, IInv
  <2>6. CASE Crash
    BY <2>1, <2>6, CrashStep
  <2>7. QED
    BY <1>1, <2>2, <2>3, <2>4, <2>5, <2>6 DEF Next
<1>2. CASE UNCHANGED crvars
  <2>1. TypeOK'
    BY <1>2 DEF IInv, TypeOK, crvars
  <2>2. OnlyEnds /\ UNCHANGED <<account, reviewed, decisions, files, call, produced>>
    BY <1>2 DEF OnlyEnds, crvars
  <2>3. QED
    BY <2>1, <2>2, EndingStep
<1>3. QED
  BY <1>1, <1>2

-----------------------------------------------------------------------------
(* What every step does to a review that has ended.                        *)

LEMMA EndedStep ==
    ASSUME IInv, [Next]_crvars, NEW k \in ReviewId, review[k].state \in EndStates
    PROVE  review'[k].state \in EndStates
<1> USE DEF EndStates
<1>1. OnlyEnds => review'[k].state \in EndStates
  BY DEF OnlyEnds
<1>2. UNCHANGED review => review'[k].state \in EndStates
  OBVIOUS
<1>3. ASSUME NEW r \in Runs, OperationStep(r)
      PROVE  review'[k].state \in EndStates
  <2>1. CASE Claim(r)
    <3>1. Swept[k].state \in EndStates /\ Swept \in [ReviewId -> Review]
      BY SweepsEnd, ReviewTypes DEF IInv, TypeOK
    <3>2. CASE ClaimNew(r) \/ ClaimGeneration(r)
      <4>1. Swept[Key(r)].state \notin EndStates
        BY <3>2 DEF ClaimNew, ClaimGeneration, SweptRow
      <4>2. review'[k] = Swept[k]
        BY <3>1, <3>2, <4>1 DEF ClaimNew, ClaimGeneration
      <4>3. QED
        BY <3>1, <4>2
    <3>3. CASE review' = Swept \/ UNCHANGED review
      BY <3>1, <3>3
    <3>4. QED
      BY <2>1, <3>2, <3>3
         DEF Claim, ClaimFull, ClaimPending, ClaimApproved, ClaimEnded
  <2>2. CASE Hold(r)
    BY <2>2 DEF Hold, MayHold, IInv, TypeOK
  <2>3. CASE Reject(r)
    BY <2>3 DEF Reject, IInv, TypeOK, Review
  <2>4. CASE UNCHANGED review
    BY <2>4
  <2>5. QED
    BY <1>3, <2>1, <2>2, <2>3, <2>4
       DEF OperationStep, ReadPolicy, Release, Produce, Recheck, ReadGuard, ReadLookup,
           SaveGuard, SaveLookup, Guard, Lookup, Store, Refuse
<1>4. ASSUME NEW j \in ReviewId, NEW stage \in {"pending_request", "pending_image"},
             NEW approve \in BOOLEAN, Decide(j, stage, approve)
      PROVE  review'[k].state \in EndStates
  BY <1>4 DEF Decide, Decidable, IInv, TypeOK
<1>5. ASSUME NEW j \in ReviewId, WeekPasses(j)
      PROVE  review'[k].state \in EndStates
  BY <1>5 DEF WeekPasses, IInv, TypeOK, Review
<1>6. ASSUME NEW r \in Runs, Finish(r)
      PROVE  OnlyEnds
  BY <1>6, SweepsEnd DEF Finish, IInv
<1>7. ASSUME NEW o \in Owners, NEW p \in BOOLEAN, SetBirthdate(o, p)
      PROVE  OnlyEnds
  BY <1>7, SweepsEnd DEF SetBirthdate, IInv
<1>8. CASE Expire
  BY <1>1, <1>8, SweepsEnd DEF Expire, IInv
<1>9. CASE UNCHANGED review
  BY <1>2, <1>9
<1>10. CASE Next
  <2>1. ASSUME NEW r \in Runs, RunNext(r)
        PROVE  review'[k].state \in EndStates
    BY <2>1, <1>1, <1>3, <1>6, <1>9 DEF RunNext, BeginImage, BeginCopy, Return
  <2>2. CASE AccountNext
    BY <2>2, <1>1, <1>5, <1>7, <1>9 DEF AccountNext, Birthday, DeleteAccount
  <2>3. CASE ReviewNext
    BY <2>3, <1>4 DEF ReviewNext
  <2>4. QED
    BY <1>10, <2>1, <2>2, <2>3, <1>8, <1>9 DEF Next, Crash
<1>11. QED
  BY <1>9, <1>10 DEF crvars

-----------------------------------------------------------------------------
(* The theorems.                                                           *)

\* In every reachable state the stores and threads hold well-typed values, and
\* what each operation thread relies on at its place in image(), check_download
\* and save_bytes is true, whatever the administrators and accounts did since.
THEOREM Invariance == Spec => []IInv
<1>1. QED
  BY InitInv, NextInv, PTL DEF Spec

\* Type correctness, for every set of accounts, runs and digests.
THEOREM TypeCorrect == Spec => []TypeOK
<1>1. IInv => TypeOK
  BY DEF IInv
<1>2. QED
  BY <1>1, Invariance, PTL

\* What a protected account can download was generated for it under its present
\* birthdate, and both its request and its bytes were approved, for any number
\* of accounts, runs and birthdate changes (check_artifact, decide).
THEOREM DownloadsAreReviewed == Spec => []ReadableIsReviewed
<1>1. IInv => ReadableIsReviewed
  BY DEF IInv, ReviewedInv, BothDecisions, ReadableIsReviewed, Readable
<1>2. QED
  BY <1>1, Invariance, PTL

\* An image made under the protected policy enters the artifact store only after
\* an administrator approved its request and then its bytes (save_bytes behind
\* image() and check_download).
THEOREM StoredIsApproved == Spec => []StoredAfterBothDecisions
<1>1. IInv => StoredAfterBothDecisions
  BY DEF IInv
<1>2. QED
  BY <1>1, Invariance, PTL

\* The claim transaction of image() and the states finish, expire and reject
\* leave behind let no protected request reach the image server twice.
THEOREM NeverGeneratedAgain == Spec => []GeneratedOnce
<1>1. IInv => GeneratedOnce
  BY DEF IInv
<1>2. QED
  BY <1>1, Invariance, PTL

\* No review made under an earlier birthdate is ever approved or holds an image
\* (decide, set_birthdate).
THEOREM StaleIsNeverApproved == Spec => []StaleNeverApproved
<1>1. IInv => StaleNeverApproved
  BY DEF IInv
<1>2. QED
  BY <1>1, Invariance, PTL

\* Private bytes are kept exactly in the two states that need them (expire, finish,
\* decide, set_birthdate).
THEOREM EndedHoldsNothing == Spec => []BytesOnlyWhileNeeded
<1>1. IInv => BytesOnlyWhileNeeded
  BY DEF IInv
<1>2. QED
  BY <1>1, Invariance, PTL

\* No step of any thread, administrator, birthday, expiry or restart revives a
\* review that was rejected, expired or closed.
THEOREM EndedIsFinal == Spec => EndedStaysEnded
<1>1. IInv /\ [Next]_crvars =>
        [\A k \in ReviewId :
            review[k].state \in EndStates => review'[k].state \in EndStates]_crvars
  BY EndedStep
<1>2. QED
  BY <1>1, Invariance, PTL DEF Spec, EndedStaysEnded
=============================================================================
