----------------------- MODULE ContentReviewRefinement -----------------------
(***************************************************************************)
(* ContentReview implements TwoApprovals, for every set of accounts, runs  *)
(* and digests and every value of the bounds.                              *)
(***************************************************************************)
EXTENDS ContentReviewProofs, FiniteSetTheorems

-----------------------------------------------------------------------------
(* What the audit table and the counts of generations say about a row.     *)

Decided(k, verdict) == <<k, verdict>> \in decisions

\* No decision about the image has been made.
Open(k) == ~Decided(k, "approved") /\ ~Decided(k, "rejected")

RowDecided(k) ==
    /\ review[k].state \in {"absent", "pending_request"} =>
          Open(k) /\ ~Decided(k, "request_approved")
    /\ review[k].state \in {"request_approved", "generating", "pending_image"} => Open(k)
    /\ review[k].state \in {"pending_image", "approved"} => produced[k] = 1
    /\ Decided(k, "approved") => produced[k] = 1 /\ ~Decided(k, "rejected")

\* The thread that claimed the row is the one that generates for it.
ThreadDecided(r) ==
    /\ call[r].pc = "produce" /\ call[r].protected => Open(Key(r))
    /\ call[r].pc = "recheck" /\ call[r].protected => produced[Key(r)] = 1
    /\ call[r].pc = "hold" => produced[Key(r)] = 1

DecidedInv ==
    /\ \A k \in ReviewId : RowDecided(k)
    /\ \A r \in Runs : ThreadDecided(r)

-----------------------------------------------------------------------------
(* DecidedInv is inductive relative to IInv.                               *)

LEMMA InitDecided == Init => DecidedInv
BY DEF Init, DecidedInv, RowDecided, ThreadDecided, Decided, Open, NoReview, IdleCall

\* A thread that does not step, while no decision and no generation happens.
LEMMA ThreadKeeps ==
    ASSUME NEW q \in Runs, ThreadDecided(q), call'[q] = call[q], decisions' = decisions,
           produced'[Key(q)] = produced[Key(q)]
    PROVE  ThreadDecided(q)'
<1>1. Key(q)' = Key(q)
  BY DEF Key
<1> QED
  BY <1>1 DEF ThreadDecided, Open, Decided

\* Rows that end or stay make no new promise.
LEMMA EndsKeepDecided ==
    ASSUME DecidedInv, OnlyEnds, decisions' = decisions, produced' = produced
    PROVE  \A k \in ReviewId : RowDecided(k)'
BY DEF DecidedInv, RowDecided, OnlyEnds, EndStates, Open, Decided

\* A step of thread r that ends rows at most and generates nothing.
LEMMA QuietThread ==
    ASSUME DecidedInv, NEW r \in Runs, ThreadDecided(r)', OnlyEnds,
           \A q \in Runs \ {r} : call'[q] = call[q], UNCHANGED <<decisions, produced>>
    PROVE  DecidedInv'
<1>1. \A q \in Runs \ {r} : ThreadDecided(q)'
  BY ThreadKeeps DEF DecidedInv
<1> QED
  BY <1>1, EndsKeepDecided DEF DecidedInv

LEMMA ClaimDecided ==
    ASSUME IInv, DecidedInv, NEW r \in Runs, Claim(r)
    PROVE  DecidedInv'
<1> DEFINE k == Key(r)
<1>1. /\ TypeOK /\ k \in ReviewId /\ UNCHANGED <<decisions, produced>>
      /\ Swept \in [ReviewId -> Review]
  BY KeyType, ReviewTypes DEF Claim, IInv, TypeOK
<1>2. \A q \in Runs : Key(q) \in ReviewId
  BY <1>1, KeyType
<1>3. CASE ClaimFull(r) \/ ClaimPending(r) \/ ClaimEnded(r) \/ ClaimApproved(r)
  <2>1. /\ call'[r].pc \in {"failed", "held", "release"}
        /\ \A q \in Runs \ {r} : call'[q] = call[q]
    BY <1>1, <1>3 DEF ClaimFull, ClaimPending, ClaimEnded, ClaimApproved, Goto, TypeOK, Call
  <2>2. OnlyEnds
    <3>1. CASE UNCHANGED review
      BY <3>1 DEF OnlyEnds
    <3> QED
      BY <1>1, <1>3, <3>1, SweepsEnd DEF ClaimFull, ClaimPending, ClaimEnded, ClaimApproved
  <2>3. ThreadDecided(r)'
    BY <2>1 DEF ThreadDecided
  <2> QED
    BY <1>1, <2>1, <2>2, <2>3, QuietThread
\* The claims that change the row itself.
<1>4. ASSUME NEW i \in ReviewId, i = k,
             \/ review[k].state = "absent" /\ review'[k].state = "pending_request"
             \/ review[k].state = "request_approved" /\ review'[k].state = "generating",
             \A j \in ReviewId \ {k} : review'[j] = Swept[j],
             ThreadDecided(r)', \A q \in Runs \ {r} : call'[q] = call[q]
      PROVE  DecidedInv'
  <2>1. \A q \in Runs \ {r} : ThreadDecided(q)'
    BY <1>1, <1>2, <1>4, ThreadKeeps DEF DecidedInv
  <2>2. RowDecided(i)'
    <3>1. RowDecided(i) /\ decisions' = decisions /\ produced' = produced
      BY <1>1, <1>4 DEF DecidedInv
    <3> QED
      BY <1>4, <3>1 DEF RowDecided, Open, Decided
  <2>3. ASSUME NEW j \in ReviewId \ {i} PROVE RowDecided(j)'
    <3>1. review'[j].state = review[j].state \/ review'[j].state = "expired"
      BY <1>1, <1>4, <2>3, SweepsEnd
    <3>2. RowDecided(j) /\ decisions' = decisions /\ produced' = produced
      BY <1>1, <2>3 DEF DecidedInv
    <3> QED
      BY <3>1, <3>2 DEF RowDecided, Open, Decided
  <2> QED
    BY <1>4, <2>1, <2>2, <2>3 DEF DecidedInv
<1>5. CASE ClaimNew(r)
  <2>1. review[k].state = "absent"
    BY <1>1, <1>5, SweepsEnd DEF ClaimNew, SweptRow
  <2>2. /\ review'[k].state = "pending_request"
        /\ \A j \in ReviewId \ {k} : review'[j] = Swept[j]
    BY <1>1, <1>5 DEF ClaimNew, NoReview
  <2>3. call'[r].pc = "held" /\ \A q \in Runs \ {r} : call'[q] = call[q]
    BY <1>1, <1>5, GotoFacts DEF ClaimNew
  <2> QED
    BY <1>1, <1>4, <2>1, <2>2, <2>3 DEF ThreadDecided
<1>6. CASE ClaimGeneration(r)
  <2>1. review[k].state = "request_approved"
    BY <1>1, <1>6, SweepsEnd DEF ClaimGeneration, SweptRow
  <2>2. /\ review'[k].state = "generating"
        /\ \A j \in ReviewId \ {k} : review'[j] = Swept[j]
    BY <1>1, <1>6 DEF ClaimGeneration, ClaimedState, Review
  <2>3. /\ call'[r].pc = "produce" /\ Key(r)' = k
        /\ \A q \in Runs \ {r} : call'[q] = call[q]
    BY <1>1, <1>6, GotoFacts DEF ClaimGeneration
  <2>4. ThreadDecided(r)'
    BY <1>1, <2>1, <2>3 DEF DecidedInv, RowDecided, ThreadDecided, Open, Decided
  <2> QED
    BY <1>1, <1>4, <2>1, <2>2, <2>3, <2>4
<1> QED
  BY <1>3, <1>5, <1>6 DEF Claim

\* What produce() does to the counts.
LEMMA ProduceFacts ==
    ASSUME IInv, NEW r \in Runs, Produce(r)
    PROVE  /\ Key(r) \in ReviewId /\ Key(r)' = Key(r)
           /\ call[r].pc = "produce" /\ call'[r].protected = call[r].protected
           /\ call'[r].pc \in {"recheck", "reject", "failed"}
           /\ \A q \in Runs \ {r} : call'[q] = call[q]
           /\ UNCHANGED <<account, review, decisions, files>>
           /\ \A j \in ReviewId \ {Key(r)} : produced'[j] = produced[j]
           /\ ~call[r].protected => produced' = produced
           /\ call[r].protected =>
                 /\ produced[Key(r)] = 0 /\ produced'[Key(r)] = 1
                 /\ Decided(Key(r), "request_approved")
<1>1. TypeOK /\ CallOK(r) /\ Key(r) \in ReviewId /\ call[r].pc = "produce"
  BY KeyType DEF IInv, CallInv, Produce, At
<1>2. /\ Key(r)' = Key(r) /\ call'[r].protected = call[r].protected
      /\ call'[r].pc \in {"recheck", "reject", "failed"}
      /\ \A q \in Runs \ {r} : call'[q] = call[q]
  BY <1>1 DEF Produce, Goto, TypeOK, Call, Key
<1>3. \A j \in ReviewId \ {Key(r)} : produced'[j] = produced[j]
  BY <1>1 DEF Produce, TypeOK
<1>4. CASE call[r].protected
  <2>1. produced'[Key(r)] = produced[Key(r)] + 1
    BY <1>1, <1>4 DEF Produce, TypeOK
  <2> QED
    BY <1>1, <1>2, <1>3, <1>4, <2>1 DEF Produce, CallOK, Decided
<1>5. CASE ~call[r].protected
  BY <1>1, <1>2, <1>3, <1>5 DEF Produce
<1> QED
  BY <1>4, <1>5

LEMMA ProduceDecided ==
    ASSUME IInv, DecidedInv, NEW r \in Runs, Produce(r)
    PROVE  DecidedInv'
<1> DEFINE k == Key(r)
<1>1. TypeOK
  BY DEF IInv
<1>2. ASSUME NEW q \in Runs \ {r} PROVE ThreadDecided(q)'
  <2>1. Key(q) \in ReviewId \ {k}
    BY <1>1, KeyType DEF Key
  <2> QED
    BY <2>1, ProduceFacts, ThreadKeeps DEF DecidedInv
<1>3. ThreadDecided(r)'
  BY ProduceFacts DEF ThreadDecided
<1>4. ASSUME NEW j \in ReviewId PROVE RowDecided(j)'
  <2>1. review'[j] = review[j] /\ decisions' = decisions
    BY ProduceFacts
  <2>2. produced'[j] = produced[j] \/ produced'[j] = 1
    BY ProduceFacts
  <2> QED
    BY <2>1, <2>2 DEF DecidedInv, RowDecided, Open, Decided
<1> QED
  BY <1>2, <1>3, <1>4 DEF DecidedInv

LEMMA HoldDecided ==
    ASSUME IInv, DecidedInv, NEW r \in Runs, Hold(r)
    PROVE  DecidedInv'
<1> DEFINE k == Key(r)
<1>1. /\ TypeOK /\ k \in ReviewId /\ call[r].pc = "hold"
      /\ UNCHANGED <<decisions, produced>>
  BY KeyType DEF Hold, At, IInv
<1>2. call'[r].pc = "held" /\ \A q \in Runs \ {r} : call'[q] = call[q]
  BY <1>1, GotoFacts DEF Hold
<1>3. /\ \A j \in ReviewId \ {k} : review'[j] = review[j]
      /\ \/ review'[k] = review[k]
         \/ review[k].state = "generating" /\ review'[k].state = "pending_image"
  BY <1>1 DEF Hold, MayHold, TypeOK, Review
<1>4. \A q \in Runs \ {r} : ThreadDecided(q)'
  BY <1>1, <1>2, ThreadKeeps DEF DecidedInv
<1>5. produced[k] = 1
  BY <1>1 DEF DecidedInv, ThreadDecided
<1>6. \A j \in ReviewId : RowDecided(j)'
  BY <1>1, <1>3, <1>5 DEF DecidedInv, RowDecided, Open, Decided
<1> QED
  BY <1>2, <1>4, <1>6 DEF DecidedInv, ThreadDecided

LEMMA OperationDecided ==
    ASSUME IInv, DecidedInv, NEW r \in Runs, OperationStep(r)
    PROVE  DecidedInv'
<1>1. TypeOK /\ CallOK(r) /\ Key(r) \in ReviewId /\ ThreadDecided(r)
  BY KeyType DEF IInv, CallInv, DecidedInv
<1>2. ASSUME OnlyEnds, UNCHANGED <<decisions, produced>>,
             call'[r].pc \notin {"produce", "recheck", "hold"},
             \A q \in Runs \ {r} : call'[q] = call[q]
      PROVE  DecidedInv'
  BY <1>2, QuietThread DEF ThreadDecided
<1>3. CASE ReadPolicy(r)
  <2>1. /\ OnlyEnds /\ UNCHANGED <<decisions, produced>>
        /\ \A q \in Runs \ {r} : call'[q] = call[q]
    BY <1>1, <1>3 DEF ReadPolicy, Goto, OnlyEnds, TypeOK
  <2>2. /\ call'[r].pc \in {"claim", "produce", "failed"}
        /\ call'[r].pc = "produce" => ~call'[r].protected
    BY <1>1, <1>3 DEF ReadPolicy, Goto, TypeOK, Call, OwnerRow, Account
  <2> QED
    BY <2>1, <2>2, QuietThread DEF ThreadDecided
<1>4. CASE Recheck(r)
  <2>1. /\ OnlyEnds /\ UNCHANGED <<decisions, produced>> /\ call[r].pc = "recheck"
        /\ call'[r].pc = AfterProduce(r) /\ Key(r)' = Key(r)
        /\ \A q \in Runs \ {r} : call'[q] = call[q]
    BY <1>1, <1>4, GotoFacts DEF Recheck, At, OnlyEnds
  <2>2. /\ AfterProduce(r) \in {"hold", "reject", "saveGuard", "failed"}
        /\ AfterProduce(r) = "hold" => call[r].protected
    BY DEF AfterProduce
  <2>3. ThreadDecided(r)'
    BY <1>1, <2>1, <2>2 DEF ThreadDecided
  <2> QED
    BY <2>1, <2>3, QuietThread
<1>5. CASE Reject(r)
  <2>1. OnlyEnds
    BY <1>1, <1>5 DEF Reject, OnlyEnds, EndStates, TypeOK, Review
  <2> QED
    BY <1>1, <1>2, <1>5, <2>1, GotoFacts DEF Reject
<1>6. CASE Release(r) \/ ReadGuard(r) \/ ReadLookup(r) \/ SaveGuard(r) \/ SaveLookup(r)
             \/ Store(r) \/ Refuse(r)
  <2>1. PICK pc \in {"failed", "saveGuard", "readLookup", "saveLookup", "store", "saved"} :
           Goto(r, pc)
    BY <1>6 DEF Release, ReadGuard, ReadLookup, SaveGuard, SaveLookup, Guard, Lookup, Store,
                Refuse
  <2>2. UNCHANGED <<review, decisions, produced>>
    BY <1>6 DEF Release, ReadGuard, ReadLookup, SaveGuard, SaveLookup, Guard, Lookup, Store,
                Refuse
  <2> QED
    BY <1>1, <1>2, <2>1, <2>2, GotoFacts DEF OnlyEnds
<1> QED
  BY <1>3, <1>4, <1>5, <1>6, ClaimDecided, ProduceDecided, HoldDecided DEF OperationStep

\* What decide() does to the row and to the audit table.
LEMMA DecideFacts ==
    ASSUME TypeOK, NEW k \in ReviewId, NEW stage \in {"pending_request", "pending_image"},
           NEW approve \in BOOLEAN, Decide(k, stage, approve)
    PROVE  /\ review[k].state = stage /\ review'[k].state = Verdict(stage, approve)
           /\ \A j \in ReviewId \ {k} : review'[j] = review[j]
           /\ decisions' = decisions \cup {<<k, Verdict(stage, approve)>>}
           /\ account[OwnerOf[k.run]].revision = k.revision
           /\ UNCHANGED <<account, files, call, produced>>
           /\ \/ stage = "pending_request" /\ Verdict(stage, approve) = "request_approved"
              \/ stage = "pending_image" /\ Verdict(stage, approve) = "approved"
              \/ Verdict(stage, approve) = "rejected"
BY DEF Decide, Decidable, TypeOK, Review, Verdict

LEMMA DecideDecided ==
    ASSUME IInv, DecidedInv, NEW k \in ReviewId,
           NEW stage \in {"pending_request", "pending_image"},
           NEW approve \in BOOLEAN, Decide(k, stage, approve)
    PROVE  DecidedInv'
<1>1. TypeOK
  BY DEF IInv
<1>2. ASSUME NEW j \in ReviewId \ {k} PROVE RowDecided(j)'
  BY <1>1, DecideFacts DEF DecidedInv, RowDecided, Open, Decided
<1>3. RowDecided(k)'
  BY <1>1, DecideFacts DEF DecidedInv, RowDecided, Open, Decided
<1>4. ASSUME NEW q \in Runs PROVE ThreadDecided(q)'
  <2>1. Key(q)' = Key(q) /\ Key(q) \in ReviewId /\ CallOK(q) /\ ThreadDecided(q)
    BY <1>1, DecideFacts, KeyType DEF Key, IInv, CallInv, DecidedInv
  <2>2. call[q].pc = "produce" /\ call[q].protected => Key(q) # k
    BY <1>1, <2>1, DecideFacts DEF CallOK, DecidedInv, RowDecided
  <2> QED
    BY <1>1, <2>1, <2>2, DecideFacts DEF ThreadDecided, Open, Decided
<1> QED
  BY <1>2, <1>3, <1>4 DEF DecidedInv

LEMMA NextDecided ==
    ASSUME IInv, DecidedInv, [Next]_crvars
    PROVE  DecidedInv'
<1>1. TypeOK
  BY DEF IInv
<1>2. ASSUME OnlyEnds, UNCHANGED <<decisions, produced>>,
             \A q \in Runs : call'[q] = call[q] \/ call'[q].pc \in {"idle", "policy", "readGuard"}
      PROVE  DecidedInv'
  <2>1. ASSUME NEW q \in Runs PROVE ThreadDecided(q)'
    BY <1>2, ThreadKeeps DEF ThreadDecided, DecidedInv
  <2> QED
    BY <1>2, <2>1, EndsKeepDecided DEF DecidedInv
<1>3. ASSUME NEW r \in Runs, RunNext(r) PROVE DecidedInv'
  <2>1. CASE UNCHANGED review
    <3>1. OnlyEnds
      BY <2>1 DEF OnlyEnds
    <3>2. CASE \E d \in Digests : BeginImage(r, d)
      BY <1>1, <1>2, <3>1, <3>2, Constants DEF BeginImage, TypeOK, Call
    <3>3. CASE \E f \in files : BeginCopy(r, f)
      BY <1>1, <1>2, <3>1, <3>3, Constants DEF BeginCopy, TypeOK, Call
    <3>4. CASE Return(r)
      BY <1>1, <1>2, <3>1, <3>4, Constants DEF Return, TypeOK
    <3>5. CASE Finish(r)
      BY <1>2, <3>1, <3>5 DEF Finish
    <3> QED
      BY <1>3, <3>2, <3>3, <3>4, <3>5, OperationDecided DEF RunNext
  <2>2. CASE Finish(r)
    BY <1>1, <1>2, <2>2, SweepsEnd DEF Finish
  <2> QED
    BY <1>3, <2>1, <2>2, OperationDecided DEF RunNext, BeginImage, BeginCopy, Return
<1>4. CASE AccountNext
  <2>1. OnlyEnds
    <3>1. ASSUME NEW j \in ReviewId, WeekPasses(j) PROVE OnlyEnds
      BY <1>1, <3>1 DEF WeekPasses, OnlyEnds, TypeOK, Review
    <3>2. ASSUME NEW o \in Owners, NEW p \in BOOLEAN, SetBirthdate(o, p) PROVE OnlyEnds
      BY <1>1, <3>2, SweepsEnd DEF SetBirthdate
    <3>3. CASE UNCHANGED review
      BY <3>3 DEF OnlyEnds
    <3> QED
      BY <1>4, <3>1, <3>2, <3>3 DEF AccountNext, Birthday, DeleteAccount
  <2>2. UNCHANGED <<decisions, produced, call>>
    BY <1>4 DEF AccountNext, SetBirthdate, Birthday, DeleteAccount, WeekPasses
  <2> QED
    BY <1>2, <2>1, <2>2
<1>5. CASE ReviewNext
  BY <1>5, DecideDecided DEF ReviewNext
<1>6. CASE Expire
  BY <1>1, <1>2, <1>6, SweepsEnd DEF Expire
<1>7. CASE Crash
  BY <1>2, <1>7, Constants DEF Crash, OnlyEnds
<1>8. CASE UNCHANGED crvars
  BY <1>2, <1>8 DEF crvars, OnlyEnds
<1> QED
  BY <1>3, <1>4, <1>5, <1>6, <1>7, <1>8 DEF Next

LEMMA DecidedInvariance == Spec => []DecidedInv
<1>1. Init => DecidedInv
  BY InitDecided
<1>2. IInv /\ DecidedInv /\ [Next]_crvars => DecidedInv'
  BY NextDecided
<1> QED
  BY <1>1, <1>2, Invariance, PTL DEF Spec

-----------------------------------------------------------------------------
(* Every step is a step of TwoApprovals or a stutter.                      *)

Revisions == [o \in Owners |-> account[o].revision]
Released == {f.review : f \in {g \in files : g.protected}}

LEMMA Quiet ==
    ASSUME \A o \in Owners : account'[o].revision = account[o].revision,
           \A f : f.protected => (f \in files' <=> f \in files),
           \A k \in ReviewId : StageOf(k)' = StageOf(k), produced' = produced
    PROVE  UNCHANGED Approvals!vars
BY DEF Approvals!vars

\* The stage of each row that has one is known from its state.
LEMMA Stages ==
    ASSUME IInv, DecidedInv, NEW k \in ReviewId
    PROVE  /\ review[k].state \in {"absent", "pending_request"} => StageOf(k) = "new"
           /\ review[k].state = "pending_image" => StageOf(k) = "generated"
           /\ Decided(k, "approved") => StageOf(k) = "approved"
           /\ \A r \in Runs : Key(r) = k /\ call[r].pc = "produce" /\ call[r].protected =>
                 StageOf(k) = "allowed"
<1>1. produced[k] \in Nat /\ RowDecided(k)
  BY DEF IInv, TypeOK, DecidedInv
<1>2. review[k].state \in {"absent", "pending_request"} => produced[k] = 0
  BY DEF IInv, ReviewInv
<1>3. ASSUME NEW r \in Runs, Key(r) = k, call[r].pc = "produce", call[r].protected
      PROVE  StageOf(k) = "allowed"
  <2>1. produced[k] = 0 /\ Decided(k, "request_approved")
    BY <1>3 DEF IInv, CallInv, CallOK, Decided
  <2>2. Open(k)
    BY <1>3 DEF DecidedInv, ThreadDecided
  <2> QED
    BY <2>1, <2>2 DEF StageOf, Open, Decided
<1>4. review[k].state \in {"absent", "pending_request"} => StageOf(k) = "new"
  BY <1>1, <1>2 DEF RowDecided, StageOf, Open, Decided
<1>5. review[k].state = "pending_image" => StageOf(k) = "generated"
  BY <1>1 DEF RowDecided, StageOf, Open, Decided
<1>6. Decided(k, "approved") => StageOf(k) = "approved"
  BY <1>1 DEF RowDecided, StageOf, Decided
<1> QED
  BY <1>3, <1>4, <1>5, <1>6

LEMMA ProduceImplements ==
    ASSUME IInv, DecidedInv, NEW r \in Runs, Produce(r)
    PROVE  [Approvals!Next]_(Approvals!vars)
<1>1. PICK k \in ReviewId : k = Key(r)
  BY ProduceFacts
<1>2. /\ \A j \in ReviewId \ {k} : StageOf(j)' = StageOf(j)
      /\ UNCHANGED <<account, files>>
  BY <1>1, ProduceFacts DEF StageOf
<1>3. CASE ~call[r].protected
  BY <1>1, <1>2, <1>3, ProduceFacts, Quiet DEF StageOf
<1>4. CASE call[r].protected
  <2>1. StageOf(k) = "allowed"
    BY <1>1, <1>4, ProduceFacts, Stages
  <2>2. StageOf(k)' = "generated"
    BY <1>1, <1>4, <2>1, ProduceFacts DEF StageOf
  <2>3. produced' = [produced EXCEPT ![k] = @ + 1]
    BY <1>1, <1>4 DEF Produce
  <2>4. Approvals!Generate(k)
    BY <1>1, <1>2, <2>1, <2>2, <2>3 DEF Approvals!Generate, Approvals!Move
  <2> QED
    BY <2>4 DEF Approvals!Next
<1> QED
  BY <1>3, <1>4

LEMMA StoreImplements ==
    ASSUME IInv, DecidedInv, NEW r \in Runs, Store(r)
    PROVE  [Approvals!Next]_(Approvals!vars)
<1> DEFINE f == call[r].image
<1>1. /\ UNCHANGED <<account, decisions, produced>>
      /\ files' = files \/ files' = files \cup {f}
  BY DEF Store
<1>2. \A k \in ReviewId : StageOf(k)' = StageOf(k)
  BY <1>1 DEF StageOf
<1>3. CASE files' = files \/ ~f.protected
  BY <1>1, <1>2, <1>3, Quiet
<1>4. CASE files' = files \cup {f} /\ f.protected
  <2>1. f.review \in ReviewId /\ Decided(f.review, "approved")
    BY <1>4 DEF IInv, CallInv, CallOK, Store, At, Image, BothDecisions, Decided
  <2>2. PICK k \in ReviewId : k = f.review
    BY <2>1
  <2>3. StageOf(k) = "approved" /\ Released' = Released \cup {k}
    BY <1>4, <2>1, <2>2, Stages DEF Released
  <2>4. Approvals!Release(k)
    BY <1>1, <1>2, <2>3 DEF Approvals!Release, Released
  <2> QED
    BY <2>4 DEF Approvals!Next
<1> QED
  BY <1>1, <1>3, <1>4

LEMMA DecideImplements ==
    ASSUME IInv, DecidedInv, NEW k \in ReviewId,
           NEW stage \in {"pending_request", "pending_image"},
           NEW approve \in BOOLEAN, Decide(k, stage, approve)
    PROVE  Approvals!Next
<1> DEFINE verdict == Verdict(stage, approve)
<1>1. TypeOK /\ RowDecided(k) /\ OwnerOf[k.run] \in Owners
  BY ConstantsAssumption DEF IInv, DecidedInv, ReviewId
<1>2. /\ UNCHANGED <<account, files, produced>>
      /\ account[OwnerOf[k.run]].revision = k.revision
      /\ decisions' = decisions \cup {<<k, verdict>>}
  BY <1>1, DecideFacts
<1>3. \A j \in ReviewId \ {k} : StageOf(j)' = StageOf(j)
  BY <1>2 DEF StageOf
<1>4. \/ StageOf(k) = "new" /\ verdict = "request_approved"
      \/ StageOf(k) = "generated" /\ verdict = "approved"
      \/ StageOf(k) \in {"new", "generated"} /\ verdict = "rejected"
  BY <1>1, DecideFacts, Stages
<1>5. /\ verdict = "rejected" => StageOf(k)' = "refused"
      /\ verdict = "approved" /\ StageOf(k) = "generated" => StageOf(k)' = "approved"
      /\ verdict = "request_approved" /\ StageOf(k) = "new" => StageOf(k)' = "allowed"
  BY <1>2 DEF StageOf
<1>6. Approvals!Decide(k)
  BY <1>1, <1>2, <1>3, <1>4, <1>5 DEF Approvals!Decide, Approvals!Move
<1> QED
  BY <1>6 DEF Approvals!Next

LEMMA BirthdateImplements ==
    ASSUME IInv, NEW o \in Owners, NEW p \in BOOLEAN, SetBirthdate(o, p)
    PROVE  Approvals!Next
<1>1. UNCHANGED <<files, decisions, produced>>
  BY DEF SetBirthdate
<1>2. Revisions' = [Revisions EXCEPT ![o] = @ + 1]
  BY DEF SetBirthdate, Revisions, IInv, TypeOK, Account
<1>3. \A k \in ReviewId : StageOf(k)' = StageOf(k)
  BY <1>1 DEF StageOf
<1>4. Approvals!SetBirthdate(o)
  BY <1>1, <1>2, <1>3 DEF Approvals!SetBirthdate, Revisions
<1> QED
  BY <1>4 DEF Approvals!Next

LEMMA StepImplements ==
    ASSUME IInv, DecidedInv, [Next]_crvars
    PROVE  [Approvals!Next]_(Approvals!vars)
<1>1. TypeOK
  BY DEF IInv
<1>2. ASSUME UNCHANGED <<files, decisions, produced>>,
             \A o \in Owners : account'[o].revision = account[o].revision
      PROVE  UNCHANGED Approvals!vars
  BY <1>2, Quiet DEF StageOf
<1>3. ASSUME NEW r \in Runs, RunNext(r) PROVE [Approvals!Next]_(Approvals!vars)
  <2>1. CASE Produce(r)
    BY <2>1, ProduceImplements
  <2>2. CASE Store(r)
    BY <2>2, StoreImplements
  <2>3. CASE UNCHANGED <<account, files, decisions, produced>>
    BY <1>2, <2>3
  <2>4. Produce(r) \/ Store(r) \/ UNCHANGED <<account, files, decisions, produced>>
    BY <1>3 DEF RunNext, BeginImage, BeginCopy, OperationStep, ReadPolicy, Claim, Release,
          Recheck, Hold, Reject, ReadGuard, ReadLookup, SaveGuard, SaveLookup, Guard, Lookup,
          Refuse, Return, Finish
  <2> QED
    BY <2>1, <2>2, <2>3, <2>4
<1>4. CASE AccountNext
  <2>1. ASSUME NEW o \in Owners, Birthday(o) \/ DeleteAccount(o) PROVE UNCHANGED Approvals!vars
    BY <1>1, <1>2, <2>1 DEF Birthday, DeleteAccount, TypeOK, Account
  <2>2. ASSUME NEW k \in ReviewId, WeekPasses(k) PROVE UNCHANGED Approvals!vars
    BY <1>2, <2>2 DEF WeekPasses
  <2> QED
    BY <1>4, <2>1, <2>2, BirthdateImplements DEF AccountNext
<1>5. CASE ReviewNext
  BY <1>5, DecideImplements DEF ReviewNext
<1>6. CASE Expire \/ Crash \/ UNCHANGED crvars
  BY <1>2, <1>6 DEF Expire, Crash, crvars
<1> QED
  BY <1>3, <1>4, <1>5, <1>6 DEF Next

\* Threads that race expiry, birthdays, restarts and administrators take every
\* protected request along one path of TwoApprovals: allowed, generated once,
\* approved, and only then released (image, decide, set_birthdate, save_bytes).
THEOREM ImplementsApprovals == Spec => ApprovalPromise
<1>1. Init => Approvals!Init
  <2> SUFFICES ASSUME Init PROVE Approvals!Init
    OBVIOUS
  <2>1. \A k \in ReviewId : StageOf(k) = "new"
    BY DEF Init, StageOf
  <2>2. \A o \in Owners : account[o].revision = 0
    BY DEF Init
  <2> QED
    BY <2>1, <2>2 DEF Init, Approvals!Init
<1>2. IInv /\ DecidedInv /\ [Next]_crvars => [Approvals!Next]_(Approvals!vars)
  BY StepImplements
<1> QED
  BY <1>1, <1>2, Invariance, DecidedInvariance, PTL DEF Spec, ApprovalPromise, Approvals!Spec

-----------------------------------------------------------------------------
(* The limit on open reviews.                                              *)

\* Private bytes are bounded: never more reviews are open, over all accounts,
\* than the limit, although only the claim that inserts a row counts them, and
\* counts what its own sweep would leave (image, ReviewStorageFull).
ReviewStorageBounded ==
    /\ IsFiniteSet(OpenReviews(review))
    /\ Cardinality(OpenReviews(review)) <= ReviewLimit

\* No ended or absent review becomes open.
NothingOpens == OpenReviews(review') \subseteq OpenReviews(review)

LEMMA EndsOpenNothing ==
    ASSUME OnlyEnds
    PROVE  NothingOpens
BY DEF OnlyEnds, NothingOpens, OpenReviews, IsOpen, OpenStates, EndStates

\* The rows the claim's sweep leaves open were open before.
LEMMA SweepOpensNothing ==
    ASSUME TypeOK
    PROVE  OpenReviews(Swept) \subseteq OpenReviews(review)
BY SweepsEnd DEF OpenReviews, IsOpen, OpenStates

LEMMA BoundKept ==
    ASSUME ReviewStorageBounded, NothingOpens
    PROVE  ReviewStorageBounded'
<1>1. OpenReviews(review') \in SUBSET OpenReviews(review)
  BY DEF NothingOpens
<1>2. /\ IsFiniteSet(OpenReviews(review')) /\ Cardinality(OpenReviews(review')) \in Nat
      /\ Cardinality(OpenReviews(review)) \in Nat
      /\ Cardinality(OpenReviews(review')) <= Cardinality(OpenReviews(review))
  BY <1>1, FS_Subset, FS_CardinalityType DEF ReviewStorageBounded
<1> QED
  BY <1>2, ConstantsAssumption DEF ReviewStorageBounded, OpenReviews, IsOpen

LEMMA ClaimBound ==
    ASSUME TypeOK, ReviewStorageBounded, NEW r \in Runs, Claim(r)
    PROVE  ReviewStorageBounded'
<1>1. Key(r) \in ReviewId /\ Swept \in [ReviewId -> Review]
  BY KeyType, ReviewTypes DEF TypeOK
<1>2. CASE ClaimNew(r)
  <2>1. OpenReviews(Swept) \in SUBSET OpenReviews(review)
    BY SweepOpensNothing
  <2>2. IsFiniteSet(OpenReviews(Swept)) /\ Cardinality(OpenReviews(Swept)) \in Nat
    BY <2>1, FS_Subset, FS_CardinalityType DEF ReviewStorageBounded
  <2>3. Cardinality(OpenReviews(Swept)) < ReviewLimit
    BY <1>2, <2>2, ConstantsAssumption DEF ClaimNew, Full
  <2>4. OpenReviews(review') = OpenReviews(Swept) \cup {Key(r)}
    BY <1>1, <1>2 DEF ClaimNew, OpenReviews, IsOpen, OpenStates, NoReview
  <2>5. /\ IsFiniteSet(OpenReviews(review'))
        /\ Cardinality(OpenReviews(review')) <= Cardinality(OpenReviews(Swept)) + 1
    BY <2>2, <2>4, FS_AddElement
  <2>6. Cardinality(OpenReviews(review')) \in Nat
    BY <2>5, FS_CardinalityType
  <2>7. Cardinality(OpenReviews(review')) <= ReviewLimit
    BY <2>2, <2>3, <2>5, <2>6, ConstantsAssumption
  <2> QED
    BY <2>5, <2>7 DEF ReviewStorageBounded, OpenReviews, IsOpen
<1>3. CASE ClaimGeneration(r)
  <2>1. review[Key(r)].state = "request_approved"
    BY <1>1, <1>3, SweepsEnd DEF ClaimGeneration, SweptRow
  <2>2. \A k \in ReviewId \ {Key(r)} : review'[k] = Swept[k]
    BY <1>1, <1>3 DEF ClaimGeneration
  <2>3. NothingOpens
    BY <2>1, <2>2, SweepOpensNothing DEF NothingOpens, OpenReviews, IsOpen, OpenStates
  <2> QED
    BY <2>3, BoundKept
<1>4. CASE UNCHANGED review \/ review' = Swept
  BY <1>4, BoundKept, SweepOpensNothing DEF NothingOpens
<1> QED
  BY <1>2, <1>3, <1>4 DEF Claim, ClaimFull, ClaimPending, ClaimApproved, ClaimEnded

LEMMA DecideBound ==
    ASSUME TypeOK, ReviewStorageBounded, NEW k \in ReviewId, NEW stage, NEW approve \in BOOLEAN,
           Decide(k, stage, approve)
    PROVE  ReviewStorageBounded'
<1>1. review[k].state \in {"pending_request", "pending_image"}
  BY DEF Decide, Decidable
<1>2. \A j \in ReviewId \ {k} : review'[j] = review[j]
  BY DEF Decide, TypeOK
<1>3. NothingOpens
  BY <1>1, <1>2 DEF NothingOpens, OpenReviews, IsOpen, OpenStates
<1> QED
  BY <1>3, BoundKept

LEMMA BoundStep ==
    ASSUME TypeOK, ReviewStorageBounded, [Next]_crvars
    PROVE  ReviewStorageBounded'
<1>1. ASSUME OnlyEnds PROVE ReviewStorageBounded'
  BY <1>1, EndsOpenNothing, BoundKept
<1>2. ASSUME UNCHANGED review PROVE ReviewStorageBounded'
  BY <1>2, BoundKept DEF NothingOpens
<1>3. ASSUME NEW r \in Runs, RunNext(r) PROVE ReviewStorageBounded'
  <2>1. CASE Claim(r)
    BY <2>1, ClaimBound
  <2>2. CASE Hold(r)
    <3>1. Key(r) \in ReviewId
      BY KeyType
    <3>2. NothingOpens
      BY <2>2, <3>1 DEF Hold, MayHold, TypeOK, NothingOpens, OpenReviews, IsOpen, OpenStates
    <3> QED
      BY <3>2, BoundKept
  <2>3. CASE Reject(r)
    <3>1. Key(r) \in ReviewId
      BY KeyType
    <3>2. \A k \in ReviewId : review'[k] = review[k] \/ review'[k].state = "rejected"
      BY <2>3, <3>1 DEF Reject, TypeOK, Review
    <3>3. NothingOpens
      BY <3>2 DEF NothingOpens, OpenReviews, IsOpen, OpenStates
    <3> QED
      BY <3>3, BoundKept
  <2>4. CASE Finish(r)
    BY <1>1, <2>4, SweepsEnd DEF Finish
  <2>5. CASE UNCHANGED review
    BY <1>2, <2>5
  <2> QED
    BY <1>3, <2>1, <2>2, <2>3, <2>4, <2>5 DEF RunNext, BeginImage, BeginCopy, OperationStep,
       ReadPolicy, Release, Produce, Recheck, ReadGuard, ReadLookup, SaveGuard, SaveLookup,
       Guard, Lookup, Store, Refuse, Return
<1>4. CASE AccountNext
  <2>1. ASSUME NEW k \in ReviewId, WeekPasses(k) PROVE NothingOpens
    BY <2>1 DEF WeekPasses, TypeOK, NothingOpens, OpenReviews, IsOpen, OpenStates
  <2>2. ASSUME NEW o \in Owners, NEW p \in BOOLEAN, SetBirthdate(o, p) PROVE OnlyEnds
    BY <2>2, SweepsEnd DEF SetBirthdate
  <2> QED
    BY <1>1, <1>2, <1>4, <2>1, <2>2, BoundKept DEF AccountNext, Birthday, DeleteAccount
<1>5. CASE ReviewNext
  BY <1>5, DecideBound DEF ReviewNext
<1>6. CASE Expire \/ Crash \/ UNCHANGED crvars
  BY <1>1, <1>2, <1>6, SweepsEnd DEF Expire, Crash, crvars
<1> QED
  BY <1>3, <1>4, <1>5, <1>6 DEF Next

\* However many threads claim at once, whatever expires, closes or is decided
\* between them, and after any crash, at most ReviewLimit reviews are open
\* (image's "if count >= 32", the insertion in the same transaction).
THEOREM StorageIsBounded == Spec => []ReviewStorageBounded
<1>1. Init => ReviewStorageBounded
  <2> SUFFICES ASSUME Init PROVE ReviewStorageBounded
    OBVIOUS
  <2>1. OpenReviews(review) = {}
    BY DEF Init, OpenReviews, IsOpen, OpenStates, NoReview
  <2> QED
    BY <2>1, FS_EmptySet, ConstantsAssumption DEF ReviewStorageBounded
<1>2. TypeOK /\ ReviewStorageBounded /\ [Next]_crvars => ReviewStorageBounded'
  BY BoundStep
<1> QED
  BY <1>1, <1>2, TypeCorrect, PTL DEF Spec
=============================================================================
