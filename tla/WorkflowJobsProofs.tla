------------------------- MODULE WorkflowJobsProofs -------------------------
(***************************************************************************)
(* Proofs about WorkflowJobs for every set of runs and accounts, every     *)
(* plan and all bounds: its invariants, and that it implements             *)
(* ContentReview, so that the theorems of ContentReviewProofs hold of the  *)
(* job service as well.                                                    *)
(***************************************************************************)
EXTENDS WorkflowJobs, ContentReviewProofs, FiniteSetTheorems

-----------------------------------------------------------------------------
(* Whose images an operation handles: an invariant of ContentReview that   *)
(* the job service relies on when a copy step takes an earlier value.      *)

Carrying == {"recheck", "release", "readGuard", "readLookup", "saveGuard",
             "saveLookup", "store", "saved"}

OwnOK(r) ==
    /\ call[r].pc \in Carrying =>
          call[r].image \in Image /\ OwnerOf[call[r].image.review.run] = OwnerOf[r]
    /\ call[r].pc = "saved" => call[r].image \in files

OwnInv == \A r \in Runs : OwnOK(r)

\* A thread that keeps the image it carried when it goes on keeps it of its owner.
LEMMA OwnGoto ==
    ASSUME TypeOK, NEW r \in Runs, NEW pc, Goto(r, pc), OwnOK(r),
           pc \in Carrying => call[r].pc \in Carrying, pc # "saved"
    PROVE  OwnOK(r)'
BY GotoFacts DEF OwnOK

LEMMA OwnOperation ==
    ASSUME IInv, OwnInv, NEW r \in Runs, OperationStep(r)
    PROVE  OwnInv'
<1> USE DEF OwnInv
<1>1. TypeOK /\ CallOK(r) /\ OwnOK(r) /\ Key(r) \in ReviewId
  BY KeyType DEF IInv, CallInv
<1>2. files \subseteq files' /\ \A q \in Runs \ {r} : call'[q] = call[q]
  BY <1>1 DEF OperationStep, ReadPolicy, Claim, ClaimNew, ClaimFull, ClaimGeneration,
         ClaimPending, ClaimApproved, ClaimEnded, Release, Produce, Recheck, Hold, Reject,
         ReadGuard, ReadLookup, SaveGuard, SaveLookup, Guard, Lookup, Store, Refuse, Goto,
         TypeOK
<1>3. OwnOK(r)'
  <2>1. CASE ReadPolicy(r)
    <3>1. call'[r].pc \in {"claim", "produce", "failed"}
      BY <1>1, <2>1 DEF ReadPolicy, Goto, TypeOK, Call
    <3> QED
      BY <3>1 DEF OwnOK, Carrying
  <2>2. CASE Claim(r)
    <3>1. CASE ClaimApproved(r)
      <4>1. call'[r].pc = "release" /\ call'[r].image = Swept[Key(r)].image
        BY <1>1, <3>1 DEF ClaimApproved, SweptRow, TypeOK, Call
      <4>2. Swept[Key(r)].image # NoImage
        BY <3>1 DEF ClaimApproved, SweptRow
      <4>3. Swept[Key(r)].image = review[Key(r)].image
        BY <1>1, <4>2, SweepsEnd
      <4>4. Swept[Key(r)].image = [review |-> Key(r), protected |-> TRUE]
        BY <1>1, <4>2, <4>3 DEF IInv, ReviewInv
      <4>5. Key(r).run = r
        BY DEF Key
      <4> QED
        BY <1>1, <4>1, <4>4, <4>5 DEF OwnOK, Image
    <3>2. CASE ~ClaimApproved(r)
      <4>1. call'[r].pc \in {"held", "failed", "produce"}
        BY <1>1, <2>2, <3>2 DEF Claim, ClaimNew, ClaimFull, ClaimGeneration, ClaimPending,
               ClaimEnded, Goto, TypeOK, Call
      <4> QED
        BY <4>1 DEF OwnOK, Carrying
    <3> QED
      BY <3>1, <3>2
  <2>3. CASE Produce(r)
    <3>1. \/ /\ call'[r].pc = "recheck"
             /\ call'[r].image = [review |-> Key(r), protected |-> call[r].protected]
          \/ call'[r].pc \in {"reject", "failed"}
      BY <1>1, <2>3 DEF Produce, Goto, TypeOK, Call
    <3>2. [review |-> Key(r), protected |-> call[r].protected] \in Image /\ Key(r).run = r
      BY <1>1 DEF Image, TypeOK, Call, Key
    <3> QED
      BY <3>1, <3>2 DEF OwnOK, Carrying
  <2>4. CASE Store(r)
    <3>1. \/ /\ call'[r].pc = "saved" /\ call'[r].image = call[r].image
             /\ call[r].image \in files'
          \/ call'[r].pc = "failed"
      BY <1>1, <2>4, GotoFacts DEF Store
    <3>2. call[r].pc = "store"
      BY <2>4 DEF Store, At
    <3> QED
      BY <1>1, <3>1, <3>2 DEF OwnOK, Carrying
  <2>5. CASE Hold(r) \/ Reject(r) \/ Refuse(r)
    <3>1. call'[r].pc \in {"held", "failed"}
      BY <1>1, <2>5 DEF Hold, Reject, Refuse, Goto, TypeOK, Call
    <3> QED
      BY <3>1 DEF OwnOK, Carrying
  <2>6. CASE Release(r) \/ Recheck(r) \/ ReadGuard(r) \/ ReadLookup(r)
             \/ SaveGuard(r) \/ SaveLookup(r)
    <3>1. PICK pc : Goto(r, pc) /\ pc # "saved"
      BY <2>6 DEF Release, Recheck, AfterProduce, ReadGuard, ReadLookup, SaveGuard,
             SaveLookup, Guard, Lookup
    <3>2. call[r].pc \in Carrying
      BY <2>6 DEF Release, Recheck, ReadGuard, ReadLookup, SaveGuard, SaveLookup,
             Guard, Lookup, At, Carrying
    <3> QED
      BY <1>1, <3>1, <3>2, OwnGoto
  <2> QED
    BY <2>1, <2>2, <2>3, <2>4, <2>5, <2>6 DEF OperationStep
<1>4. ASSUME NEW q \in Runs, q # r PROVE OwnOK(q)'
  BY <1>2, <1>4 DEF OwnOK
<1> QED
  BY <1>3, <1>4

LEMMA OwnStep ==
    ASSUME IInv, OwnInv, [Next]_crvars
    PROVE  OwnInv'
<1> USE DEF OwnInv
<1>1. TypeOK /\ \A f \in files : f \in Image
  BY DEF IInv, TypeOK
<1>2. CASE UNCHANGED <<call, files>>
  BY <1>2 DEF OwnOK
<1>3. ASSUME NEW r \in Runs, RunNext(r) PROVE OwnInv'
  <2>1. ASSUME NEW d \in Digests, BeginImage(r, d) PROVE OwnInv'
    <3>1. /\ files' = files /\ call'[r].pc = "policy"
          /\ \A q \in Runs \ {r} : call'[q] = call[q]
      BY <1>1, <2>1, Constants DEF BeginImage, TypeOK, Call
    <3> QED
      BY <3>1 DEF OwnOK, Carrying
  <2>2. ASSUME NEW f \in files, OwnerOf[f.review.run] = OwnerOf[r], BeginCopy(r, f)
        PROVE  OwnInv'
    <3>1. /\ files' = files /\ call'[r].pc = "readGuard" /\ call'[r].image = f
          /\ \A q \in Runs \ {r} : call'[q] = call[q]
      BY <1>1, <2>2, Constants DEF BeginCopy, TypeOK, Call
    <3> QED
      BY <1>1, <2>2, <3>1 DEF OwnOK, Carrying
  <2>3. CASE Return(r)
    <3>1. /\ files' = files /\ call'[r].pc = "idle"
          /\ \A q \in Runs \ {r} : call'[q] = call[q]
      BY <1>1, <2>3, Constants DEF Return, TypeOK
    <3> QED
      BY <3>1 DEF OwnOK, Carrying
  <2>4. CASE Finish(r)
    BY <1>2, <2>4 DEF Finish
  <2> QED
    BY <1>3, <2>1, <2>2, <2>3, <2>4, OwnOperation DEF RunNext
<1>4. CASE Crash
  <2>1. \A r \in Runs : call'[r].pc = "idle"
    BY <1>4, Constants DEF Crash
  <2> QED
    BY <2>1 DEF OwnOK, Carrying
<1>5. CASE AccountNext \/ ReviewNext \/ Expire \/ UNCHANGED crvars
  BY <1>2, <1>5 DEF AccountNext, SetBirthdate, Birthday, DeleteAccount, WeekPasses,
         ReviewNext, Decide, Expire, crvars
<1> QED
  BY <1>3, <1>4, <1>5 DEF Next

-----------------------------------------------------------------------------
(* The invariant of the job service.                                       *)

\* The worker has a run in its hand.
Holding == {"resume", "ready", "finish"} \cup Executing

\* What the worker knows of the run in its hand.
InHand ==
    /\ worker.pc \in Holding => Current \in Runs
    /\ worker.pc \in Executing => worker.step = run[Current].done + 1
    /\ worker.pc = "tool" => HasStep

\* An artifact a run of this account may read.
Owned(r, f) == f \in files /\ OwnerOf[f.review.run] = OwnerOf[r]

\* A run holds what it was given and the output of each completed step, and the
\* artifacts among them are in the store, for its owner.
Outputs ==
    \A r \in Runs :
        /\ Len(run[r].values) = run[r].done + 1
        /\ \A n \in 1..run[r].done + 1 :
              run[r].values[n] # NoImage => Owned(r, run[r].values[n])
        /\ run[r].state = "absent" => run[r].done = 0

JInv ==
    /\ IInv
    /\ OwnInv
    /\ JobsTypeOK
    /\ WorkerOwnsRunning
    /\ InHand
    /\ Outputs

-----------------------------------------------------------------------------
(* Every step of the job service is a step of ContentReview, or none.      *)

LEMMA PlanFacts ==
    ASSUME JInv, WorkerAt("step"), HasStep
    PROVE  /\ Current \in Runs
           /\ Plan[Current][worker.step] \in PlanStep
           /\ Plan[Current][worker.step].input \in 1..run[Current].done + 1
<1>1. Current \in Runs /\ worker.step = run[Current].done + 1 /\ run[Current].done \in Nat
  BY DEF JInv, InHand, Holding, Executing, WorkerAt, JobsTypeOK, Run
<1>2. /\ Plan[Current] \in Seq(PlanStep)
      /\ \A n \in 1..Len(Plan[Current]) : Plan[Current][n].input \in 1..n
  BY <1>1, PlanAssumption
<1>3. worker.step \in 1..Len(Plan[Current])
  BY <1>1, <1>2 DEF HasStep
<1>4. Plan[Current][worker.step] \in PlanStep
  <2>1. ASSUME NEW S, NEW q \in Seq(S), NEW n \in 1..Len(q) PROVE q[n] \in S
    BY <2>1
  <2> QED
    BY <1>2, <1>3, <2>1
<1> QED
  BY <1>1, <1>2, <1>3, <1>4

LEMMA WorkRefines ==
    ASSUME JInv, Work
    PROVE  [Next]_crvars
<1>1. CASE UNCHANGED crvars
  BY <1>1
<1>2. ASSUME NEW r \in Runs, PollCheck(r) PROVE [Next]_crvars
  <2>1. CASE review' = review
    BY <1>2, <2>1 DEF PollCheck, crvars
  <2>2. CASE review' = AfterExpire
    BY <1>2, <2>2 DEF PollCheck, Expire, Next
  <2> QED
    BY <1>2, <2>1, <2>2 DEF PollCheck
<1>3. CASE StepStart
  <2> DEFINE step == Plan[Current][worker.step]
  <2>1. Current \in Runs /\ step \in PlanStep /\ step.input \in 1..run[Current].done + 1
    BY <1>3, PlanFacts DEF StepStart
  <2>2. CASE BeginImage(Current, step.digest)
    BY <2>1, <2>2 DEF Next, RunNext, PlanStep
  <2>3. CASE HasInput(step) /\ BeginCopy(Current, InputOf(step))
    <3>1. Owned(Current, InputOf(step))
      BY <2>1, <2>3 DEF JInv, Outputs, HasInput, InputOf
    <3> QED
      BY <2>1, <2>3, <3>1 DEF Next, RunNext, Owned
  <2> QED
    BY <1>3, <2>2, <2>3 DEF StepStart
<1>4. CASE StepSucceeded \/ StepFailed \/ StepHeld
  <2>1. Current \in Runs /\ Return(Current)
    BY <1>4 DEF StepSucceeded, StepFailed, StepHeld, JInv, InHand, Holding, Executing, WorkerAt
  <2> QED
    BY <2>1 DEF Next, RunNext
<1>5. CASE ReadyCheck
  BY <1>5 DEF ReadyCheck, Next
<1>6. CASE FinishRun
  <2>1. Current \in Runs
    BY <1>6 DEF FinishRun, JInv, InHand, Holding, WorkerAt
  <2> QED
    BY <1>6, <2>1 DEF FinishRun, Next, RunNext
<1> QED
  BY <1>1, <1>2, <1>3, <1>4, <1>5, <1>6
     DEF Work, Dequeue, WorkerExit, PollBegin, PollResume, PollEnd, StepCancelled, StepRefused,
         StepTimeout, Complete, Conclude

LEMMA StepRefines ==
    ASSUME JInv, [JobsNext]_vars
    PROVE  [Next]_crvars
<1>1. CASE UNCHANGED crvars
  BY <1>1
<1>2. ASSUME NEW r \in Runs, Operate(r) \/ Discard(r)
      PROVE  [Next]_crvars
  BY <1>2 DEF Operate, Discard, Next, RunNext
<1>3. ASSUME NEW r \in Runs, Handler(r)
      PROVE  [Next]_crvars
  BY <1>3, <1>1 DEF Handler, StartWorker, CancelFinish, ResumeReview, CancelWrite, Next, RunNext
<1>4. CASE UserRequest
  BY <1>4, <1>1 DEF UserRequest, Submit, CancelRead, Delete
<1>5. CASE AdminRequest
  BY <1>5 DEF AdminRequest, DecideReview, Next, ReviewNext
<1>6. CASE Environment \/ Restart
  BY <1>6 DEF Environment, Restart, Next
<1>7. CASE Close \/ UNCHANGED vars
  BY <1>1, <1>7 DEF Close, vars
<1> QED
  BY <1>2, <1>3, <1>4, <1>5, <1>6, <1>7, WorkRefines DEF JobsNext

LEMMA FilesGrow ==
    ASSUME TypeOK, [Next]_crvars
    PROVE  files \subseteq files'
BY DEF Next, RunNext, BeginImage, BeginCopy, Return, Finish, OperationStep, ReadPolicy, Claim,
       Release, Produce, Recheck, Hold, Reject, ReadGuard, ReadLookup, SaveGuard, SaveLookup,
       Guard, Lookup, Store, Refuse, Crash, AccountNext, SetBirthdate, Birthday, DeleteAccount,
       WeekPasses, ReviewNext, Decide, Expire, crvars

-----------------------------------------------------------------------------
(* Types.                                                                  *)

JobsTypes ==
    /\ run \in [Runs -> Run]
    /\ worker \in Worker
    /\ stopping \in BOOLEAN
    /\ calls \subseteq Continuation
    /\ restarts \in 0..MaxRestarts

\* A row that changes one of its columns is a row.
LEMMA RowTypes ==
    ASSUME NEW rn \in Run
    PROVE  /\ \A st \in RunStates : [rn EXCEPT !.state = st] \in Run
           /\ \A st \in RunStates, k \in ReviewId \cup {NoKey} :
                 [rn EXCEPT !.state = st, !.review = k] \in Run
           /\ \A st \in RunStates, n \in Nat, f \in Image :
                 [rn EXCEPT !.state = st, !.done = n, !.values = Append(@, f)] \in Run
           /\ \A st \in RunStates : [rn EXCEPT !.cancel = TRUE, !.state = st] \in Run
<1>1. rn.values \in Seq(Image \cup {NoImage})
  BY DEF Run
<1>2. \A f \in Image : Append(rn.values, f) \in Seq(Image \cup {NoImage})
  BY <1>1
<1> QED
  BY <1>2 DEF Run

\* A row that changes its state keeps the other columns.
LEMMA StateChange ==
    ASSUME JobsTypes, NEW q \in Runs, NEW st, run' = [run EXCEPT ![q].state = st]
    PROVE  /\ run'[q].state = st /\ run'[q].cancel = run[q].cancel
           /\ run'[q].done = run[q].done /\ run'[q].values = run[q].values
           /\ run'[q].review = run[q].review
           /\ \A p \in Runs \ {q} : run'[p] = run[p]
BY DEF JobsTypes, Run

\* What appending an output does.
LEMMA AppendFacts ==
    ASSUME NEW S, NEW s \in Seq(S), NEW e \in S
    PROVE  /\ Len(Append(s, e)) = Len(s) + 1
           /\ \A n \in 1..Len(s) : Append(s, e)[n] = s[n]
           /\ Append(s, e)[Len(s) + 1] = e
OBVIOUS

LEMMA WorkerTypes ==
    /\ IdleWorker \in Worker
    /\ [IdleWorker EXCEPT !.pc = "dead"] \in Worker
    /\ \A r \in Runs, n \in Nat : [IdleWorker EXCEPT !.pc = "step", !.run = r, !.step = n] \in Worker
    /\ worker \in Worker =>
          \A pc \in {"dead", "idle", "poll", "resume", "ready", "finish"} \cup Executing :
             WorkerGoto(pc) => worker' \in Worker
BY DEF IdleWorker, Worker, WorkerGoto, Executing, Conclusions

LEMMA SentAndResumed ==
    ASSUME JobsTypes, NEW r \in Runs
    PROVE  Resumed(r) \in [Runs -> Run]
BY RowTypes DEF JobsTypes, Resumed, RunStates, Unfinished

LEMMA WorkTypes ==
    ASSUME JInv, Work
    PROVE  JobsTypes'
<1> USE DEF JobsTypes
<1>1. JobsTypes /\ TypeOK
  BY DEF JInv, JobsTypeOK
<1>2. worker.pc \in Holding => Current \in Runs /\ run[Current] \in Run
  BY <1>1 DEF JInv, InHand
<1>3. worker.pc \in Executing => worker.step \in Nat /\ call[Current] \in Call
  BY <1>1, <1>2 DEF Worker, TypeOK, Holding
<1> USE DEF RunStates, Unfinished, Waiting, Terminal, Executing, Conclusions, Holding
<1>4. ASSUME NEW r \in Runs, Dequeue(r) PROVE JobsTypes'
  <2>1. run[r] \in Run /\ NextStep(r) \in Nat
    BY <1>1 DEF NextStep, Run
  <2>2. [run[r] EXCEPT !.state = "running"] \in Run
    BY <2>1, RowTypes
  <2> QED
    BY <1>1, <1>4, <2>1, <2>2, WorkerTypes DEF Dequeue
<1>5. ASSUME NEW r \in Runs, PollCheck(r) PROVE JobsTypes'
  <2>1. worker' \in Worker
    BY <1>1, <1>5 DEF PollCheck, Worker
  <2> QED
    BY <1>1, <1>5, <2>1 DEF PollCheck
<1>6. CASE WorkerExit \/ PollEnd
  BY <1>1, <1>6, WorkerTypes DEF WorkerExit, PollEnd
<1>7. CASE PollBegin
  <2>1. WaitingRuns \subseteq Runs
    BY DEF WaitingRuns, InState
  <2>2. worker' \in Worker
    BY <1>1, <1>7, <2>1 DEF PollBegin, Worker
  <2> QED
    BY <1>1, <1>7, <2>2 DEF PollBegin
<1>8. CASE PollResume
  BY <1>1, <1>2, <1>8, WorkerTypes, SentAndResumed DEF PollResume, WorkerAt
<1>9. CASE StepCancelled \/ StepRefused \/ Conclude \/ StepFailed \/ StepTimeout
  <2>1. Current \in Runs /\ run[Current] \in Run
    BY <1>2, <1>9 DEF StepCancelled, StepRefused, Conclude, StepFailed, StepTimeout, WorkerAt
  <2>2. PICK st \in {"cancelled", "failed", "completed"} :
           \/ run' = [run EXCEPT ![Current] = [run[Current] EXCEPT !.state = st]]
           \/ run' = [run EXCEPT ![Current] = [run[Current] EXCEPT !.state = st, !.review = NoKey]]
    BY <1>1, <1>9, <2>1 DEF StepCancelled, StepRefused, Conclude, StepFailed, StepTimeout
  <2>3. /\ [run[Current] EXCEPT !.state = st] \in Run
        /\ [run[Current] EXCEPT !.state = st, !.review = NoKey] \in Run
    BY <2>1, RowTypes
  <2>4. run' \in [Runs -> Run]
    BY <1>1, <2>2, <2>3
  <2> QED
    BY <1>1, <1>9, <2>4, WorkerTypes
       DEF StepCancelled, StepRefused, Conclude, StepFailed, StepTimeout
<1>15. CASE Complete
  BY <1>1, <1>15, WorkerTypes DEF Complete
<1>10. CASE StepStart
  <2>1. Current \in Runs /\ run[Current] \in Run
    BY <1>2, <1>10 DEF StepStart, WorkerAt
  <2>2. run' \in [Runs -> Run]
    BY <1>1, <1>10, <2>1, RowTypes DEF StepStart
  <2> QED
    BY <1>1, <1>10, <2>2, WorkerTypes DEF StepStart
<1>11. CASE StepSucceeded
  <2>1. Current \in Runs /\ run[Current] \in Run /\ worker.step \in Nat
    BY <1>2, <1>3, <1>11 DEF StepSucceeded, WorkerAt
  <2>2. call[Current].image \in Image
    BY <2>1, <1>11 DEF StepSucceeded, At, JInv, OwnInv, OwnOK, Carrying
  <2>3. run' \in [Runs -> Run]
    BY <1>1, <1>11, <2>1, <2>2, RowTypes DEF StepSucceeded
  <2>4. worker' \in Worker
    <3>1. worker.step + 1 \in Nat
      BY <2>1
    <3>2. \A n \in Nat : [worker EXCEPT !.pc = "step", !.step = n] \in Worker
      BY <1>1 DEF Worker
    <3> QED
      BY <1>11, <3>1, <3>2 DEF StepSucceeded
  <2> QED
    BY <1>1, <1>11, <2>3, <2>4 DEF StepSucceeded
<1>12. CASE StepHeld
  <2>1. Current \in Runs /\ run[Current] \in Run
    BY <1>2, <1>12 DEF StepHeld, WorkerAt
  <2>2. Key(Current) \in ReviewId
    BY <1>1, <2>1, KeyType
  <2>3. run' \in [Runs -> Run]
    BY <1>1, <1>12, <2>1, <2>2, RowTypes DEF StepHeld
  <2> QED
    BY <1>1, <1>12, <2>3, WorkerTypes DEF StepHeld
<1>13. CASE ReadyCheck
  <2>1. Current \in Runs
    BY <1>2, <1>13 DEF ReadyCheck, WorkerAt
  <2> QED
    BY <1>1, <1>13, <2>1, SentAndResumed, WorkerTypes DEF ReadyCheck
<1>14. CASE FinishRun
  BY <1>1, <1>14, WorkerTypes DEF FinishRun
<1> QED
  BY <1>4, <1>5, <1>6, <1>7, <1>8, <1>9, <1>10, <1>11, <1>12, <1>13, <1>14, <1>15 DEF Work

LEMMA OtherTypes ==
    ASSUME JInv, JobsNext, ~Work
    PROVE  JobsTypes'
<1> USE DEF JobsTypes
<1>1. JobsTypes
  BY DEF JInv, JobsTypeOK
<1> USE DEF RunStates, Unfinished, Waiting, Terminal
<1>2. \A op \in {"start", "resume", "finish", "cancel"}, r \in Runs :
         Call_(op, r) \in Continuation
  BY DEF Call_, Continuation
<1>3. CASE UNCHANGED <<run, worker, stopping, calls, restarts>>
  BY <1>1, <1>3
<1>4. ASSUME NEW r \in Runs, Submit(r) PROVE JobsTypes'
  <2>1. Cardinality(Runs \ InState({"absent"})) \in Nat
    BY FiniteAssumption, FS_Difference, FS_CardinalityType
  <2>2. ASSUME NEW input \in Inputs(OwnerOf[r])
        PROVE  [AbsentRun EXCEPT !.state = "queued", !.values = <<input>>,
                  !.created = Cardinality(Runs \ InState({"absent"}))] \in Run
    <3>1. <<input>> \in Seq(Image \cup {NoImage})
      BY DEF Inputs, JInv, IInv, TypeOK
    <3> QED
      BY <2>1, <3>1 DEF AbsentRun, Run
  <2> QED
    BY <1>1, <1>2, <1>4, <2>2 DEF Submit
<1>5. ASSUME NEW r \in Runs, CancelRead(r) PROVE JobsTypes'
  <2>1. \A w \in BOOLEAN : [op |-> "cancel", run |-> r, waiting |-> w] \in Continuation
    BY DEF Continuation
  <2>2. (run[r].state = Waiting) \in BOOLEAN
    OBVIOUS
  <2>3. calls' \subseteq Continuation
    BY <1>1, <1>5, <2>1, <2>2 DEF CancelRead
  <2> QED
    BY <1>1, <1>5, <2>3 DEF CancelRead
<1>6. ASSUME NEW r \in Runs, Delete(r) PROVE JobsTypes'
  <2>1. [run[r] EXCEPT !.state = "deleted"] \in Run
    BY <1>1, RowTypes
  <2> QED
    BY <1>1, <1>6, <2>1 DEF Delete
<1>7. ASSUME NEW r \in Runs, StartWorker(r) \/ CancelFinish(r) PROVE JobsTypes'
  BY <1>1, <1>7, WorkerTypes DEF StartWorker, CancelFinish
<1>8. ASSUME NEW r \in Runs, ResumeReview(r) PROVE JobsTypes'
  BY <1>1, <1>2, <1>8, SentAndResumed DEF ResumeReview
<1>9. ASSUME NEW r \in Runs, NEW w \in BOOLEAN,
             CancelWrite([op |-> "cancel", run |-> r, waiting |-> w])
      PROVE  JobsTypes'
  <2> DEFINE st == IF run[r].state = Waiting THEN "cancelled" ELSE run[r].state
             row == [run[r] EXCEPT !.cancel = TRUE, !.state = st]
  <2>1. run[r] \in Run /\ st \in RunStates
    BY <1>1 DEF Run
  <2>2. row \in Run
    BY <2>1, RowTypes
  <2>3. run' = run \/ run' = [run EXCEPT ![r] = row]
    BY <1>9 DEF CancelWrite
  <2>4. run' \in [Runs -> Run]
    BY <1>1, <2>2, <2>3
  <2> QED
    BY <1>1, <1>2, <1>9, <2>4 DEF CancelWrite
<1>10. ASSUME NEW k \in ReviewId, NEW stage, NEW approve, DecideReview(k, stage, approve)
       PROVE  JobsTypes'
  <2>1. k.run \in Runs
    BY DEF ReviewId
  <2> QED
    BY <1>1, <1>2, <1>10, <2>1 DEF DecideReview
<1>11. CASE Close
  BY <1>1, <1>11 DEF Close
<1>12. CASE Restart
  <2>1. \A r \in Runs : Interrupted(run[r]) \in Run
    BY <1>1, RowTypes DEF Interrupted
  <2>2. restarts' \in 0..MaxRestarts
    BY <1>1, <1>12, LimitsAssumption DEF Restart
  <2>3. run' \in [Runs -> Run]
    BY <1>12, <2>1 DEF Restart
  <2> QED
    BY <1>1, <1>12, <2>2, <2>3, WorkerTypes DEF Restart
<1> QED
  BY <1>3, <1>4, <1>5, <1>6, <1>7, <1>8, <1>9, <1>10, <1>11, <1>12
     DEF JobsNext, Operate, Discard, Handler, UserRequest, AdminRequest, Environment

-----------------------------------------------------------------------------
(* What the worker and the rows agree on.                                  *)

\* Rows keep their completed steps and outputs; none but those in S runs afterwards.
KeepsRows(S) ==
    \A r \in Runs :
        /\ run'[r].done = run[r].done
        /\ run'[r].values = run[r].values
        /\ run'[r].state = "absent" => run[r].state = "absent"
        /\ run'[r].state = "running" => r \in S /\ run[r].state = "running"

LEMMA ResumedKeeps ==
    ASSUME JobsTypes, NEW q \in Runs, run' = Resumed(q)
    PROVE  KeepsRows(Runs) /\ \A r \in Runs : run[r].state = "running" => run'[r].state = "running"
<1>1. CASE run' = run
  BY <1>1 DEF KeepsRows
<1>2. CASE run[q].state = Waiting /\ run' = [run EXCEPT ![q].state = "queued"]
  BY <1>2 DEF KeepsRows, JobsTypes, Run, Waiting
<1> QED
  BY <1>1, <1>2 DEF Resumed, MayResume

\* A change of state of one row alone.
LEMMA EndKeeps ==
    ASSUME JobsTypes, NEW q \in Runs, NEW st, st \notin {"running", "absent"},
           run' = [run EXCEPT ![q].state = st]
              \/ run' = [run EXCEPT ![q].state = st, ![q].review = NoKey]
    PROVE  KeepsRows(Runs \ {q})
BY DEF KeepsRows, JobsTypes, Run

LEMMA KeptOutputs ==
    ASSUME JInv, files \subseteq files', KeepsRows(Runs)
    PROVE  Outputs'
BY DEF JInv, Outputs, Owned, KeepsRows

\* An artifact of this account after the step.
OwnedThen(r, f) == f \in files' /\ OwnerOf[f.review.run] = OwnerOf[r]

\* A step that changes what one run holds.
LEMMA OutputsOfOne ==
    ASSUME JInv, files \subseteq files', NEW q \in Runs,
           \A r \in Runs \ {q} : run'[r] = run[r],
           Len(run'[q].values) = run'[q].done + 1,
           \A n \in 1..run'[q].done + 1 :
              run'[q].values[n] # NoImage => OwnedThen(q, run'[q].values[n]),
           run'[q].state = "absent" => run'[q].done = 0
    PROVE  Outputs'
<1>1. Len(run'[q].values) = run'[q].done + 1
  OBVIOUS
<1> SUFFICES ASSUME NEW r \in Runs
             PROVE  /\ Len(run'[r].values) = run'[r].done + 1
                    /\ \A n \in 1..run'[r].done + 1 :
                          run'[r].values[n] # NoImage => OwnedThen(r, run'[r].values[n])
                    /\ run'[r].state = "absent" => run'[r].done = 0
  BY DEF Outputs, Owned, OwnedThen
<1>2. CASE r = q
  BY <1>1, <1>2
<1>3. CASE r # q
  <2>1. run'[r] = run[r]
    BY <1>3
  <2> QED
    BY <2>1 DEF JInv, Outputs, Owned, OwnedThen
<1> QED
  BY <1>2, <1>3

LEMMA KeptRows ==
    ASSUME JInv, NEW S \in SUBSET Runs, KeepsRows(S)
    PROVE  KeepsRows(Runs)
BY DEF KeepsRows

LEMMA NothingRuns ==
    ASSUME JInv
    PROVE  /\ \A r \in Runs : run[r].state = "running" => Current = r /\ worker.pc \in Executing
           /\ worker.pc \in Executing => Current \in Runs /\ run[Current].state = "running"
BY DEF JInv, WorkerOwnsRunning, InState, InHand, Holding, Executing

\* The worker lets go of the run in its hand, which has left "running".
LEMMA LetsGo ==
    ASSUME JInv, files \subseteq files', worker'.pc \notin Executing,
           worker'.pc \in Holding => Current' \in Runs,
           KeepsRows({}) \/ (Current \in Runs /\ KeepsRows(Runs \ {Current}))
               \/ (worker.pc \notin Executing /\ KeepsRows(Runs))
    PROVE  WorkerOwnsRunning' /\ InHand' /\ Outputs'
<1>1. KeepsRows(Runs)
  BY KeptRows
<1>2. \A r \in Runs : run'[r].state # "running"
  BY NothingRuns DEF KeepsRows
<1> QED
  BY <1>1, <1>2, KeptOutputs DEF WorkerOwnsRunning, InState, InHand, Executing

\* The worker goes on with the run in its hand, and no row changes its state.
LEMMA WorkAgrees ==
    ASSUME JInv, Work, files \subseteq files'
    PROVE  WorkerOwnsRunning' /\ InHand' /\ Outputs'
<1>1. JobsTypes /\ TypeOK
  BY DEF JInv, JobsTypeOK, JobsTypes
<1>2. worker.pc \in Holding => Current \in Runs
  BY DEF JInv, InHand
<1>3. \A pc : WorkerGoto(pc) => worker'.pc = pc /\ Current' = Current /\ worker'.step = worker.step
  BY <1>1 DEF WorkerGoto, Worker, JobsTypes, Current
<1>4. UNCHANGED run => KeepsRows(Runs)
  BY DEF KeepsRows
<1>5. ASSUME NEW r \in Runs, Dequeue(r)
      PROVE  WorkerOwnsRunning' /\ InHand' /\ Outputs'
  <2>1. /\ worker'.pc = "step" /\ worker'.run = r /\ worker'.step = run[r].done + 1
        /\ worker.pc = "idle"
    BY <1>5 DEF Dequeue, IdleWorker, NextStep, WorkerAt
  <2>2. \A q \in Runs : run[q].state # "running"
    BY <2>1, NothingRuns DEF Executing, Conclusions
  <2>3. /\ run'[r].state = "running" /\ run'[r].done = run[r].done /\ run'[r].values = run[r].values
        /\ \A q \in Runs \ {r} : run'[q] = run[q]
    BY <1>1, <1>5 DEF Dequeue, JobsTypes, Run
  <2>4. Outputs'
    BY <2>3 DEF JInv, Outputs, Owned
  <2> QED
    BY <2>1, <2>2, <2>3, <2>4 DEF WorkerOwnsRunning, InState, InHand, Executing, Conclusions, Holding, Current
<1>6. ASSUME NEW r \in Runs, PollCheck(r)
      PROVE  WorkerOwnsRunning' /\ InHand' /\ Outputs'
  <2>1. worker'.pc \in {"resume", "poll"} /\ Current' = r /\ worker.pc = "poll" /\ UNCHANGED run
    BY <1>1, <1>6 DEF PollCheck, WorkerAt, JobsTypes, Worker, Current
  <2> QED
    BY <1>4, <2>1, LetsGo DEF Executing, Conclusions
<1>7. CASE WorkerExit \/ PollBegin \/ PollEnd
  <2>1. CASE WorkerExit
    <3>1. worker'.pc = "dead" /\ worker.pc = "idle" /\ UNCHANGED run
      BY <1>3, <2>1 DEF WorkerExit, WorkerAt
    <3> QED
      BY <1>4, <3>1, LetsGo DEF Executing, Conclusions, Holding
  <2>2. CASE PollBegin
    <3>1. worker'.pc = "poll" /\ worker.pc = "idle" /\ UNCHANGED run
      BY <1>1, <2>2 DEF PollBegin, WorkerAt, JobsTypes, Worker
    <3> QED
      BY <1>4, <3>1, LetsGo DEF Executing, Conclusions, Holding
  <2>3. CASE PollEnd
    <3>1. worker'.pc = "idle" /\ worker.pc = "poll" /\ UNCHANGED run
      BY <2>3 DEF PollEnd, WorkerAt, IdleWorker
    <3> QED
      BY <1>4, <3>1, LetsGo DEF Executing, Conclusions, Holding
  <2> QED
    BY <1>7, <2>1, <2>2, <2>3
<1>8. CASE PollResume \/ ReadyCheck
  <2>1. worker'.pc \in {"poll", "finish"} /\ worker.pc \in {"resume", "ready"} /\ Current' = Current
    BY <1>3, <1>8 DEF PollResume, ReadyCheck, WorkerAt
  <2>2. KeepsRows(Runs)
    BY <1>1, <1>2, <1>4, <1>8, <2>1, ResumedKeeps DEF PollResume, ReadyCheck, Holding
  <2> QED
    BY <1>2, <2>1, <2>2, LetsGo DEF Executing, Conclusions, Holding
<1>9. CASE StepCancelled \/ StepRefused \/ Conclude \/ StepFailed \/ StepTimeout
  <2>1. worker'.pc = "finish" /\ worker.pc \in Executing /\ Current' = Current
    BY <1>3, <1>9 DEF StepCancelled, StepRefused, Conclude, StepFailed, StepTimeout, WorkerAt, Executing,
                     Conclusions
  <2>2. Current \in Runs
    BY <1>2, <2>1 DEF Holding
  <2>3. PICK st \in {"cancelled", "failed", "completed"} :
           \/ run' = [run EXCEPT ![Current].state = st]
           \/ run' = [run EXCEPT ![Current].state = st, ![Current].review = NoKey]
    BY <1>9 DEF StepCancelled, StepRefused, Conclude, StepFailed, StepTimeout, Conclusions
  <2>4. KeepsRows(Runs \ {Current})
    BY <1>1, <2>2, <2>3, EndKeeps
  <2> QED
    BY <2>1, <2>2, <2>4, LetsGo DEF Executing, Conclusions
<1>14. CASE Complete
  <2>1. /\ worker.pc = "step" /\ worker'.pc \in Conclusions /\ Current' = Current
        /\ worker'.step = worker.step /\ UNCHANGED run
    BY <1>3, <1>14 DEF Complete, WorkerAt, Conclusions
  <2>2. Outputs'
    BY <2>1 DEF JInv, Outputs, Owned
  <2> QED
    BY <2>1, <2>2 DEF JInv, WorkerOwnsRunning, InState, InHand, Executing, Conclusions, Holding
<1>10. CASE StepHeld
  <2>1. worker'.pc = "ready" /\ worker.pc \in Executing /\ Current' = Current
    BY <1>3, <1>10 DEF StepHeld, WorkerAt, Executing
  <2>2. Current \in Runs
    BY <1>2, <2>1 DEF Holding
  <2>3. KeepsRows(Runs \ {Current})
    BY <1>1, <1>10, <2>2 DEF StepHeld, KeepsRows, JobsTypes, Run, Waiting
  <2> QED
    BY <2>1, <2>2, <2>3, LetsGo DEF Executing, Conclusions
<1>11. CASE StepStart
  <2>1. worker'.pc = "tool" /\ worker.pc = "step" /\ Current' = Current /\ worker'.step = worker.step
    BY <1>3, <1>11 DEF StepStart, WorkerAt
  <2>2. Current \in Runs /\ HasStep' /\ worker.step = run[Current].done + 1
    BY <1>2, <1>11, <2>1 DEF Holding, Executing, StepStart, HasStep, JInv, InHand
  <2>3. /\ run'[Current].state = "running" /\ run'[Current].done = run[Current].done
        /\ run'[Current].values = run[Current].values
        /\ \A q \in Runs \ {Current} : run'[q] = run[q]
    BY <1>1, <1>11, <2>2 DEF StepStart, JobsTypes, Run
  <2>4. Outputs'
    BY <2>3 DEF JInv, Outputs, Owned
  <2>5. \A q \in Runs \ {Current} : run'[q].state # "running"
    BY <2>3, NothingRuns
  <2> QED
    BY <2>1, <2>2, <2>3, <2>4, <2>5 DEF WorkerOwnsRunning, InState, InHand, Executing, Conclusions, Holding
<1>12. CASE StepSucceeded
  <2>1. worker'.pc = "step" /\ worker.pc = "tool" /\ Current' = Current /\ worker'.step = worker.step + 1
    BY <1>1, <1>12 DEF StepSucceeded, WorkerAt, JobsTypes, Worker, Current
  <2>2. Current \in Runs
    BY <1>2, <2>1 DEF Holding, Executing
  <2>3. /\ call[Current].image \in files
        /\ OwnerOf[call[Current].image.review.run] = OwnerOf[Current]
    BY <1>12, <2>2 DEF StepSucceeded, At, JInv, OwnInv, OwnOK, Carrying
  <2>4. /\ run'[Current].state = "running" /\ run'[Current].done = worker.step
        /\ run'[Current].values = Append(run[Current].values, call[Current].image)
        /\ \A q \in Runs \ {Current} : run'[q] = run[q]
    BY <1>1, <1>12, <2>2 DEF StepSucceeded, JobsTypes, Run
  <2>5. Outputs'
    <3>1. /\ run[Current].values \in Seq(Image \cup {NoImage}) /\ run[Current].done \in Nat
          /\ Len(run[Current].values) = run[Current].done + 1
          /\ worker.step = run[Current].done + 1 /\ run[Current].state # "absent"
      BY <1>1, <2>1, <2>2, NothingRuns DEF JInv, Outputs, InHand, Executing, JobsTypes, Run
    <3>2. /\ Len(run'[Current].values) = run'[Current].done + 1
          /\ \A n \in 1..run[Current].done + 1 : run'[Current].values[n] = run[Current].values[n]
          /\ run'[Current].values[run[Current].done + 2] = call[Current].image
      <4> DEFINE s == run[Current].values
                 e == call[Current].image
      <4>1. /\ Len(Append(s, e)) = Len(s) + 1
            /\ \A n \in 1..Len(s) : Append(s, e)[n] = s[n]
            /\ Append(s, e)[Len(s) + 1] = e
        BY <2>3, <3>1, AppendFacts DEF JInv, IInv, TypeOK
      <4>2. /\ Len(s) = run[Current].done + 1 /\ Len(s) + 1 = run[Current].done + 2
            /\ run'[Current].values = Append(s, e) /\ run'[Current].done = run[Current].done + 1
        BY <2>4, <3>1
      <4> HIDE DEF s, e
      <4> QED
        BY <3>1, <4>1, <4>2 DEF s, e
    <3>3. ASSUME NEW n \in 1..run'[Current].done + 1, run'[Current].values[n] # NoImage
          PROVE  OwnedThen(Current, run'[Current].values[n])
      <4>1. CASE n = run[Current].done + 2
        BY <2>3, <3>2, <4>1 DEF OwnedThen
      <4>2. CASE n # run[Current].done + 2
        <5>1. n \in 1..run[Current].done + 1
          BY <2>4, <3>1, <4>2
        <5>2. run'[Current].values[n] = run[Current].values[n]
          BY <3>2, <5>1
        <5>3. Owned(Current, run[Current].values[n])
          BY <2>2, <3>3, <5>1, <5>2 DEF JInv, Outputs
        <5> QED
          BY <5>2, <5>3 DEF Owned, OwnedThen
      <4> QED
        BY <4>1, <4>2
    <3> QED
      BY <2>2, <2>4, <3>2, <3>3, OutputsOfOne
  <2>6. \A q \in Runs \ {Current} : run'[q].state # "running"
    BY <2>4, NothingRuns
  <2> QED
    BY <2>1, <2>2, <2>4, <2>5, <2>6 DEF WorkerOwnsRunning, InState, InHand, Executing, Conclusions, Holding
<1>13. CASE FinishRun
  <2>1. worker'.pc \in {"dead", "idle"} /\ worker.pc = "finish" /\ UNCHANGED run
    BY <1>13 DEF FinishRun, WorkerAt, IdleWorker
  <2> QED
    BY <1>4, <2>1, LetsGo DEF Executing, Conclusions, Holding
<1> QED
  BY <1>5, <1>6, <1>7, <1>8, <1>9, <1>10, <1>11, <1>12, <1>13, <1>14 DEF Work

\* A step that leaves the worker alone, and which rows are running.
LEMMA OthersKeep ==
    ASSUME JInv, files \subseteq files', UNCHANGED worker, KeepsRows(Runs),
           \A r \in Runs : run[r].state = "running" => run'[r].state = "running"
    PROVE  WorkerOwnsRunning' /\ InHand' /\ Outputs'
<1>1. \A r \in Runs : run'[r].state = "running" <=> run[r].state = "running"
  BY DEF KeepsRows
<1>2. InHand'
  BY DEF JInv, InHand, Holding, Executing, HasStep, KeepsRows, Current
<1>3. WorkerOwnsRunning'
  BY <1>1 DEF JInv, InHand, Holding, Executing, WorkerOwnsRunning, InState, Current
<1> QED
  BY <1>2, <1>3, KeptOutputs

\* The handlers, the tool runner, the accounts, the administrators and a
\* restart leave the worker its run, or take every run from it.
LEMMA OtherAgrees ==
    ASSUME JInv, JobsNext, ~Work, files \subseteq files'
    PROVE  WorkerOwnsRunning' /\ InHand' /\ Outputs'
<1>1. JobsTypes
  BY DEF JInv, JobsTypeOK, JobsTypes
<1>2. CASE UNCHANGED <<run, worker>>
  BY <1>2, OthersKeep DEF KeepsRows
<1>3. ASSUME NEW r \in Runs, Submit(r)
      PROVE  WorkerOwnsRunning' /\ InHand' /\ Outputs'
  <2>1. /\ run'[r].state = "queued" /\ run'[r].done = 0
        /\ \A q \in Runs \ {r} : run'[q] = run[q]
        /\ UNCHANGED worker /\ run[r].state = "absent"
    BY <1>1, <1>3 DEF Submit, JobsTypes, AbsentRun
  <2>2. Outputs'
    <3>1. PICK input \in Inputs(OwnerOf[r]) : run'[r].values = <<input>>
      BY <1>1, <1>3 DEF Submit, JobsTypes, AbsentRun
    <3>2. Len(run'[r].values) = 1 /\ run'[r].values[1] = input
      BY <3>1
    <3>3. input # NoImage => OwnedThen(r, input)
      BY DEF Inputs, OwnedThen
    <3>4. \A n \in 1..run'[r].done + 1 :
             run'[r].values[n] # NoImage => OwnedThen(r, run'[r].values[n])
      BY <2>1, <3>2, <3>3
    <3>5. /\ Len(run'[r].values) = run'[r].done + 1
          /\ run'[r].state = "absent" => run'[r].done = 0
      BY <2>1, <3>2
    <3>6. \A q \in Runs \ {r} : run'[q] = run[q]
      BY <2>1
    <3> QED
      BY <3>4, <3>5, <3>6, OutputsOfOne
  <2>3. /\ \A q \in Runs : run'[q].state = "running" => run[q].state = "running"
        /\ worker.pc \in Executing => Current \in Runs \ {r}
    BY <2>1, NothingRuns
  <2>4. InHand'
    BY <2>1, <2>3 DEF JInv, InHand, Holding, Executing, HasStep, Current
  <2>5. WorkerOwnsRunning'
    BY <2>1, <2>3, NothingRuns DEF WorkerOwnsRunning, InState, Executing, Current
  <2> QED
    BY <2>2, <2>4, <2>5
<1>4. ASSUME NEW r \in Runs, Delete(r)
      PROVE  WorkerOwnsRunning' /\ InHand' /\ Outputs'
  <2>1. /\ run' = [run EXCEPT ![r].state = "deleted"] /\ UNCHANGED worker
        /\ run[r].state # "running"
    BY <1>1, <1>4 DEF Delete, Deletable, Terminal, Waiting
  <2>2. KeepsRows(Runs)
    BY <1>1, <2>1 DEF KeepsRows, JobsTypes, Run
  <2>3. \A q \in Runs : run[q].state = "running" => run'[q].state = "running"
    BY <1>1, <2>1 DEF JobsTypes
  <2> QED
    BY <2>1, <2>2, <2>3, OthersKeep
<1>5. ASSUME NEW r \in Runs, StartWorker(r)
      PROVE  WorkerOwnsRunning' /\ InHand' /\ Outputs'
  <2>1. CASE WorkerAt("dead")
    <3>1. worker'.pc = "idle" /\ UNCHANGED run /\ worker.pc = "dead"
      BY <1>5, <2>1 DEF StartWorker, IdleWorker, WorkerAt
    <3>2. KeepsRows(Runs)
      BY <3>1 DEF KeepsRows
    <3> QED
      BY <3>1, <3>2, LetsGo DEF Executing, Conclusions, Holding
  <2>2. CASE ~WorkerAt("dead")
    BY <1>2, <1>5, <2>2 DEF StartWorker
  <2> QED
    BY <2>1, <2>2
<1>6. ASSUME NEW r \in Runs, ResumeReview(r)
      PROVE  WorkerOwnsRunning' /\ InHand' /\ Outputs'
  <2>1. run' = Resumed(r) /\ UNCHANGED worker
    BY <1>6 DEF ResumeReview
  <2> QED
    BY <1>1, <2>1, ResumedKeeps, OthersKeep
<1>7. ASSUME NEW r \in Runs, NEW w \in BOOLEAN,
             CancelWrite([op |-> "cancel", run |-> r, waiting |-> w])
      PROVE  WorkerOwnsRunning' /\ InHand' /\ Outputs'
  <2>1. /\ UNCHANGED worker
        /\ run' = IF run[r].state = "deleted" THEN run
                  ELSE [run EXCEPT ![r].cancel = TRUE,
                                   ![r].state = IF @ = Waiting THEN "cancelled" ELSE @]
    BY <1>7 DEF CancelWrite
  <2>2. /\ KeepsRows(Runs)
        /\ \A q \in Runs : run[q].state = "running" => run'[q].state = "running"
    BY <1>1, <2>1 DEF KeepsRows, JobsTypes, Run, Waiting
  <2> QED
    BY <2>1, <2>2, OthersKeep
<1>8. CASE Restart
  <2>1. worker' = IdleWorker /\ \A r \in Runs : run'[r] = Interrupted(run[r])
    BY <1>8 DEF Restart
  <2>2. KeepsRows({})
    BY <1>1, <2>1 DEF KeepsRows, Interrupted, Unfinished, JobsTypes, Run
  <2>3. worker'.pc \notin Holding
    BY <2>1 DEF IdleWorker, Holding, Executing, Conclusions
  <2> QED
    BY <2>2, <2>3, LetsGo DEF Holding, Executing, Conclusions
<1> QED
  BY <1>2, <1>3, <1>4, <1>5, <1>6, <1>7, <1>8
     DEF JobsNext, Operate, Discard, Handler, UserRequest, AdminRequest, Environment,
         CancelRead, CancelFinish, DecideReview, Close

-----------------------------------------------------------------------------
(* The invariant, and what follows from it.                                *)

LEMMA InitJInv == JobsInit => JInv
<1> SUFFICES ASSUME JobsInit PROVE JInv
  OBVIOUS
<1>1. IInv
  BY InitInv DEF JobsInit
<1>2. OwnInv
  BY DEF JobsInit, Init, OwnInv, OwnOK, Carrying, IdleCall
<1>3. JobsTypeOK
  <2>1. AbsentRun \in Run
    BY DEF AbsentRun, Run, RunStates
  <2>2. 0 \in 0..MaxRestarts
    BY LimitsAssumption
  <2> QED
    BY <1>1, <2>1, <2>2, WorkerTypes DEF JobsInit, JobsTypeOK, IInv
<1>4. WorkerOwnsRunning /\ InHand
  BY DEF JobsInit, WorkerOwnsRunning, InState, AbsentRun, IdleWorker, InHand, Holding,
         Executing, Conclusions
<1>5. Outputs
  <2>1. \A r \in Runs : run[r].values = <<NoImage>> /\ run[r].done = 0
    BY DEF JobsInit, AbsentRun
  <2>2. Len(<<NoImage>>) = 0 + 1 /\ \A n \in 1..0 + 1 : <<NoImage>>[n] = NoImage
    OBVIOUS
  <2> QED
    BY <2>1, <2>2 DEF Outputs
<1> QED
  BY <1>1, <1>2, <1>3, <1>4, <1>5 DEF JInv

LEMMA NextJInv == JInv /\ [JobsNext]_vars => JInv'
<1> SUFFICES ASSUME JInv, [JobsNext]_vars PROVE JInv'
  OBVIOUS
<1>1. [Next]_crvars
  BY StepRefines
<1>2. IInv' /\ OwnInv' /\ files \subseteq files'
  BY <1>1, NextInv, OwnStep, FilesGrow DEF JInv, IInv
<1>3. CASE Work
  BY <1>2, <1>3, WorkTypes, WorkAgrees DEF JInv, JobsTypes, JobsTypeOK, IInv
<1>4. CASE JobsNext /\ ~Work
  BY <1>2, <1>4, OtherTypes, OtherAgrees DEF JInv, JobsTypes, JobsTypeOK, IInv
<1>5. CASE UNCHANGED vars
  <2>1. JobsTypeOK'
    BY <1>5 DEF JInv, JobsTypeOK, TypeOK, vars, crvars
  <2>2. WorkerOwnsRunning' /\ InHand' /\ Outputs'
    BY <1>2, <1>5, OthersKeep DEF vars, KeepsRows
  <2> QED
    BY <1>2, <2>1, <2>2 DEF JInv
<1> QED
  BY <1>3, <1>4, <1>5

\* The invariant of the job service holds in every reachable state.
THEOREM JobsInvariant == JobsSpec => []JInv
BY InitJInv, NextJInv, PTL DEF JobsSpec

\* Every state of the job service and of the review store below it, and every
\* column of a row, has its type.
THEOREM JobsTypeCorrect == JobsSpec => []JobsTypeOK
BY JobsInvariant, PTL DEF JInv

\* A running run is the one the worker has in hand, and the run in its hand is
\* running, whatever handlers, decisions, timeouts and restarts come between.
THEOREM WorkerOwns == JobsSpec => []WorkerOwnsRunning
BY JobsInvariant, PTL DEF JInv

\* The job service, with its worker, handlers and restarts, makes no step on
\* reviews, decisions and files that ContentReview does not make.
THEOREM JobsImplementReviews == JobsSpec => ImplementsContentReview
<1>1. JobsInit => Init
  BY DEF JobsInit
<1>2. JInv /\ [JobsNext]_vars => [Next]_crvars
  BY StepRefines
<1> QED
  BY <1>1, <1>2, JobsInvariant, PTL DEF JobsSpec, Spec, ImplementsContentReview

\* Hence what ContentReviewProofs proves holds of the job service: an image a
\* run of a protected account can read was approved twice, in this revision.
COROLLARY JobsStoreAfterBothDecisions == JobsSpec => []StoredAfterBothDecisions
BY JobsInvariant, PTL DEF JInv, IInv

-----------------------------------------------------------------------------
(* What no step may do to a row.                                           *)

\* The rows' life: no way back from an ended state, and completed steps stay.
RowMoves(r) ==
    /\ run[r].state \in Terminal => run'[r].state \in {run[r].state, "deleted"}
    /\ run'[r].done >= run[r].done

\* Resuming wakes only a run that waits.
LEMMA ResumedMoves ==
    ASSUME JobsTypes, NEW q \in Runs, run' = Resumed(q)
    PROVE  \A r \in Runs : RowMoves(r)
<1>1. CASE run' = run
  BY <1>1 DEF RowMoves, JobsTypes, Run
<1>2. CASE run[q].state = Waiting /\ run' = [run EXCEPT ![q].state = "queued"]
  BY <1>2 DEF RowMoves, JobsTypes, Run, Waiting, Terminal
<1> QED
  BY <1>1, <1>2 DEF Resumed, MayResume

\* A step that changes the state of a run that has not ended.
LEMMA LiveRowMoves ==
    ASSUME JobsTypes, NEW q \in Runs, run[q].state \notin Terminal,
           run'[q].done = run[q].done, \A r \in Runs \ {q} : run'[r] = run[r]
    PROVE  \A r \in Runs : RowMoves(r)
<1>1. \A r \in Runs : run[r].done \in Nat
  BY DEF JobsTypes, Run
<1> QED
  BY <1>1 DEF RowMoves

LEMMA RowsMove ==
    ASSUME JInv, [JobsNext]_vars
    PROVE  \A r \in Runs : RowMoves(r)
<1>1. JobsTypes
  BY DEF JInv, JobsTypeOK, JobsTypes
<1>2. CASE UNCHANGED run
  BY <1>1, <1>2 DEF RowMoves, JobsTypes, Run
<1>3. worker.pc \in Executing => Current \in Runs /\ run[Current].state \notin Terminal
  BY NothingRuns DEF Terminal
<1>4. ASSUME NEW q \in Runs, Dequeue(q) PROVE \A r \in Runs : RowMoves(r)
  BY <1>1, <1>4, LiveRowMoves DEF Dequeue, Queue, InState, JobsTypes, Run, Terminal
<1>5. CASE StepCancelled \/ StepRefused \/ StepStart \/ StepFailed \/ StepHeld
              \/ StepTimeout \/ Conclude
  <2>1. worker.pc \in Executing
    BY <1>5 DEF StepCancelled, StepRefused, StepStart, StepFailed, StepHeld, StepTimeout,
                Conclude, WorkerAt, Executing, Conclusions
  <2>2. PICK st, k : \/ run' = [run EXCEPT ![Current].state = st]
                     \/ run' = [run EXCEPT ![Current].state = st, ![Current].review = k]
    BY <1>5 DEF StepCancelled, StepRefused, StepStart, StepFailed, StepHeld, StepTimeout,
                Conclude
  <2>3. run'[Current].done = run[Current].done /\ \A r \in Runs \ {Current} : run'[r] = run[r]
    BY <1>1, <1>3, <2>1, <2>2 DEF JobsTypes, Run
  <2> QED
    BY <1>1, <1>3, <2>1, <2>3, LiveRowMoves
<1>6. CASE StepSucceeded
  <2>1. Current \in Runs /\ run[Current].state \notin Terminal
    BY <1>3, <1>6 DEF StepSucceeded, WorkerAt, Executing
  <2>2. worker.step = run[Current].done + 1
    BY <1>6 DEF StepSucceeded, WorkerAt, JInv, InHand, Executing
  <2>3. /\ run'[Current].done = worker.step
        /\ \A r \in Runs \ {Current} : run'[r] = run[r]
    BY <1>1, <1>6, <2>1 DEF StepSucceeded, JobsTypes, Run
  <2> QED
    BY <1>1, <2>1, <2>2, <2>3 DEF RowMoves, JobsTypes, Run
<1>7. CASE PollResume \/ ReadyCheck
  <2>1. Current \in Runs
    BY <1>7 DEF PollResume, ReadyCheck, WorkerAt, JInv, InHand, Holding
  <2> QED
    BY <1>1, <1>2, <1>7, <2>1, ResumedMoves DEF PollResume, ReadyCheck
<1>8. ASSUME NEW q \in Runs, ResumeReview(q) PROVE \A r \in Runs : RowMoves(r)
  BY <1>1, <1>8, ResumedMoves DEF ResumeReview
<1>9. ASSUME NEW q \in Runs, Submit(q) PROVE \A r \in Runs : RowMoves(r)
  <2>1. /\ run[q].state = "absent" /\ run[q].done = 0 /\ run'[q].done = 0
        /\ \A r \in Runs \ {q} : run'[r] = run[r]
    BY <1>1, <1>9 DEF Submit, JobsTypes, AbsentRun, JInv, Outputs, Run
  <2> QED
    BY <1>1, <2>1, LiveRowMoves DEF Terminal
<1>10. ASSUME NEW q \in Runs, Delete(q) PROVE \A r \in Runs : RowMoves(r)
  BY <1>1, <1>10 DEF Delete, RowMoves, JobsTypes, Run
<1>11. ASSUME NEW q \in Runs, NEW w \in BOOLEAN,
              CancelWrite([op |-> "cancel", run |-> q, waiting |-> w])
       PROVE  \A r \in Runs : RowMoves(r)
  <2>1. run' = IF run[q].state = "deleted" THEN run
               ELSE [run EXCEPT ![q].cancel = TRUE,
                                ![q].state = IF @ = Waiting THEN "cancelled" ELSE @]
    BY <1>11 DEF CancelWrite
  <2> QED
    BY <1>1, <2>1 DEF RowMoves, JobsTypes, Run, Waiting, Terminal
<1>12. CASE Restart
  <2>1. \A r \in Runs : run'[r] = Interrupted(run[r])
    BY <1>12 DEF Restart
  <2>2. ASSUME NEW r \in Runs
        PROVE  /\ run'[r].done = run[r].done
               /\ run[r].state \in Terminal => run'[r].state = run[r].state
    <3>1. CASE run[r].state \in Unfinished
      BY <1>1, <2>1, <3>1 DEF Interrupted, Unfinished, Terminal, JobsTypes, Run
    <3>2. CASE run[r].state \notin Unfinished
      BY <2>1, <3>2 DEF Interrupted
    <3> QED
      BY <3>1, <3>2
  <2> QED
    BY <1>1, <2>2 DEF RowMoves, JobsTypes, Run
<1> QED
  BY <1>2, <1>4, <1>5, <1>6, <1>7, <1>8, <1>9, <1>10, <1>11, <1>12
     DEF JobsNext, Work, PollCheck, WorkerExit, PollBegin, PollEnd, Complete, FinishRun, Operate, Discard,
         Handler, StartWorker, CancelFinish, UserRequest, CancelRead, AdminRequest,
         DecideReview, Environment, Close, vars

\* Nothing revives an ended run: not a decision answered late, a cancel that
\* read an earlier state, the worker's poll or a restart; only its owner's
\* deletion takes it from its state.
THEOREM FinishedStays == JobsSpec => FinishedStaysFinished
<1>1. JInv /\ [JobsNext]_vars =>
        [\A r \in Runs : run[r].state \in Terminal =>
            run'[r].state \in {run[r].state, "deleted"}]_vars
  BY RowsMove DEF RowMoves
<1> QED
  BY <1>1, JobsInvariant, PTL DEF JobsSpec, FinishedStaysFinished

\* A step is handed to the tool runner only beyond the completed ones, and
\* the record of those never shrinks: no resumption repeats a step.
THEOREM StepsNeverRepeat == JobsSpec => NoStepRepeats
<1>1. JInv /\ [JobsNext]_vars =>
        [/\ WorkerAt("step") /\ worker'.pc = "tool" => worker.step > run[Current].done
         /\ \A r \in Runs : run'[r].done >= run[r].done]_vars
  <2> SUFFICES ASSUME JInv, [JobsNext]_vars
               PROVE  /\ WorkerAt("step") => worker.step > run[Current].done
                      /\ \A r \in Runs : run'[r].done >= run[r].done
    OBVIOUS
  <2>1. \A r \in Runs : run'[r].done >= run[r].done
    BY RowsMove DEF RowMoves
  <2>2. ASSUME WorkerAt("step") PROVE worker.step > run[Current].done
    <3>1. Current \in Runs /\ worker.step = run[Current].done + 1
      BY <2>2 DEF WorkerAt, JInv, InHand, Holding, Executing
    <3> QED
      BY <3>1 DEF JInv, JobsTypeOK, Run
  <2> QED
    BY <2>1, <2>2
<1> QED
  BY <1>1, JobsInvariant, PTL DEF JobsSpec, NoStepRepeats

-----------------------------------------------------------------------------
(* What a run that waits relies on.                                        *)

\* The row exists and no end of the run has closed it.
Live(k) == review[k].state \notin {"absent", "closed"}
\* A decision, or the expiry, will make the row ready.
Awaitable(k) == Live(k) /\ review[k].state # "generating"

\* The row of an image in progress, unless its run was ended meanwhile.
RowOK(r) ==
    /\ call[r].pc \in {"produce", "recheck"} /\ call[r].protected => Live(Key(r))
    /\ call[r].pc = "hold" => Live(Key(r))
    /\ call[r].pc = "held" => Awaitable(Key(r))

WaitOK(r) ==
    /\ run[r].state = Waiting /\ ~run[r].cancel =>
          /\ run[r].review \in ReviewId /\ run[r].review.run = r
          /\ Awaitable(run[r].review)
          /\ call[r].pc = "idle"
    /\ WorkerAt("tool") /\ Current = r /\ ~run[r].cancel => RowOK(r)
    /\ Call_("finish", r) \in calls => run[r].cancel \/ run[r].state = "deleted"
    /\ \A c \in calls : c.op \in {"cancel", "finish"} /\ c.run = r => run[r].state # "absent"

WaitInv == \A r \in Runs : WaitOK(r)

\* Whatever befalls the row, it stays live, and ready or to be decided.
Survives(k) == (Live(k) => Live(k)') /\ (Awaitable(k) => Awaitable(k)')

\* The thread of one run, and the end of one run, spare the rows of others.
LEMMA OthersSurvive ==
    ASSUME TypeOK, NEW r \in Runs, OperationStep(r) \/ Finish(r),
           NEW k \in ReviewId, k.run # r
    PROVE  Survives(k)
<1> USE DEF Survives, Live, Awaitable
<1>1. k # Key(r) /\ Key(r) \in ReviewId /\ review[k] \in Review
  BY KeyType DEF Key, TypeOK
<1>2. CASE review'[k].state = review[k].state
  BY <1>2
<1>3. CASE review'[k].state = "expired"
  BY <1>3
<1>4. CASE Claim(r)
  <2>1. Swept[k].state \in {review[k].state, "expired"}
    BY <1>1 DEF Swept, Expired, Review
  <2>2. review'[k] = Swept[k] \/ review'[k] = review[k]
    BY <1>1, <1>4 DEF Claim, ClaimNew, ClaimFull, ClaimGeneration, ClaimPending,
           ClaimApproved, ClaimEnded, Swept
  <2> QED
    BY <1>2, <1>3, <2>1, <2>2
<1>5. CASE Hold(r) \/ Reject(r)
  <2>1. review'[k] = review[k]
    BY <1>1, <1>5 DEF Hold, Reject, TypeOK
  <2> QED
    BY <1>2, <2>1
<1>6. CASE Finish(r)
  BY <1>2, <1>6 DEF Finish, AfterFinish
<1> QED
  BY <1>2, <1>4, <1>5, <1>6
     DEF OperationStep, ReadPolicy, Release, Produce, Recheck, ReadGuard, ReadLookup, SaveGuard,
         SaveLookup, Guard, Lookup, Store, Refuse

\* Expiry, a decision or a change of an account never closes a row.
LEMMA AllSurvive ==
    ASSUME TypeOK, AccountNext \/ ReviewNext \/ Expire \/ UNCHANGED review,
           NEW k \in ReviewId
    PROVE  Survives(k)
<1> USE DEF Survives, Live, Awaitable
<1>1. review[k] \in Review
  BY DEF TypeOK
<1>2. CASE review'[k].state \in {review[k].state, "expired"}
  BY <1>2
<1>3. CASE Expire
  BY <1>1, <1>2, <1>3 DEF Expire, AfterExpire, Expired, Review
<1>4. CASE AccountNext
  <2>1. ASSUME NEW o \in Owners, NEW b \in BOOLEAN, SetBirthdate(o, b) PROVE Survives(k)
    BY <1>1, <1>2, <2>1 DEF SetBirthdate, ExpireOwner, Expired, Review
  <2>2. ASSUME NEW j \in ReviewId, WeekPasses(j) PROVE Survives(k)
    <3>1. review'[k].state = review[k].state
      BY <1>1, <2>2 DEF WeekPasses, TypeOK, Review
    <3> QED
      BY <1>2, <3>1
  <2>3. CASE UNCHANGED review
    BY <1>2, <2>3
  <2> QED
    BY <1>4, <2>1, <2>2, <2>3 DEF AccountNext, Birthday, DeleteAccount
<1>5. ASSUME NEW j \in ReviewId, NEW stage \in {"pending_request", "pending_image"},
             NEW approve \in BOOLEAN, Decide(j, stage, approve)
      PROVE  Survives(k)
  <2>1. \/ review'[k].state = review[k].state
        \/ review'[k].state \in {"rejected", "request_approved", "approved"}
    BY <1>1, <1>5 DEF Decide, Verdict, TypeOK, Review
  <2> QED
    BY <1>2, <2>1
<1> QED
  BY <1>2, <1>3, <1>4, <1>5 DEF ReviewNext

\* The thread itself leaves its row as its place in the program tells.
LEMMA OwnRow ==
    ASSUME IInv, NEW r \in Runs, OperationStep(r), RowOK(r)
    PROVE  RowOK(r)'
<1> USE DEF RowOK, Live, Awaitable
<1>1. TypeOK /\ CallOK(r) /\ Key(r) \in ReviewId /\ review[Key(r)] \in Review
  BY KeyType DEF IInv, CallInv, TypeOK
<1>2. CASE call'[r].pc \notin {"produce", "recheck", "hold", "held"}
  BY <1>2
<1>3. CASE ReadPolicy(r)
  <2>1. call'[r].pc = "produce" => ~call'[r].protected
    BY <1>1, <1>3 DEF ReadPolicy, Goto, TypeOK, Call, OwnerRow, Account
  <2>2. call'[r].pc \in {"claim", "produce", "failed"}
    BY <1>1, <1>3 DEF ReadPolicy, Goto, TypeOK, Call
  <2> QED
    BY <2>1, <2>2
<1>4. CASE Claim(r)
  <2>1. CASE ClaimNew(r) \/ ClaimGeneration(r) \/ ClaimPending(r)
    <3>1. PICK pc \in {"held", "produce"} : Goto(r, pc)
      BY <2>1 DEF ClaimNew, ClaimGeneration, ClaimPending
    <3>2. call'[r].pc = pc /\ Key(r)' = Key(r)
      BY <1>1, <3>1, GotoFacts DEF Key
    <3>3. Swept \in [ReviewId -> Review]
      BY <1>1, ReviewTypes DEF TypeOK
    <3>4. \/ pc = "held" /\ review'[Key(r)].state \in {"pending_request", "pending_image"}
          \/ pc = "produce" /\ review'[Key(r)].state = "generating"
      BY <1>1, <2>1, <3>1, <3>2, <3>3, GotoFacts
         DEF ClaimNew, ClaimGeneration, ClaimPending, SweptRow, NoReview, ClaimedState, Review
    <3> QED
      BY <3>2, <3>4
  <2>2. CASE ClaimFull(r) \/ ClaimApproved(r) \/ ClaimEnded(r)
    <3>1. call'[r].pc \in {"failed", "release"}
      BY <1>1, <2>2 DEF ClaimFull, ClaimApproved, ClaimEnded, Goto, TypeOK, Call
    <3> QED
      BY <1>2, <3>1
  <2> QED
    BY <1>4, <2>1, <2>2 DEF Claim
<1>5. CASE Produce(r)
  <2>1. CASE call'[r].pc = "recheck"
    <3>1. /\ call[r].pc = "produce" /\ UNCHANGED review
          /\ call'[r].protected = call[r].protected /\ Key(r)' = Key(r)
      BY <1>1, <1>5, <2>1 DEF Produce, At, Key, Goto, TypeOK, Call
    <3> QED
      BY <2>1, <3>1
  <2>2. CASE call'[r].pc # "recheck"
    <3>1. call'[r].pc \in {"reject", "failed"}
      BY <1>1, <1>5, <2>2 DEF Produce, Goto, TypeOK, Call
    <3> QED
      BY <1>2, <3>1
  <2> QED
    BY <2>1, <2>2
<1>6. CASE Recheck(r)
  <2>1. /\ call[r].pc = "recheck" /\ UNCHANGED review /\ Key(r)' = Key(r)
        /\ call'[r].pc = AfterProduce(r)
    BY <1>1, <1>6, GotoFacts DEF Recheck, At, Key
  <2>2. AfterProduce(r) = "hold" => call[r].protected
    BY DEF AfterProduce
  <2>3. AfterProduce(r) \in {"hold", "reject", "saveGuard", "failed"}
    BY DEF AfterProduce
  <2> QED
    BY <2>1, <2>2, <2>3
<1>7. CASE Hold(r)
  <2>1. call[r].pc = "hold" /\ call'[r].pc = "held" /\ Key(r)' = Key(r)
    BY <1>1, <1>7, GotoFacts DEF Hold, At, Key
  <2>2. CASE MayHold(Key(r))
    BY <1>1, <1>7, <2>1, <2>2 DEF Hold, TypeOK, Review
  <2>3. CASE ~MayHold(Key(r))
    BY <1>7, <2>1, <2>3 DEF Hold, MayHold
  <2> QED
    BY <2>2, <2>3
<1>8. CASE Reject(r) \/ Release(r) \/ ReadGuard(r) \/ ReadLookup(r) \/ SaveGuard(r)
             \/ SaveLookup(r) \/ Store(r) \/ Refuse(r)
  <2>1. PICK pc \in {"failed", "saveGuard", "readLookup", "saveLookup", "store", "saved"} :
           Goto(r, pc)
    BY <1>8 DEF Reject, Release, ReadGuard, ReadLookup, SaveGuard, SaveLookup, Guard, Lookup,
                Store, Refuse
  <2> QED
    BY <1>1, <1>2, <2>1, GotoFacts
<1> QED
  BY <1>3, <1>4, <1>5, <1>6, <1>7, <1>8 DEF OperationStep

\* A step that begins no wait and no tool call of run r, and ends none of its
\* cancellations.
Calm(r) ==
    /\ run'[r].state = Waiting /\ ~run'[r].cancel =>
          run[r].state = Waiting /\ ~run[r].cancel /\ run'[r].review = run[r].review
    /\ worker'.pc = "tool" /\ Current' = r /\ ~run'[r].cancel =>
          WorkerAt("tool") /\ Current = r /\ ~run[r].cancel
    /\ run[r].cancel \/ run[r].state = "deleted" => run'[r].cancel \/ run'[r].state = "deleted"
    /\ run'[r].state = "absent" => run[r].state = "absent"
    /\ \A c \in calls' : c.op \in {"cancel", "finish"} /\ c.run = r => c \in calls

LEMMA CalmStep ==
    ASSUME TypeOK, NEW r \in Runs, WaitOK(r), Calm(r), call'[r] = call[r],
           \/ \A k \in ReviewId : k.run = r => Survives(k)
           \/ run[r].cancel
           \/ run[r].state # Waiting /\ ~(WorkerAt("tool") /\ Current = r)
    PROVE  WaitOK(r)'
<1>1. ~run'[r].cancel /\ run'[r].state = Waiting =>
          /\ run'[r].review \in ReviewId /\ run'[r].review.run = r
          /\ Awaitable(run[r].review)'
          /\ call'[r].pc = "idle"
  BY DEF WaitOK, Calm, Survives, Awaitable, Live
<1>2. ~run'[r].cancel /\ WorkerAt("tool")' /\ Current' = r => RowOK(r)'
  <2>1. Key(r) \in ReviewId /\ Key(r).run = r /\ Key(r)' = Key(r)
    BY KeyType DEF Key
  <2> QED
    BY <2>1 DEF WaitOK, Calm, Survives, RowOK, WorkerAt, Awaitable, Live
<1>3. Call_("finish", r) \in calls' => run'[r].cancel \/ run'[r].state = "deleted"
  BY DEF WaitOK, Calm, Call_
<1>4. \A c \in calls' : c.op \in {"cancel", "finish"} /\ c.run = r => run'[r].state # "absent"
  BY DEF WaitOK, Calm
<1> QED
  BY <1>1, <1>2, <1>3, <1>4 DEF WaitOK, Call_, Awaitable, Live

\* The worker's steps.
LEMMA WorkWaits ==
    ASSUME JInv, WaitInv, Work, NEW r \in Runs
    PROVE  WaitOK(r)'
<1>1. JobsTypes /\ TypeOK /\ WaitOK(r)
  BY DEF JInv, JobsTypeOK, JobsTypes, WaitInv
<1>2. ASSUME Calm(r), UNCHANGED call, Expire \/ UNCHANGED review PROVE WaitOK(r)'
  <2>1. \A k \in ReviewId : Survives(k)
    BY <1>1, <1>2, AllSurvive
  <2> QED
    BY <1>1, <1>2, <2>1, CalmStep
<1>3. worker.pc \in Holding => Current \in Runs
  BY DEF JInv, InHand
<1>4. \A pc : WorkerGoto(pc) => worker'.pc = pc
  BY <1>1 DEF WorkerGoto, Worker, JobsTypes
<1>5. UNCHANGED <<run, calls>> /\ worker'.pc # "tool" => Calm(r)
  BY DEF Calm
<1>6. ASSUME NEW q \in Runs, NEW st \in RunStates \ {Waiting, "absent"},
             run[q].state # "deleted", run'[q].state = st, run'[q].cancel = run[q].cancel,
             \A p \in Runs \ {q} : run'[p] = run[p], UNCHANGED calls, worker'.pc # "tool"
      PROVE  Calm(r)
  BY <1>6 DEF Calm, Waiting
<1>7. ASSUME NEW q \in Runs, run' = Resumed(q), UNCHANGED calls, worker'.pc # "tool"
      PROVE  Calm(r)
  <2>1. CASE run' = run
    BY <1>5, <1>7, <2>1
  <2>2. CASE run[q].state = Waiting /\ run' = [run EXCEPT ![q].state = "queued"]
    <3>1. /\ run'[q].state = "queued" /\ run'[q].cancel = run[q].cancel
          /\ \A p \in Runs \ {q} : run'[p] = run[p]
      BY <1>1, <2>2, StateChange
    <3>2. "queued" \in RunStates \ {Waiting, "absent"} /\ run[q].state # "deleted"
      BY <2>2 DEF RunStates, Unfinished, Waiting
    <3> QED
      BY <1>6, <1>7, <3>1, <3>2
  <2> QED
    BY <1>7, <2>1, <2>2 DEF Resumed, MayResume
<1>8. ASSUME NEW q \in Runs, Dequeue(q) PROVE WaitOK(r)'
  <2>1. /\ run[q].state = "queued" /\ run' = [run EXCEPT ![q].state = "running"]
        /\ worker'.pc = "step" /\ UNCHANGED calls /\ UNCHANGED crvars
    BY <1>8 DEF Dequeue, Queue, InState, IdleWorker
  <2>2. Calm(r)
    BY <1>1, <1>6, <2>1, StateChange DEF RunStates, Unfinished, Waiting
  <2> QED
    BY <1>2, <2>1, <2>2 DEF crvars
<1>9. ASSUME NEW q \in Runs, PollCheck(q) PROVE WaitOK(r)'
  <2>1. worker'.pc # "tool" /\ UNCHANGED <<run, calls, call>> /\ (Expire \/ UNCHANGED review)
    BY <1>1, <1>9 DEF PollCheck, JobsTypes, Worker, Expire
  <2> QED
    BY <1>2, <1>5, <2>1
<1>10. CASE WorkerExit \/ PollBegin \/ PollEnd \/ Complete
  <2>1. worker'.pc # "tool"
    <3>1. CASE WorkerExit
      BY <1>4, <3>1 DEF WorkerExit
    <3>2. CASE PollBegin
      BY <1>1, <3>2 DEF PollBegin, JobsTypes, Worker
    <3>3. CASE PollEnd
      BY <3>3 DEF PollEnd, IdleWorker
    <3>4. CASE Complete
      BY <1>4, <3>4 DEF Complete
    <3> QED
      BY <1>10, <3>1, <3>2, <3>3, <3>4
  <2> QED
    BY <1>2, <1>5, <1>10, <2>1 DEF WorkerExit, PollBegin, PollEnd, Complete, crvars
<1>11. CASE PollResume \/ ReadyCheck
  <2>1. worker'.pc # "tool" /\ Current \in Runs /\ UNCHANGED <<calls, call>>
    BY <1>3, <1>4, <1>11 DEF PollResume, ReadyCheck, Expire, WorkerAt, Holding, crvars
  <2>2. Calm(r)
    BY <1>5, <1>7, <1>11, <2>1 DEF PollResume, ReadyCheck
  <2> QED
    BY <1>2, <1>11, <2>1, <2>2 DEF PollResume, ReadyCheck, crvars
<1>12. worker.pc \in Executing => Current \in Runs /\ run[Current].state = "running"
  BY NothingRuns
<1>13. CASE StepCancelled \/ StepRefused \/ StepTimeout \/ Conclude
  <2>1. /\ worker'.pc # "tool" /\ Current \in Runs /\ run[Current].state = "running"
        /\ UNCHANGED calls /\ UNCHANGED crvars
    BY <1>4, <1>12, <1>13 DEF StepCancelled, StepRefused, StepTimeout, Conclude, WorkerAt, Executing, Conclusions
  <2>2. PICK st \in Terminal :
           \/ run' = [run EXCEPT ![Current].state = st]
           \/ run' = [run EXCEPT ![Current].state = st, ![Current].review = NoKey]
    BY <1>13 DEF StepCancelled, StepRefused, StepTimeout, Conclude, Conclusions, Terminal
  <2>3. /\ run'[Current].state = st /\ run'[Current].cancel = run[Current].cancel
        /\ \A p \in Runs \ {Current} : run'[p] = run[p]
    BY <1>1, <2>1, <2>2 DEF JobsTypes, Run
  <2>4. Calm(r)
    BY <1>6, <2>1, <2>3 DEF RunStates, Terminal, Waiting
  <2> QED
    BY <1>2, <2>1, <2>4 DEF crvars
<1>14. CASE StepStart
  <2>1. /\ Current \in Runs /\ run[Current].state = "running" /\ ~WorkerAt("tool")
        /\ Current' = Current /\ UNCHANGED <<calls, review>>
    BY <1>1, <1>12, <1>14
       DEF StepStart, WorkerAt, Executing, WorkerGoto, JobsTypes, Worker, Current, BeginImage,
           BeginCopy
  <2>2. /\ run'[Current].state = "running" /\ run'[Current].cancel = run[Current].cancel
        /\ \A p \in Runs \ {Current} : run'[p] = run[p]
    BY <1>1, <1>14, <2>1 DEF StepStart, JobsTypes, Run
  <2>3. /\ call'[Current].pc \in {"policy", "readGuard"}
        /\ \A p \in Runs \ {Current} : call'[p] = call[p]
    <3>1. PICK d : BeginImage(Current, d) \/ BeginCopy(Current, d)
      BY <1>14 DEF StepStart
    <3>2. CASE BeginImage(Current, d)
      BY <1>1, <2>1, <3>2, Constants DEF BeginImage, TypeOK, Call
    <3>3. CASE BeginCopy(Current, d)
      BY <1>1, <2>1, <3>3, Constants DEF BeginCopy, TypeOK, Call
    <3> QED
      BY <3>1, <3>2, <3>3
  <2>4. CASE r = Current
    BY <1>1, <2>1, <2>2, <2>3, <2>4 DEF WaitOK, RowOK, Waiting, Call_, WorkerAt
  <2>5. CASE r # Current
    <3>1. Calm(r)
      BY <2>1, <2>2, <2>5 DEF Calm
    <3>2. \A k \in ReviewId : Survives(k)
      BY <1>1, <2>1, AllSurvive
    <3> QED
      BY <1>1, <2>3, <2>5, <3>1, <3>2, CalmStep
  <2> QED
    BY <2>4, <2>5
<1>15. CASE StepSucceeded \/ StepFailed \/ StepHeld
  <2>1. /\ Current \in Runs /\ run[Current].state = "running" /\ WorkerAt("tool")
        /\ worker'.pc # "tool" /\ UNCHANGED <<calls, review>>
    BY <1>1, <1>4, <1>12, <1>15
       DEF StepSucceeded, StepFailed, StepHeld, WorkerAt, Executing, Return, JobsTypes, Worker
  <2>2. /\ run'[Current].cancel = run[Current].cancel /\ run'[Current].state # "absent"
        /\ \A p \in Runs \ {Current} : run'[p] = run[p]
    BY <1>1, <1>15, <2>1 DEF StepSucceeded, StepFailed, StepHeld, JobsTypes, Run, Waiting
  <2>3. /\ call'[Current].pc = "idle"
        /\ \A p \in Runs \ {Current} : call'[p] = call[p]
    BY <1>1, <1>15, <2>1, Constants DEF StepSucceeded, StepFailed, StepHeld, Return, TypeOK
  <2>4. CASE r # Current
    <3>1. Calm(r)
      BY <2>1, <2>2, <2>4 DEF Calm
    <3>2. \A k \in ReviewId : Survives(k)
      BY <1>1, <2>1, AllSurvive
    <3> QED
      BY <1>1, <2>3, <2>4, <3>1, <3>2, CalmStep
  <2>5. CASE r = Current
    <3>1. ASSUME run'[r].state = Waiting, ~run'[r].cancel
          PROVE  /\ run'[r].review \in ReviewId /\ run'[r].review.run = r
                 /\ Awaitable(run[r].review)'
      <4>1. StepHeld
        BY <1>1, <1>15, <2>1, <2>5, <3>1 DEF StepSucceeded, StepFailed, JobsTypes, Run, Waiting
      <4>2. run'[r].review = Key(r) /\ call[r].pc = "held"
        BY <1>1, <2>1, <2>5, <4>1 DEF StepHeld, At, JobsTypes, Run
      <4>3. Awaitable(Key(r))
        BY <1>1, <2>1, <2>2, <2>5, <3>1, <4>2 DEF WaitOK, RowOK
      <4>4. Key(r) \in ReviewId /\ Key(r).run = r
        BY <1>1, KeyType DEF Key
      <4> QED
        BY <2>1, <4>2, <4>3, <4>4 DEF Awaitable, Live
    <3> QED
      BY <1>1, <2>1, <2>2, <2>3, <2>5, <3>1 DEF WaitOK, WorkerAt, Call_, Awaitable, Live
  <2> QED
    BY <2>4, <2>5
<1>16. CASE FinishRun
  <2>1. /\ worker'.pc # "tool" /\ ~WorkerAt("tool") /\ UNCHANGED <<run, calls, call>>
        /\ Current \in Runs
    BY <1>3, <1>16 DEF FinishRun, IdleWorker, WorkerAt, Finish, crvars, Holding
  <2>2. Calm(r)
    BY <1>5, <2>1
  <2>3. CASE UNCHANGED review
    BY <1>2, <2>1, <2>2, <2>3
  <2>4. CASE Ended(Current) /\ Finish(Current)
    <3>1. CASE r = Current
      <4>1. run[r].state # Waiting
        BY <2>4, <3>1 DEF Ended, Terminal, Waiting
      <4> QED
        BY <1>1, <2>1, <2>2, <4>1, CalmStep
    <3>2. CASE r # Current
      <4>1. \A k \in ReviewId : k.run = r => Survives(k)
        BY <1>1, <2>1, <2>4, <3>2, OthersSurvive
      <4> QED
        BY <1>1, <2>1, <2>2, <4>1, CalmStep
    <3> QED
      BY <3>1, <3>2
  <2> QED
    BY <1>16, <2>3, <2>4 DEF FinishRun, crvars
<1> QED
  BY <1>8, <1>9, <1>10, <1>11, <1>13, <1>14, <1>15, <1>16 DEF Work

\* The tool runner, the handlers, accounts, administrators and a restart.
LEMMA OtherWaits ==
    ASSUME JInv, WaitInv, JobsNext, ~Work, NEW r \in Runs
    PROVE  WaitOK(r)'
<1>1. IInv /\ JobsTypes /\ TypeOK /\ WaitOK(r)
  BY DEF JInv, JobsTypeOK, JobsTypes, WaitInv
<1>2. WorkerAt("tool") /\ Current = r => run[r].state = "running"
  BY NothingRuns DEF WorkerAt, Executing
<1>3. UNCHANGED <<run, worker>> /\ calls' \subseteq calls => Calm(r)
  BY DEF Calm, WorkerAt, Current
<1>4. ASSUME Calm(r), UNCHANGED call, AccountNext \/ ReviewNext \/ Expire \/ UNCHANGED review
      PROVE  WaitOK(r)'
  <2>1. \A k \in ReviewId : Survives(k)
    BY <1>1, <1>4, AllSurvive
  <2> QED
    BY <1>1, <1>4, <2>1, CalmStep
<1>5. ASSUME NEW q \in Runs, q # r, OperationStep(q) \/ Finish(q), call'[r] = call[r], Calm(r)
      PROVE  WaitOK(r)'
  <2>1. \A k \in ReviewId : k.run = r => Survives(k)
    BY <1>1, <1>5, OthersSurvive
  <2> QED
    BY <1>1, <1>5, <2>1, CalmStep
<1>6. ASSUME NEW q \in Runs, Operate(q) PROVE WaitOK(r)'
  <2>1. CASE q # r
    <3>1. call'[r] = call[r]
      BY <1>1, <1>6, <2>1
         DEF Operate, OperationStep, ReadPolicy, Claim, ClaimNew, ClaimFull, ClaimGeneration,
             ClaimPending, ClaimApproved, ClaimEnded, Release, Produce, Recheck, Hold, Reject,
             ReadGuard, ReadLookup, SaveGuard, SaveLookup, Guard, Lookup, Store, Refuse, Goto,
             TypeOK
    <3> QED
      BY <1>3, <1>5, <1>6, <2>1, <3>1 DEF Operate
  <2>2. CASE q = r
    <3>1. call[r].pc # "idle"
      BY <1>6, <2>2
         DEF Operate, OperationStep, ReadPolicy, Claim, Release, Produce, Recheck, Hold, Reject,
             ReadGuard, ReadLookup, SaveGuard, SaveLookup, Guard, Lookup, Store, Refuse, At
    <3>2. RowOK(r) => RowOK(r)'
      BY <1>1, <1>6, <2>2, OwnRow DEF Operate
    <3> QED
      BY <1>1, <1>6, <2>2, <3>1, <3>2 DEF Operate, WaitOK, WorkerAt, Current, Call_
  <2> QED
    BY <2>1, <2>2
<1>7. ASSUME NEW q \in Runs, Discard(q) PROVE WaitOK(r)'
  <2>1. UNCHANGED <<run, worker, calls, review>>
    BY <1>7 DEF Discard, Return
  <2>2. CASE q # r
    <3>1. call'[r] = call[r]
      BY <1>1, <1>7, <2>2 DEF Discard, Return, TypeOK
    <3>2. \A k \in ReviewId : Survives(k)
      BY <1>1, <2>1, AllSurvive
    <3> QED
      BY <1>1, <1>3, <2>1, <3>1, <3>2, CalmStep
  <2>3. CASE q = r
    <3>1. call[r].pc # "idle" /\ ~(WorkerAt("tool") /\ Current = r)
      BY <1>7, <2>3 DEF Discard, Return, Outcomes
    <3> QED
      BY <1>1, <2>1, <3>1 DEF WaitOK, WorkerAt, Current, Call_
  <2> QED
    BY <2>2, <2>3
<1>8. ASSUME NEW q \in Runs, StartWorker(q) PROVE WaitOK(r)'
  <2>1. Calm(r)
    BY <1>8 DEF StartWorker, Calm, IdleWorker, WorkerAt, Current
  <2> QED
    BY <1>4, <1>8, <2>1 DEF StartWorker, crvars
<1>9. ASSUME NEW q \in Runs, ResumeReview(q) PROVE WaitOK(r)'
  <2>1. /\ UNCHANGED worker /\ UNCHANGED crvars /\ run' = Resumed(q)
        /\ \A c \in calls' : c.op \in {"cancel", "finish"} => c \in calls
    BY <1>9 DEF ResumeReview, Call_
  <2>2. Calm(r)
    <3>1. CASE run' = run
      BY <2>1, <3>1 DEF Calm, WorkerAt, Current
    <3>2. CASE run[q].state = Waiting /\ run' = [run EXCEPT ![q].state = "queued"]
      BY <1>1, <2>1, <3>2 DEF Calm, WorkerAt, Current, JobsTypes, Run, Waiting
    <3> QED
      BY <2>1, <3>1, <3>2 DEF Resumed, MayResume
  <2> QED
    BY <1>4, <2>1, <2>2 DEF crvars
<1>10. ASSUME NEW q \in Runs, CancelFinish(q) PROVE WaitOK(r)'
  <2>1. Calm(r) /\ UNCHANGED call
    BY <1>3, <1>10 DEF CancelFinish, Finish
  <2>2. CASE q # r
    BY <1>5, <1>10, <2>1, <2>2 DEF CancelFinish
  <2>3. CASE q = r
    <3>1. run[r].cancel \/ run[r].state = "deleted"
      BY <1>1, <1>10, <2>3 DEF CancelFinish, WaitOK
    <3>2. CASE run[r].cancel
      BY <1>1, <2>1, <3>2, CalmStep
    <3>3. CASE run[r].state = "deleted"
      <4>1. run[r].state # Waiting /\ ~(WorkerAt("tool") /\ Current = r)
        BY <1>2, <3>3 DEF Waiting
      <4> QED
        BY <1>1, <2>1, <4>1, CalmStep
    <3> QED
      BY <3>1, <3>2, <3>3
  <2> QED
    BY <2>2, <2>3
<1>11. ASSUME NEW q \in Runs, NEW w \in BOOLEAN,
              CancelWrite([op |-> "cancel", run |-> q, waiting |-> w])
       PROVE  WaitOK(r)'
  <2> DEFINE c == [op |-> "cancel", run |-> q, waiting |-> w]
  <2>1. /\ c \in calls /\ UNCHANGED worker /\ UNCHANGED crvars
        /\ run' = IF run[q].state = "deleted" THEN run
                  ELSE [run EXCEPT ![q].cancel = TRUE,
                                   ![q].state = IF @ = Waiting THEN "cancelled" ELSE @]
        /\ calls' \subseteq calls \cup {Call_("finish", q)}
    BY <1>11 DEF CancelWrite
  <2>2. CASE q # r
    <3>1. run'[r] = run[r]
      BY <1>1, <2>1, <2>2 DEF JobsTypes
    <3>2. Calm(r)
      BY <2>1, <2>2, <3>1 DEF Calm, WorkerAt, Current, Call_
    <3> QED
      BY <1>4, <2>1, <3>2 DEF crvars
  <2>3. CASE q = r
    <3>1. /\ run'[r].cancel \/ run'[r].state = "deleted"
          /\ run'[r].state # "absent"
          /\ run'[r].state # Waiting
      <4>1. run[r].state # "absent"
        BY <1>1, <2>1, <2>3 DEF WaitOK
      <4> QED
        BY <1>1, <2>1, <2>3, <4>1 DEF JobsTypes, Run, Waiting
    <3>2. worker'.pc = "tool" /\ Current' = r => run'[r].cancel
      <4>1. worker'.pc = "tool" /\ Current' = r => run[r].state = "running"
        BY <1>2, <2>1 DEF WorkerAt, Current
      <4> QED
        BY <1>1, <2>1, <2>3, <4>1 DEF JobsTypes, Run
    <3> QED
      BY <3>1, <3>2 DEF WaitOK, WorkerAt
  <2> QED
    BY <2>2, <2>3
<1>12. ASSUME NEW q \in Runs, Submit(q) PROVE WaitOK(r)'
  <2>1. /\ UNCHANGED worker /\ UNCHANGED crvars
        /\ run[q].state = "absent" /\ run'[q].state = "queued"
        /\ \A p \in Runs \ {q} : run'[p] = run[p]
        /\ \A c \in calls' : c.op \in {"cancel", "finish"} => c \in calls
    BY <1>1, <1>12 DEF Submit, JobsTypes, AbsentRun, Call_
  <2>2. CASE q # r
    <3>1. Calm(r)
      BY <2>1, <2>2 DEF Calm, WorkerAt, Current
    <3> QED
      BY <1>4, <2>1, <3>1 DEF crvars
  <2>3. CASE q = r
    <3>1. Call_("finish", r) \notin calls'
      BY <1>1, <2>1, <2>3 DEF WaitOK, Call_
    <3>2. ~(WorkerAt("tool")' /\ Current' = r)
      BY <1>2, <2>1, <2>3 DEF WorkerAt, Current
    <3> QED
      BY <2>1, <2>3, <3>1, <3>2 DEF WaitOK, Waiting, Call_
  <2> QED
    BY <2>2, <2>3
<1>13. ASSUME NEW q \in Runs, CancelRead(q) PROVE WaitOK(r)'
  <2>1. /\ UNCHANGED <<run, worker>> /\ UNCHANGED crvars
        /\ run[q].state # "absent"
        /\ \A c \in calls' : c \in calls \/ (c.op = "cancel" /\ c.run = q)
    BY <1>13 DEF CancelRead, Unfinished, Waiting
  <2> QED
    BY <1>1, <2>1
       DEF WaitOK, WorkerAt, Current, Call_, RowOK, Live, Awaitable, Key, crvars
<1>14. ASSUME NEW q \in Runs, Delete(q) PROVE WaitOK(r)'
  <2>1. /\ UNCHANGED <<worker, calls>> /\ UNCHANGED crvars
        /\ run' = [run EXCEPT ![q].state = "deleted"]
    BY <1>14 DEF Delete
  <2>2. Calm(r)
    BY <1>1, <2>1 DEF Calm, WorkerAt, Current, JobsTypes, Run, Waiting
  <2> QED
    BY <1>4, <2>1, <2>2 DEF crvars
<1>15. ASSUME NEW k \in ReviewId, NEW stage \in {"pending_request", "pending_image"},
              NEW approve \in BOOLEAN, DecideReview(k, stage, approve)
       PROVE  WaitOK(r)'
  <2>1. ReviewNext /\ UNCHANGED call
    BY <1>15 DEF DecideReview, ReviewNext, Decide
  <2>2. Calm(r)
    BY <1>15 DEF DecideReview, Calm, WorkerAt, Current, Call_
  <2> QED
    BY <1>4, <2>1, <2>2
<1>16. CASE Environment \/ Close
  <2>1. Calm(r)
    BY <1>3, <1>16 DEF Environment, Close
  <2>2. UNCHANGED call /\ (AccountNext \/ Expire \/ UNCHANGED review)
    BY <1>16 DEF Environment, Close, AccountNext, SetBirthdate, Birthday, DeleteAccount,
                 WeekPasses, Expire, crvars
  <2> QED
    BY <1>4, <2>1, <2>2
<1>17. CASE Restart
  <2>1. /\ run'[r] = Interrupted(run[r]) /\ calls' = {} /\ worker'.pc = "idle"
        /\ UNCHANGED review /\ call'[r].pc = "idle"
    BY <1>17, Constants DEF Restart, Crash, IdleWorker
  <2>2. run'[r].state = Waiting => run'[r] = run[r]
    BY <1>1, <2>1 DEF Interrupted, Unfinished, Waiting, JobsTypes, Run
  <2> QED
    BY <1>1, <2>1, <2>2 DEF WaitOK, WorkerAt, Awaitable, Live
<1> QED
  BY <1>6, <1>7, <1>8, <1>9, <1>10, <1>11, <1>12, <1>13, <1>14, <1>15, <1>16, <1>17
     DEF JobsNext, Handler, UserRequest, AdminRequest

\* What waiting runs rely on holds in every reachable state.
THEOREM WaitInvariant == JobsSpec => []WaitInv
<1>1. JobsInit => WaitInv
  BY DEF JobsInit, WaitInv, WaitOK, AbsentRun, Waiting, WorkerAt, IdleWorker
<1>2. JInv /\ WaitInv /\ [JobsNext]_vars => WaitInv'
  <2> SUFFICES ASSUME JInv, WaitInv, [JobsNext]_vars, NEW r \in Runs PROVE WaitOK(r)'
    BY DEF WaitInv
  <2>1. CASE UNCHANGED vars
    BY <2>1 DEF vars, crvars, WaitInv, WaitOK, WorkerAt, Current, Call_, RowOK, Live, Awaitable,
                Key
  <2> QED
    BY <2>1, WorkWaits, OtherWaits
<1> QED
  BY <1>1, <1>2, JobsInvariant, PTL DEF JobsSpec

\* A run that waits and was not cancelled waits for a row that exists and that
\* neither finish nor a claim has taken: a decision or the expiry wakes it.
THEOREM WaitsForAnAnswer == JobsSpec => []NeverWaitsInVain
<1>1. JInv /\ WaitInv => NeverWaitsInVain
  <2> SUFFICES ASSUME JInv, WaitInv, NEW r \in WaitingRuns
               PROVE  review[run[r].review].state \in
                          {"pending_request", "pending_image", "request_approved", "approved",
                           "rejected", "expired"}
    BY DEF NeverWaitsInVain
  <2>1. r \in Runs /\ run[r].state = Waiting /\ ~run[r].cancel
    BY DEF WaitingRuns, InState
  <2>2. run[r].review \in ReviewId /\ Awaitable(run[r].review)
    BY <2>1 DEF WaitInv, WaitOK
  <2>3. review[run[r].review] \in Review
    BY <2>2 DEF JInv, IInv, TypeOK
  <2> QED
    BY <2>2, <2>3 DEF Awaitable, Live, Review, OpenStates, EndStates
<1> QED
  BY <1>1, JobsInvariant, WaitInvariant, PTL
=============================================================================
