----------------------- MODULE WorkflowLifecycleProofs -----------------------
(***************************************************************************)
(* WorkflowJobs implements RunLifecycle, for every set of runs and         *)
(* accounts, every plan and all bounds.                                    *)
(***************************************************************************)
EXTENDS WorkflowJobsProofs, ContentReviewRefinement

\* What the abstract life relies on beyond JInv.
LifeInv ==
    \A r \in Runs :
        /\ run[r].done <= Len(Plan[r])
        /\ run[r].state = "absent" => ~run[r].cancel

\* Where the worker does something to the run in its hand that its row hides.
Hiding == {"tool", "completed"}

LEMMA PlainLife ==
    ASSUME NEW r, Current # r \/ worker.pc \notin Hiding
    PROVE  LifeOf(r) = run[r].state
BY DEF LifeOf, Hiding, WorkerAt

LEMMA TakenLife ==
    ASSUME JInv
    PROVE  /\ \A r \in Runs : LifeOf(r) \in {"running", "active", "finishing"} =>
                 Current = r /\ worker.pc \in Executing
           /\ \A r \in Runs : LifeOf(r) # run[r].state => run[r].state = "running"
<1>1. ASSUME NEW r \in Runs, LifeOf(r) = run[r].state
      PROVE  LifeOf(r) = "running" => Current = r /\ worker.pc \in Executing
  BY <1>1, NothingRuns
<1>2. ASSUME NEW r \in Runs, LifeOf(r) # run[r].state
      PROVE  Current = r /\ worker.pc \in Executing
  BY <1>2, PlainLife DEF Hiding, Executing, Conclusions
<1>3. ASSUME NEW r \in Runs
      PROVE  run[r].state \in RunStates
  BY DEF JInv, JobsTypeOK, Run
<1> QED
  BY <1>1, <1>2, <1>3, NothingRuns DEF RunStates, Unfinished, Waiting, Terminal

-----------------------------------------------------------------------------
(* Steps of one run, seen from RunLifecycle.                               *)

\* No run moves.
LEMMA NoneMoves ==
    ASSUME \A r \in Runs : /\ LifeOf(r)' = LifeOf(r)
                           /\ run'[r].cancel = run[r].cancel /\ run'[r].done = run[r].done
    PROVE  UNCHANGED Lifecycle!vars
BY DEF Lifecycle!vars

\* One run moves and nothing else is recorded.
LEMMA OneMoves ==
    ASSUME NEW r \in Runs, NEW from, NEW to, LifeOf(r) \in from, LifeOf(r)' = to,
           \A q \in Runs \ {r} : LifeOf(q)' = LifeOf(q),
           \A q \in Runs : run'[q].cancel = run[q].cancel /\ run'[q].done = run[q].done
    PROVE  Lifecycle!Pass(r, from, to)
BY DEF Lifecycle!Pass, Lifecycle!Move

\* A row changes its state, in the hand of no one before or after.
LEMMA RowPasses ==
    ASSUME JobsTypes, NEW r \in Runs, NEW to,
           worker.pc \notin Hiding, worker'.pc \notin Hiding,
           run'[r].state = to, run'[r].cancel = run[r].cancel, run'[r].done = run[r].done,
           \A q \in Runs \ {r} : run'[q] = run[q]
    PROVE  Lifecycle!Pass(r, {run[r].state}, to)
<1>1. \A q \in Runs : LifeOf(q) = run[q].state /\ LifeOf(q)' = run'[q].state
  BY DEF LifeOf, Hiding, WorkerAt
<1> QED
  BY <1>1, OneMoves

\* The same, of a run the worker has not in its hand.
LEMMA FarRowPasses ==
    ASSUME JobsTypes, NEW r \in Runs, NEW to, UNCHANGED worker,
           Current # r \/ worker.pc \notin Hiding,
           run'[r].state = to, run'[r].cancel = run[r].cancel, run'[r].done = run[r].done,
           \A q \in Runs \ {r} : run'[q] = run[q]
    PROVE  Lifecycle!Pass(r, {run[r].state}, to)
<1>1. LifeOf(r) = run[r].state /\ LifeOf(r)' = run'[r].state
  BY DEF LifeOf, Hiding, WorkerAt, Current
<1>2. \A q \in Runs \ {r} : LifeOf(q)' = LifeOf(q)
  BY DEF LifeOf, WorkerAt, Current
<1> QED
  BY <1>1, <1>2, OneMoves

\* The worker moves the run in its hand.
LEMMA HandMoves ==
    ASSUME JInv, worker.pc \in Executing, Current' = Current,
           NEW from, NEW to, LifeOf(Current) \in from, LifeOf(Current)' = to,
           \A q \in Runs \ {Current} : run'[q] = run[q],
           run'[Current].cancel = run[Current].cancel, run'[Current].done = run[Current].done
    PROVE  Lifecycle!Pass(Current, from, to) /\ Current \in Runs
<1>1. PICK r \in Runs : r = Current
  BY NothingRuns
<1>2. \A q \in Runs \ {r} : LifeOf(q)' = LifeOf(q)
  BY <1>1 DEF LifeOf
<1> QED
  BY <1>1, <1>2, OneMoves

-----------------------------------------------------------------------------
(* The worker.                                                             *)

\* What the worker knows of the run it executes.
LEMMA ExecutesWithin ==
    ASSUME JInv, LifeInv, worker.pc \in Executing
    PROVE  /\ Current \in Runs /\ run[Current] \in Run /\ Len(Plan[Current]) \in Nat
           /\ worker.step = run[Current].done + 1
           /\ worker.pc = "tool" => LifeOf(Current) = "active"
           /\ worker.pc = "completed" => LifeOf(Current) = "finishing"
           /\ worker.pc \in {"step", "cancelled"} => LifeOf(Current) = "running"
           /\ worker.pc = "tool" => run[Current].done < Len(Plan[Current])
           /\ run[Current].done <= Len(Plan[Current])
<1>1. Current \in Runs /\ run[Current].state = "running"
  BY NothingRuns
<1>2. run[Current] \in Run /\ Len(Plan[Current]) \in Nat
  BY <1>1, PlanAssumption DEF JInv, JobsTypeOK
<1>3. /\ worker.step = run[Current].done + 1
      /\ worker.pc = "tool" => worker.step <= Len(Plan[Current])
  BY DEF JInv, InHand, HasStep
<1>4. run[Current].done <= Len(Plan[Current]) /\ run[Current].done \in Nat
  BY <1>1, <1>2 DEF LifeInv, Run
<1> QED
  BY <1>1, <1>2, <1>3, <1>4 DEF LifeOf, WorkerAt

LEMMA WorkerLives ==
    ASSUME JInv, LifeInv, Work
    PROVE  [Lifecycle!Next]_(Lifecycle!vars)
<1> USE DEF Lifecycle!Next, Lifecycle!RunStep
<1>1. JobsTypes
  BY DEF JInv, JobsTypeOK, JobsTypes
<1>2. \A pc : WorkerGoto(pc) => worker'.pc = pc /\ Current' = Current
  BY <1>1 DEF WorkerGoto, Worker, JobsTypes, Current
<1>3. ASSUME UNCHANGED run, worker.pc \notin Hiding, worker'.pc \notin Hiding
      PROVE  UNCHANGED Lifecycle!vars
  BY <1>3, NoneMoves DEF LifeOf, Hiding, WorkerAt
\* One run is taken at a time.
<1>4. ASSUME NEW r \in Runs, Dequeue(r)
      PROVE  \E q \in Runs : Lifecycle!Take(q)
  <2>1. /\ worker.pc = "idle" /\ worker'.pc = "step"
        /\ run[r].state = "queued" /\ run' = [run EXCEPT ![r].state = "running"]
    BY <1>4 DEF Dequeue, WorkerAt, IdleWorker, Queue, InState
  <2>2. /\ run'[r].state = "running" /\ run'[r].cancel = run[r].cancel
        /\ run'[r].done = run[r].done /\ \A q \in Runs \ {r} : run'[q] = run[q]
    BY <1>1, <2>1 DEF JobsTypes, Run
  <2>3. Lifecycle!Pass(r, {"queued"}, "running")
    BY <1>1, <2>1, <2>2, RowPasses DEF Hiding
  <2>4. \A q \in Runs : LifeOf(q) \notin {"running", "active", "finishing"}
    BY <2>1, TakenLife DEF Executing, Conclusions
  <2> QED
    BY <2>3, <2>4 DEF Lifecycle!Take, Lifecycle!Taken
<1>5. ASSUME NEW r \in Runs, PollCheck(r) PROVE UNCHANGED Lifecycle!vars
  <2>1. worker.pc = "poll" /\ worker'.pc \in {"resume", "poll"} /\ UNCHANGED run
    BY <1>1, <1>5 DEF PollCheck, WorkerAt, JobsTypes, Worker
  <2> QED
    BY <1>3, <2>1 DEF Hiding
<1>6. CASE WorkerExit \/ PollBegin \/ PollEnd \/ FinishRun
  <2>1. worker.pc \in {"idle", "poll", "finish"} /\ UNCHANGED run
    BY <1>6 DEF WorkerExit, PollBegin, PollEnd, FinishRun, WorkerAt
  <2>2. worker'.pc \in {"dead", "poll", "idle"}
    <3>1. CASE WorkerExit
      BY <1>2, <3>1 DEF WorkerExit
    <3>2. CASE PollBegin
      BY <1>1, <3>2 DEF PollBegin, JobsTypes, Worker
    <3>3. CASE PollEnd \/ FinishRun
      BY <3>3 DEF PollEnd, FinishRun, IdleWorker
    <3> QED
      BY <1>6, <3>1, <3>2, <3>3
  <2> QED
    BY <1>3, <2>1, <2>2 DEF Hiding
<1>7. CASE PollResume \/ ReadyCheck
  <2>1. /\ worker.pc \in {"resume", "ready"} /\ worker'.pc \in {"poll", "finish"}
        /\ Current \in Runs /\ (run' = run \/ run' = Resumed(Current))
    BY <1>2, <1>7 DEF PollResume, ReadyCheck, WorkerAt, JInv, InHand, Holding
  <2>2. CASE run' = run
    BY <1>3, <2>1, <2>2 DEF Hiding
  <2>3. CASE run' # run
    <3>1. PICK r \in Runs : r = Current
      BY <2>1
    <3>2. MayResume(r) /\ run' = [run EXCEPT ![r].state = "queued"]
      BY <2>1, <2>3, <3>1 DEF Resumed
    <3>3. /\ run'[r].state = "queued" /\ run'[r].cancel = run[r].cancel
          /\ run'[r].done = run[r].done /\ \A q \in Runs \ {r} : run'[q] = run[q]
      BY <1>1, <3>2 DEF JobsTypes, Run
    <3>4. Lifecycle!Pass(r, {"awaiting_review"}, "queued")
      BY <1>1, <2>1, <3>2, <3>3, RowPasses DEF Hiding, MayResume, Waiting
    <3> QED
      BY <3>2, <3>4 DEF MayResume, Lifecycle!Resume
  <2> QED
    BY <2>2, <2>3
\* The run in hand is executed.
<1>8. ASSUME worker.pc \in Executing
      PROVE  \A st \in RunStates :
                ( \/ run' = [run EXCEPT ![Current].state = st]
                  \/ \E k : run' = [run EXCEPT ![Current].state = st, ![Current].review = k] ) =>
                /\ run'[Current].state = st /\ run'[Current].cancel = run[Current].cancel
                /\ run'[Current].done = run[Current].done
                /\ \A q \in Runs \ {Current} : run'[q] = run[q]
  BY <1>1, <1>8, NothingRuns DEF JobsTypes, Run
<1> USE DEF RunStates, Unfinished, Waiting, Terminal
<1>9. CASE StepStart
  <2>1. worker.pc = "step" /\ worker'.pc = "tool" /\ Current' = Current
    BY <1>2, <1>9 DEF StepStart, WorkerAt
  <2>2. /\ Current \in Runs /\ LifeOf(Current) = "running"
        /\ run[Current].done < Len(Plan[Current]) /\ ~run[Current].cancel
    BY <1>9, <2>1, ExecutesWithin DEF StepStart, HasStep, Cancelled, Executing, Run
  <2>3. LifeOf(Current)' = "active"
    BY <2>1 DEF LifeOf, WorkerAt
  <2>4. /\ run'[Current].cancel = run[Current].cancel /\ run'[Current].done = run[Current].done
        /\ \A q \in Runs \ {Current} : run'[q] = run[q]
    BY <1>8, <1>9, <2>1 DEF StepStart, Executing
  <2>5. Lifecycle!Pass(Current, {"running"}, "active")
    BY <2>1, <2>2, <2>3, <2>4, HandMoves DEF Executing
  <2> QED
    BY <2>2, <2>5 DEF Lifecycle!Start
<1>10. CASE StepSucceeded
  <2>1. PICK r \in Runs : r = Current
    BY <1>10, NothingRuns DEF StepSucceeded, WorkerAt, Executing
  <2>2. worker.pc = "tool" /\ worker'.pc = "step" /\ Current' = r
    BY <1>1, <1>10, <2>1 DEF StepSucceeded, WorkerAt, JobsTypes, Worker, Current
  <2>3. /\ run'[r].state = "running" /\ run'[r].cancel = run[r].cancel
        /\ run'[r].done = run[r].done + 1 /\ \A q \in Runs \ {r} : run'[q] = run[q]
    BY <1>1, <1>10, <2>1, <2>2, ExecutesWithin DEF StepSucceeded, JobsTypes, Run, Executing
  <2>4. LifeOf(r) = "active" /\ LifeOf(r)' = "running"
    BY <2>1, <2>2, <2>3 DEF LifeOf, WorkerAt
  <2>5. \A q \in Runs \ {r} : LifeOf(q)' = LifeOf(q)
    BY <2>1, <2>2, <2>3 DEF LifeOf
  <2>6. Lifecycle!Succeed(r)
    BY <2>3, <2>4, <2>5 DEF Lifecycle!Succeed, Lifecycle!Move
  <2> QED
    BY <2>6
<1>11. CASE StepHeld
  <2>1. worker.pc = "tool" /\ worker'.pc = "ready" /\ Current' = Current
    BY <1>2, <1>11 DEF StepHeld, WorkerAt
  <2>2. /\ run'[Current].state = Waiting /\ run'[Current].cancel = run[Current].cancel
        /\ run'[Current].done = run[Current].done
        /\ \A q \in Runs \ {Current} : run'[q] = run[q]
    BY <1>8, <1>11, <2>1 DEF StepHeld, Executing
  <2>3. LifeOf(Current) = "active" /\ LifeOf(Current)' = "awaiting_review"
    BY <2>1, <2>2 DEF LifeOf, WorkerAt
  <2>4. Lifecycle!Pass(Current, {"active"}, "awaiting_review") /\ Current \in Runs
    BY <2>1, <2>2, <2>3, HandMoves DEF Executing
  <2> QED
    BY <2>4 DEF Lifecycle!Hold
\* The run in hand ends.
<1>12. CASE StepCancelled \/ StepRefused \/ StepFailed \/ StepTimeout \/ Conclude
  <2>1. worker.pc \in Executing /\ worker'.pc = "finish" /\ Current' = Current
    BY <1>2, <1>12 DEF StepCancelled, StepRefused, StepFailed, StepTimeout, Conclude, WorkerAt,
          Executing
  <2>2. PICK st \in Terminal :
           /\ \/ run' = [run EXCEPT ![Current].state = st]
              \/ run' = [run EXCEPT ![Current].state = st, ![Current].review = NoKey]
           /\ \/ st = "completed" /\ worker.pc = "completed"
              \/ st = "cancelled" /\ worker.pc \in {"step", "cancelled"}
              \/ st = "failed" /\ worker.pc \in {"step", "tool"}
    BY <1>12 DEF StepCancelled, StepRefused, StepFailed, StepTimeout, Conclude, WorkerAt,
          Conclusions
  <2>3. /\ run'[Current].state = st /\ run'[Current].cancel = run[Current].cancel
        /\ run'[Current].done = run[Current].done
        /\ \A q \in Runs \ {Current} : run'[q] = run[q]
    BY <1>8, <2>1, <2>2
  <2>4. LifeOf(Current)' = st
    BY <2>1, <2>3 DEF LifeOf, WorkerAt
  <2>5. \/ st = "completed" /\ LifeOf(Current) = "finishing"
        \/ st = "cancelled" /\ LifeOf(Current) = "running"
        \/ st = "failed" /\ LifeOf(Current) \in {"running", "active"}
    BY <2>1, <2>2, ExecutesWithin
  <2>6. ASSUME NEW from, LifeOf(Current) \in from
        PROVE  Lifecycle!Pass(Current, from, st) /\ Current \in Runs
    BY <2>1, <2>3, <2>4, <2>6, HandMoves
  <2>7. Lifecycle!End(Current) /\ Current \in Runs
    BY <2>5, <2>6 DEF Lifecycle!End
  <2> QED
    BY <2>7
<1>13. CASE Complete
  <2>1. worker.pc = "step" /\ worker'.pc \in Conclusions /\ Current' = Current /\ UNCHANGED run
    BY <1>2, <1>13 DEF Complete, WorkerAt, Conclusions
  <2>2. /\ Current \in Runs /\ LifeOf(Current) = "running"
        /\ run[Current].done = Len(Plan[Current])
    BY <1>13, <2>1, ExecutesWithin DEF Complete, HasStep, Executing, Run
  <2>3. CASE worker'.pc = "cancelled"
    BY <2>1, <2>3, NoneMoves DEF LifeOf, WorkerAt
  <2>4. CASE worker'.pc = "completed"
    <3>1. ~run[Current].cancel
      BY <1>2, <1>13, <2>4 DEF Complete, Cancelled
    <3>2. LifeOf(Current)' = "finishing"
      BY <2>1, <2>4 DEF LifeOf, WorkerAt
    <3>3. Lifecycle!Pass(Current, {"running"}, "finishing")
      BY <2>1, <2>2, <3>2, HandMoves DEF Executing
    <3> QED
      BY <2>2, <3>1, <3>3 DEF Lifecycle!Close
  <2> QED
    BY <2>1, <2>3, <2>4 DEF Conclusions
<1> QED
  BY <1>4, <1>5, <1>6, <1>7, <1>9, <1>10, <1>11, <1>12, <1>13 DEF Work

-----------------------------------------------------------------------------
(* The handlers and the process.                                           *)

LEMMA OthersLive ==
    ASSUME JInv, WaitInv, LifeInv, JobsNext \/ UNCHANGED vars, ~Work
    PROVE  [Lifecycle!Next]_(Lifecycle!vars)
<1> USE DEF Lifecycle!Next, Lifecycle!RunStep
<1>1. JobsTypes
  BY DEF JInv, JobsTypeOK, JobsTypes
<1>2. ASSUME UNCHANGED <<run, worker>>
      PROVE  UNCHANGED Lifecycle!vars
  BY <1>2, NoneMoves DEF LifeOf, WorkerAt, Current
<1>3. ASSUME NEW r \in Runs, run[r].state # "running"
      PROVE  Current # r \/ worker.pc \notin Hiding
  BY <1>3, NothingRuns DEF Hiding, Executing, Conclusions
<1>4. ASSUME NEW r \in Runs, StartWorker(r) PROVE UNCHANGED Lifecycle!vars
  <2>1. run' = run /\ (worker' = worker \/ (worker.pc = "dead" /\ worker'.pc = "idle"))
    BY <1>4 DEF StartWorker, WorkerAt, IdleWorker
  <2> QED
    BY <2>1, NoneMoves DEF LifeOf, WorkerAt, Current
<1>5. ASSUME NEW r \in Runs, ResumeReview(r) PROVE [Lifecycle!Next]_(Lifecycle!vars)
  <2>1. CASE run' = run
    BY <1>2, <1>5, <2>1 DEF ResumeReview
  <2>2. CASE run' # run
    <3>1. MayResume(r) /\ run' = [run EXCEPT ![r].state = "queued"]
      BY <1>5, <2>2 DEF ResumeReview, Resumed
    <3>2. /\ run'[r].state = "queued" /\ run'[r].cancel = run[r].cancel
          /\ run'[r].done = run[r].done /\ \A q \in Runs \ {r} : run'[q] = run[q]
      BY <1>1, <3>1 DEF JobsTypes, Run
    <3>3. Lifecycle!Pass(r, {"awaiting_review"}, "queued")
      BY <1>1, <1>3, <1>5, <3>1, <3>2, FarRowPasses DEF ResumeReview, MayResume, Waiting
    <3> QED
      BY <3>1, <3>3 DEF MayResume, Lifecycle!Resume
  <2> QED
    BY <2>1, <2>2
<1>6. ASSUME NEW r \in Runs, Submit(r) PROVE Lifecycle!Submit(r)
  <2>1. /\ run[r].state = "absent" /\ ~run[r].cancel /\ run[r].done = 0 /\ UNCHANGED worker
        /\ run[r].cancel \in BOOLEAN
    BY <1>1, <1>6 DEF Submit, JInv, Outputs, LifeInv, JobsTypes, Run
  <2>2. /\ run'[r].state = "queued" /\ run'[r].cancel = FALSE /\ run'[r].done = 0
        /\ \A q \in Runs \ {r} : run'[q] = run[q]
    BY <1>1, <1>6 DEF Submit, JobsTypes, Run, AbsentRun
  <2>3. run'[r].cancel = run[r].cancel
    BY <2>1, <2>2
  <2>4. Lifecycle!Pass(r, {"absent"}, "queued")
    BY <1>1, <1>3, <2>1, <2>2, <2>3, FarRowPasses
  <2> QED
    BY <2>4 DEF Lifecycle!Submit
<1>7. ASSUME NEW r \in Runs, Delete(r) PROVE Lifecycle!Delete(r)
  <2>1. /\ run'[r].state = "deleted" /\ run'[r].cancel = run[r].cancel
        /\ run'[r].done = run[r].done /\ \A q \in Runs \ {r} : run'[q] = run[q]
        /\ UNCHANGED worker
    BY <1>1, <1>7 DEF Delete, JobsTypes, Run
  <2>2. run[r].state \in {"awaiting_review", "completed", "failed", "cancelled"}
    BY <1>7 DEF Delete, Deletable, Terminal, Waiting
  <2>3. Lifecycle!Pass(r, {run[r].state}, "deleted")
    BY <1>1, <1>3, <2>1, <2>2, FarRowPasses
  <2> QED
    BY <2>2, <2>3 DEF Lifecycle!Delete, Lifecycle!Pass, Lifecycle!Move
<1>8. ASSUME NEW r \in Runs, NEW w \in BOOLEAN,
             CancelWrite([op |-> "cancel", run |-> r, waiting |-> w])
      PROVE  Lifecycle!Ask(r) \/ UNCHANGED Lifecycle!vars
  <2>1. /\ [op |-> "cancel", run |-> r, waiting |-> w] \in calls /\ UNCHANGED worker
        /\ run' = IF run[r].state = "deleted" THEN run
                  ELSE [run EXCEPT ![r].cancel = TRUE,
                                   ![r].state = IF @ = Waiting THEN "cancelled" ELSE @]
    BY <1>8 DEF CancelWrite
  <2>2. CASE run[r].state = "deleted"
    BY <1>2, <2>1, <2>2
  <2>3. CASE run[r].state # "deleted"
    <3>1. run[r].state # "absent"
      BY <2>1 DEF WaitInv, WaitOK
    <3>2. /\ run'[r].cancel /\ \A q \in Runs \ {r} : run'[q] = run[q]
          /\ run'[r].state = IF run[r].state = Waiting THEN "cancelled" ELSE run[r].state
          /\ run'[r].done = run[r].done
      BY <1>1, <2>1, <2>3 DEF JobsTypes, Run
    <3>3. ASSUME NEW q \in Runs \ {r} PROVE LifeOf(q)' = LifeOf(q)
      <4>1. worker' = worker /\ run'[q] = run[q]
        BY <2>1, <3>2
      <4> QED
        BY <4>1 DEF LifeOf, WorkerAt, Current
    <3>4. /\ LifeOf(r) \notin {"absent", "deleted"}
          /\ LifeOf(r)' = IF LifeOf(r) = "awaiting_review" THEN "cancelled" ELSE LifeOf(r)
      <4>1. CASE Current # r \/ worker.pc \notin Hiding
        BY <2>1, <2>3, <3>1, <3>2, <4>1 DEF LifeOf, Hiding, WorkerAt, Current, Waiting
      <4>2. CASE Current = r /\ worker.pc \in Hiding
        BY <2>1, <4>2 DEF LifeOf, Hiding, WorkerAt, Current
      <4> QED
        BY <4>1, <4>2
    <3>5. {q \in Runs : run'[q].cancel} = {q \in Runs : run[q].cancel} \cup {r}
      BY <3>2
    <3> QED
      BY <3>2, <3>3, <3>4, <3>5 DEF Lifecycle!Ask
  <2> QED
    BY <2>2, <2>3
<1>9. CASE Restart
  <2>1. worker'.pc = "idle" /\ \A r \in Runs : run'[r] = Interrupted(run[r])
    BY <1>9 DEF Restart, IdleWorker
  <2>2. ASSUME NEW r \in Runs
        PROVE  /\ run'[r].cancel = run[r].cancel /\ run'[r].done = run[r].done
               /\ run'[r].state = IF run[r].state \in Unfinished THEN "failed" ELSE run[r].state
    BY <1>1, <2>1 DEF Interrupted, JobsTypes, Run
  <2>3. ASSUME NEW r \in Runs
        PROVE  LifeOf(r) \in {"queued", "running", "active", "finishing"} <=>
                   run[r].state \in Unfinished
    <3>1. CASE LifeOf(r) = run[r].state
      <4>1. run[r].state \in RunStates
        BY <1>1 DEF JobsTypes, Run
      <4> QED
        BY <3>1, <4>1 DEF RunStates, Unfinished, Waiting, Terminal
    <3>2. CASE LifeOf(r) # run[r].state
      <4>1. run[r].state = "running"
        BY <3>2, TakenLife
      <4>2. LifeOf(r) \in {"active", "finishing"}
        BY <3>2 DEF LifeOf
      <4> QED
        BY <4>1, <4>2 DEF Unfinished
    <3> QED
      BY <3>1, <3>2
  <2>4. ASSUME NEW r \in Runs
        PROVE  LifeOf(r)' = IF LifeOf(r) \in {"queued", "running", "active", "finishing"}
                            THEN "failed" ELSE LifeOf(r)
    <3>1. LifeOf(r)' = run'[r].state
      BY <2>1 DEF LifeOf, WorkerAt
    <3>2. LifeOf(r) # run[r].state => run[r].state \in Unfinished
      BY TakenLife DEF Unfinished
    <3> QED
      BY <2>2, <2>3, <3>1, <3>2
  <2> QED
    BY <2>2, <2>4 DEF Lifecycle!Interrupt, Lifecycle!Taken
<1> QED
  BY <1>2, <1>4, <1>5, <1>6, <1>7, <1>8, <1>9
     DEF JobsNext, Operate, Discard, Handler, CancelFinish, UserRequest, CancelRead, AdminRequest,
         DecideReview, Environment, Close, vars

-----------------------------------------------------------------------------
(* LifeInv, by the abstract steps, and the refinement.                     *)

LEMMA LifeKept ==
    ASSUME JInv, JInv', LifeInv, [Lifecycle!Next]_(Lifecycle!vars)
    PROVE  LifeInv'
<1> DEFINE life  == [r \in Runs |-> LifeOf(r)]
           asked == {r \in Runs : run[r].cancel}
           steps == [r \in Runs |-> run[r].done]
<1>1. /\ \A r \in Runs : life'[r] = "absent" => life[r] = "absent"
      /\ asked' = asked \/ \E q \in Runs : life[q] # "absent" /\ asked' = asked \cup {q}
      /\ \/ steps' = steps
         \/ \E q \in Runs : life[q] = "active" /\ steps' = [steps EXCEPT ![q] = @ + 1]
  BY DEF Lifecycle!Next, Lifecycle!RunStep, Lifecycle!Submit, Lifecycle!Take, Lifecycle!Start,
         Lifecycle!Succeed, Lifecycle!Hold, Lifecycle!Resume, Lifecycle!Close, Lifecycle!End,
         Lifecycle!Ask, Lifecycle!Delete, Lifecycle!Interrupt, Lifecycle!Pass, Lifecycle!Move,
         Lifecycle!Taken, Lifecycle!vars
<1>2. ASSUME NEW r \in Runs PROVE run'[r].done <= Len(Plan[r])
  <2>1. run[r].done \in Nat /\ run[r].done <= Len(Plan[r]) /\ Len(Plan[r]) \in Nat
    BY PlanAssumption DEF JInv, JobsTypeOK, Run, LifeInv
  <2>2. LifeOf(r) = "active" => run[r].done < Len(Plan[r])
    <3>1. ASSUME LifeOf(r) = "active" PROVE Current = r /\ worker.pc = "tool"
      <4>1. run[r].state # "active"
        BY DEF JInv, JobsTypeOK, Run, RunStates, Unfinished, Waiting, Terminal
      <4> QED
        BY <3>1, <4>1 DEF LifeOf, WorkerAt
    <3> QED
      BY <3>1, ExecutesWithin DEF Executing
  <2>3. run'[r].done = run[r].done \/ (LifeOf(r) = "active" /\ run'[r].done = run[r].done + 1)
    <3>1. steps'[r] = run'[r].done /\ steps[r] = run[r].done /\ life[r] = LifeOf(r)
      OBVIOUS
    <3> QED
      BY <1>1, <3>1
  <2> QED
    BY <2>1, <2>2, <2>3
<1>3. ASSUME NEW r \in Runs, run'[r].state = "absent" PROVE ~run'[r].cancel
  <2>1. LifeOf(r)' = "absent"
    BY <1>3 DEF JInv, WorkerOwnsRunning, LifeOf, WorkerAt, Executing, Conclusions
  <2>2. LifeOf(r) = "absent"
    <3>1. life'[r] = LifeOf(r)' /\ life[r] = LifeOf(r)
      OBVIOUS
    <3> QED
      BY <1>1, <2>1, <3>1
  <2>3. ~run[r].cancel
    BY <2>2, TakenLife DEF LifeOf, LifeInv
  <2>4. r \notin asked'
    <3>1. ASSUME NEW q \in Runs, life[q] # "absent" PROVE q # r
      BY <2>2, <3>1
    <3> QED
      BY <1>1, <2>3, <3>1
  <2> QED
    BY <2>4
<1> QED
  BY <1>2, <1>3 DEF LifeInv

LEMMA LifeInvariance == JobsSpec => []LifeInv
<1>1. JobsInit => LifeInv
  <2> SUFFICES ASSUME JobsInit, NEW r \in Runs
               PROVE  run[r].done <= Len(Plan[r]) /\ ~run[r].cancel
    BY DEF LifeInv
  <2>1. Len(Plan[r]) \in Nat
    BY PlanAssumption
  <2> QED
    BY <2>1 DEF JobsInit, AbsentRun
<1>2. JInv /\ JInv' /\ WaitInv /\ LifeInv /\ [JobsNext]_vars => LifeInv'
  BY WorkerLives, OthersLive, LifeKept
<1> QED
  BY <1>1, <1>2, JobsInvariant, WaitInvariant, PTL DEF JobsSpec

\* Whatever handlers that read an earlier state, late decisions, polls, timeouts
\* and restarts do, the service takes every run through the life that
\* RunLifecycle allows: runs execute one at a time, a run whose cancellation was
\* recorded begins no further step and is not resumed, it completes only with
\* all its steps done, and only deletion changes it once it ended (_work,
\* _execute, resume_review, cancel, delete_run, JobsStore.__init__).
THEOREM ImplementsLifecycle == JobsSpec => LifecyclePromise
<1>1. JobsInit => Lifecycle!Init
  <2> SUFFICES ASSUME JobsInit PROVE Lifecycle!Init
    OBVIOUS
  <2>1. \A r \in Runs : LifeOf(r) = "absent" /\ ~run[r].cancel /\ run[r].done = 0
    BY DEF JobsInit, AbsentRun, IdleWorker, LifeOf, WorkerAt
  <2> QED
    BY <2>1 DEF Lifecycle!Init
<1>2. JInv /\ WaitInv /\ LifeInv /\ [JobsNext]_vars => [Lifecycle!Next]_(Lifecycle!vars)
  BY WorkerLives, OthersLive
<1> QED
  BY <1>1, <1>2, JobsInvariant, WaitInvariant, LifeInvariance, PTL
     DEF JobsSpec, LifecyclePromise, Lifecycle!Spec

-----------------------------------------------------------------------------
(* What a run leaves behind.                                               *)

\* An operation outlives its run only if the run failed: by its timeout.
Lasting == {"failed", "deleted"}
StragglerInv ==
    \A r \in Runs : call[r].pc # "idle" =>
        run[r].state \in Lasting \/ (Current = r /\ WorkerAt("tool"))

NoImageOf(r) == \A k \in ReviewId : k.run = r => review[k].image = NoImage

\* The worker leaves a completed run without private bytes.
CleanInv ==
    restarts = 0 =>
        \A r \in InState({"completed"}) :
            NoImageOf(r) \/ (Current = r /\ WorkerAt("finish"))

\* What the abstract steps say of a run that ended.
LEMMA EndedLife ==
    ASSUME JInv, JInv', [Lifecycle!Next]_(Lifecycle!vars), NEW r \in Runs
    PROVE  /\ run[r].state \in Lasting => run'[r].state \in Lasting
           /\ run'[r].state = "completed" =>
                 run[r].state = "completed" \/ (Current = r /\ worker.pc = "completed")
<1> DEFINE life == [q \in Runs |-> LifeOf(q)]
<1>1. /\ life[r] \in Lasting => life'[r] \in Lasting
      /\ life'[r] = "completed" => life[r] \in {"completed", "finishing"}
  BY DEF Lifecycle!Next, Lifecycle!RunStep, Lifecycle!Submit, Lifecycle!Take, Lifecycle!Start,
         Lifecycle!Succeed, Lifecycle!Hold, Lifecycle!Resume, Lifecycle!Close, Lifecycle!End,
         Lifecycle!Ask, Lifecycle!Delete, Lifecycle!Interrupt, Lifecycle!Pass, Lifecycle!Move,
         Lifecycle!Taken, Lifecycle!vars, Lasting
<1>2. life[r] = LifeOf(r) /\ life'[r] = LifeOf(r)'
  OBVIOUS
<1>3. /\ LifeOf(r) \notin {"active", "finishing"} => LifeOf(r) = run[r].state
      /\ LifeOf(r)' \notin {"active", "finishing"} => LifeOf(r)' = run'[r].state
  BY DEF LifeOf
<1>4. /\ LifeOf(r) # run[r].state => run[r].state = "running"
      /\ LifeOf(r)' # run'[r].state => run'[r].state = "running"
  BY DEF JInv, WorkerOwnsRunning, LifeOf, WorkerAt, Executing, Conclusions
<1>5. run[r].state \notin {"active", "finishing"}
  BY DEF JInv, JobsTypeOK, Run, RunStates, Unfinished, Waiting, Terminal
<1>6. LifeOf(r) = "finishing" => Current = r /\ worker.pc = "completed"
  BY <1>5 DEF LifeOf, WorkerAt
<1> QED
  BY <1>1, <1>2, <1>3, <1>4, <1>6 DEF Lasting

\* Only a step the worker starts makes an idle thread busy.
LEMMA OnlyStarts ==
    ASSUME JInv, [JobsNext]_vars, NEW r \in Runs, call[r].pc = "idle", call'[r].pc # "idle"
    PROVE  StepStart /\ Current = r
<1>1. TypeOK
  BY DEF JInv, IInv
<1>2. ASSUME NEW q \in Runs, OperationStep(q) PROVE call'[r] = call[r]
  BY <1>1, <1>2 DEF OperationStep, ReadPolicy, Claim, ClaimNew, ClaimFull, ClaimGeneration,
         ClaimPending, ClaimApproved, ClaimEnded, Release, Produce, Recheck, Hold, Reject,
         ReadGuard, ReadLookup, SaveGuard, SaveLookup, Guard, Lookup, Store, Refuse, Goto,
         At, TypeOK
<1>3. ASSUME NEW q \in Runs, Return(q) PROVE call'[r] = call[r]
  BY <1>1, <1>3, Constants DEF Return, TypeOK
<1>4. CASE Crash
  BY <1>4, Constants DEF Crash
<1>5. CASE UNCHANGED call
  BY <1>5
<1>6. CASE StepStart
  <2>1. Current \in Runs
    BY <1>6, NothingRuns DEF StepStart, WorkerAt, Executing
  <2> QED
    BY <1>1, <1>6, <2>1 DEF StepStart, BeginImage, BeginCopy, TypeOK
<1>7. CASE StepSucceeded \/ StepFailed \/ StepHeld
  <2>1. Current \in Runs /\ Return(Current)
    BY <1>7, NothingRuns DEF StepSucceeded, StepFailed, StepHeld, WorkerAt, Executing
  <2> QED
    BY <1>3, <2>1
<1>8. CASE Work
  BY <1>5, <1>6, <1>7, <1>8
     DEF Work, Dequeue, PollCheck, WorkerExit, PollBegin, PollResume, PollEnd, StepCancelled,
         StepRefused, StepTimeout, ReadyCheck, Expire, Complete, Conclude, FinishRun, Finish,
         crvars
<1>9. CASE UserRequest \/ AdminRequest \/ Environment \/ Close \/ UNCHANGED vars
  BY <1>5, <1>9 DEF UserRequest, Submit, CancelRead, Delete, AdminRequest, DecideReview, Decide,
         Environment, AccountNext, SetBirthdate, Birthday, DeleteAccount, WeekPasses, Expire,
         Close, vars, crvars
<1>10. ASSUME NEW q \in Runs, Handler(q) PROVE UNCHANGED call
  BY <1>10 DEF Handler, StartWorker, CancelFinish, Finish, ResumeReview, CancelWrite, crvars
<1> QED
  BY <1>2, <1>3, <1>4, <1>5, <1>8, <1>9, <1>10 DEF JobsNext, Operate, Discard, Restart

\* The worker stays where it is, is started anew, or takes a step of its own.
LEMMA WorkerStays ==
    ASSUME [JobsNext]_vars, ~Work, worker.pc # "dead"
    PROVE  (UNCHANGED worker /\ restarts' = restarts) \/ Restart
BY DEF JobsNext, Operate, Discard, Handler, StartWorker, CancelFinish, ResumeReview, CancelWrite,
       UserRequest, Submit, CancelRead, Delete, AdminRequest, DecideReview, Environment, Close,
       WorkerAt, vars

LEMMA StragglerStep ==
    ASSUME JInv, JInv', StragglerInv, [JobsNext]_vars, [Lifecycle!Next]_(Lifecycle!vars)
    PROVE  StragglerInv'
<1> SUFFICES ASSUME NEW r \in Runs, call'[r].pc # "idle"
             PROVE  run'[r].state \in Lasting \/ (Current' = r /\ WorkerAt("tool")')
  BY DEF StragglerInv
<1>1. TypeOK /\ JobsTypes
  BY DEF JInv, IInv, JobsTypeOK, JobsTypes
<1>2. \A pc : WorkerGoto(pc) => worker'.pc = pc /\ Current' = Current
  BY <1>1 DEF WorkerGoto, Worker, JobsTypes, Current
<1>3. CASE call[r].pc = "idle"
  BY <1>2, <1>3, OnlyStarts DEF StepStart, WorkerAt
<1>4. CASE run[r].state \in Lasting
  BY <1>4, EndedLife
<1>5. CASE Current = r /\ WorkerAt("tool")
  <2>1. CASE ~Work
    <3>1. CASE Restart
      BY <3>1, Constants DEF Restart, Crash
    <3> QED
      BY <1>5, <2>1, <3>1, WorkerStays DEF WorkerAt, Current
  <2>2. CASE StepSucceeded \/ StepFailed \/ StepHeld
    BY <1>1, <1>5, <2>2, Constants DEF StepSucceeded, StepFailed, StepHeld, Return, TypeOK
  <2>3. CASE StepTimeout
    BY <1>1, <1>5, <2>3 DEF StepTimeout, JobsTypes, Run, Lasting
  <2> QED
    BY <1>5, <2>1, <2>2, <2>3
       DEF Work, Dequeue, PollCheck, WorkerExit, PollBegin, PollResume, PollEnd, StepCancelled,
           StepRefused, StepStart, ReadyCheck, Complete, Conclude, Conclusions, FinishRun,
           WorkerAt
<1> QED
  BY <1>3, <1>4, <1>5 DEF StragglerInv

\* Only hold() gives a row an image.
LEMMA ImagesGo ==
    ASSUME TypeOK, [Next]_crvars, NEW k \in ReviewId
    PROVE  \/ review'[k].image \in {review[k].image, NoImage}
           \/ \E q \in Runs : Hold(q) /\ k = Key(q)
<1>1. CASE UNCHANGED review
  BY <1>1
<1>2. CASE OnlyEnds
  BY <1>2 DEF OnlyEnds
<1>3. ASSUME NEW r \in Runs, OperationStep(r)
      PROVE  \/ review'[k].image \in {review[k].image, NoImage}
             \/ Hold(r) /\ k = Key(r)
  <2>1. CASE Hold(r)
    BY <2>1 DEF Hold, TypeOK
  <2>2. CASE Reject(r)
    BY <2>2 DEF Reject, TypeOK, Review
  <2>3. CASE Claim(r)
    <3>1. /\ Swept[k].image \in {review[k].image, NoImage}
          /\ Swept \in [ReviewId -> Review]
      BY SweepsEnd, ReviewTypes DEF TypeOK
    <3>2. review'[k].image \in {review[k].image, Swept[k].image, NoImage}
      BY <2>3, <3>1 DEF Claim, ClaimNew, ClaimFull, ClaimGeneration, ClaimPending, ClaimApproved,
            ClaimEnded, NoReview, Review
    <3> QED
      BY <3>1, <3>2
  <2> QED
    BY <1>1, <1>3, <2>1, <2>2, <2>3
       DEF OperationStep, ReadPolicy, Release, Produce, Recheck, ReadGuard, ReadLookup,
           SaveGuard, SaveLookup, Guard, Lookup, Store, Refuse
<1>4. ASSUME NEW r \in Runs, Finish(r) PROVE OnlyEnds
  BY <1>4, SweepsEnd DEF Finish
<1>5. CASE AccountNext
  <2>1. ASSUME NEW j \in ReviewId, WeekPasses(j) PROVE review'[k].image = review[k].image
    BY <2>1 DEF WeekPasses, TypeOK, Review
  <2>2. ASSUME NEW o \in Owners, NEW p \in BOOLEAN, SetBirthdate(o, p) PROVE OnlyEnds
    BY <2>2, SweepsEnd DEF SetBirthdate
  <2> QED
    BY <1>1, <1>2, <1>5, <2>1, <2>2 DEF AccountNext, Birthday, DeleteAccount
<1>6. CASE ReviewNext
  BY <1>6 DEF ReviewNext, Decide, TypeOK, Review
<1>7. CASE Expire
  BY <1>2, <1>7, SweepsEnd DEF Expire
<1> QED
  BY <1>1, <1>2, <1>3, <1>4, <1>5, <1>6, <1>7
     DEF Next, RunNext, BeginImage, BeginCopy, Return, Crash, crvars

\* Once its operation is over, a run gains no image.
LEMMA NoImageStays ==
    ASSUME JInv, [JobsNext]_vars, NEW r \in Runs, call[r].pc = "idle", NoImageOf(r)
    PROVE  NoImageOf(r)'
<1>1. TypeOK /\ [Next]_crvars
  BY StepRefines DEF JInv, IInv
<1>2. ASSUME NEW k \in ReviewId, k.run = r PROVE review'[k].image = NoImage
  <2>1. \A q \in Runs : Hold(q) => Key(q) # k
    BY <1>2 DEF Hold, At, Key
  <2> QED
    BY <1>1, <1>2, <2>1, ImagesGo DEF NoImageOf
<1> QED
  BY <1>2 DEF NoImageOf

LEMMA CleanStep ==
    ASSUME JInv, JInv', StragglerInv, CleanInv, [JobsNext]_vars,
           [Lifecycle!Next]_(Lifecycle!vars)
    PROVE  CleanInv'
<1>1. JobsTypes /\ TypeOK
  BY DEF JInv, IInv, JobsTypeOK, JobsTypes
<1>2. \A pc : WorkerGoto(pc) => worker'.pc = pc /\ Current' = Current
  BY <1>1 DEF WorkerGoto, Worker, JobsTypes, Current
<1>3. CASE Restart
  <2>1. restarts' # 0
    BY <1>1, <1>3, LimitsAssumption DEF Restart, JobsTypes
  <2> QED
    BY <2>1 DEF CleanInv
<1>4. CASE ~Restart
  <2>1. restarts' = restarts
    BY <1>4 DEF JobsNext, Work, Dequeue, PollCheck, WorkerExit, PollBegin, PollResume, PollEnd,
       StepCancelled, StepRefused, StepStart, StepSucceeded, StepFailed, StepHeld, StepTimeout,
       ReadyCheck, Complete, Conclude, FinishRun, Operate, Discard, Handler, StartWorker,
       CancelFinish, ResumeReview, CancelWrite, UserRequest, Submit, CancelRead, Delete,
       AdminRequest, DecideReview, Environment, Close, vars
  <2> SUFFICES ASSUME restarts = 0, NEW r \in Runs, run'[r].state = "completed"
               PROVE  NoImageOf(r)' \/ (Current' = r /\ WorkerAt("finish")')
    BY <2>1 DEF CleanInv, InState
  <2>2. CASE run[r].state # "completed"
    <3>1. Current = r /\ worker.pc = "completed"
      BY <2>2, EndedLife
    <3>2. CASE Work
      <4>1. Conclude
        BY <3>1, <3>2 DEF Work, Dequeue, PollCheck, WorkerExit, PollBegin, PollResume, PollEnd,
           StepCancelled, StepRefused, StepStart, StepSucceeded, StepFailed, StepHeld,
           StepTimeout, ReadyCheck, Complete, FinishRun, WorkerAt
      <4> QED
        BY <1>2, <3>1, <4>1 DEF Conclude, WorkerAt
    <3>3. CASE ~Work
      <4>1. Current' = r /\ worker'.pc = "completed"
        BY <1>4, <3>1, <3>3, WorkerStays DEF Current
      <4> QED
        BY <4>1 DEF JInv, WorkerOwnsRunning, Executing, Conclusions
    <3> QED
      BY <3>2, <3>3
  <2>3. CASE run[r].state = "completed"
    <3>1. call[r].pc = "idle"
      <4>1. ~(Current = r /\ WorkerAt("tool"))
        BY <2>3, NothingRuns DEF WorkerAt, Executing
      <4> QED
        BY <2>3, <4>1 DEF StragglerInv, Lasting
    <3>2. CASE NoImageOf(r)
      BY <3>1, <3>2, NoImageStays
    <3>3. CASE Current = r /\ WorkerAt("finish")
      <4>1. CASE ~Work
        BY <1>4, <3>3, <4>1, WorkerStays DEF WorkerAt, Current
      <4>2. CASE FinishRun
        <5>1. Finish(r)
          BY <2>3, <3>3, <4>2 DEF FinishRun, Ended, Terminal
        <5>2. ASSUME NEW k \in ReviewId, k.run = r PROVE review'[k].image = NoImage
          <6>1. review[k] \in Review /\ review[k].image # NoImage =>
                   review[k].state \in {"pending_image", "approved"}
            BY DEF JInv, IInv, TypeOK, BytesOnlyWhileNeeded
          <6> QED
            BY <1>1, <5>1, <5>2, <6>1 DEF Finish, AfterFinish, Review, TypeOK
        <5> QED
          BY <5>2 DEF NoImageOf
      <4> QED
        BY <3>3, <4>1, <4>2
           DEF Work, Dequeue, PollCheck, WorkerExit, PollBegin, PollResume, PollEnd,
               StepCancelled, StepRefused, StepStart, StepSucceeded, StepFailed, StepHeld,
               StepTimeout, ReadyCheck, Complete, Conclude, Conclusions, WorkerAt
    <3> QED
      BY <2>3, <3>2, <3>3 DEF CleanInv, InState
  <2> QED
    BY <2>2, <2>3
<1> QED
  BY <1>3, <1>4

LEMMA CleanInvariance == JobsSpec => [](StragglerInv /\ CleanInv)
<1>1. JobsInit => StragglerInv /\ CleanInv
  <2> SUFFICES ASSUME JobsInit, NEW r \in Runs
               PROVE  call[r].pc = "idle" /\ run[r].state = "absent"
    BY DEF StragglerInv, CleanInv, InState
  <2> QED
    BY Constants DEF JobsInit, Init, AbsentRun
<1>2. JInv /\ JInv' /\ WaitInv /\ LifeInv /\ StragglerInv /\ CleanInv /\ [JobsNext]_vars =>
        StragglerInv' /\ CleanInv'
  BY WorkerLives, OthersLive, StragglerStep, CleanStep
<1> QED
  BY <1>1, <1>2, JobsInvariant, WaitInvariant, LifeInvariance, PTL DEF JobsSpec

\* An operation that goes on after its run left it belongs to a failed run (or
\* to one deleted since): only a timeout of the tool runner leaves one behind.
THEOREM OnlyFailedLeaveStragglers == JobsSpec => []StragglerInv
BY CleanInvariance, PTL

\* "Completed, rejected and cancelled runs discard private review bytes", for the
\* completed ones: until the server is restarted, no review keeps an image for a
\* completed run the worker has left.  (A restart between the last update and
\* the finally clause of _execute does leave one.)
THEOREM CompletedDiscard == JobsSpec => [](restarts = 0 => CompletedRunsDiscardBytes)
<1>1. CleanInv => (restarts = 0 => CompletedRunsDiscardBytes)
  BY DEF CleanInv, CompletedRunsDiscardBytes, InState, HoldsBytes, NoImageOf
<1> QED
  BY <1>1, CleanInvariance, PTL

-----------------------------------------------------------------------------
(* What the job service inherits from ContentReview.                       *)

\* Under the job service too, with its resumed runs, polls, cancellations and
\* restarts, every protected request is allowed, generated once, approved and
\* only then released.
THEOREM JobsKeepApprovals == JobsSpec => ApprovalPromise
BY JobsImplementReviews, ImplementsApprovals, PTL DEF ImplementsContentReview

\* A file that a protected account can download was generated for it under its
\* present birthdate and approved twice, whatever workflow wrote or copied it.
THEOREM JobsDownloadsAreReviewed == JobsSpec => []ReadableIsReviewed
BY JobsImplementReviews, DownloadsAreReviewed, PTL DEF ImplementsContentReview

\* The limit on open reviews holds whatever the job service resumes or restarts.
THEOREM JobsStorageIsBounded == JobsSpec => []ReviewStorageBounded
BY JobsImplementReviews, StorageIsBounded, PTL DEF ImplementsContentReview

-----------------------------------------------------------------------------
(* The limit on the runs of an account.                                    *)

\* An account never keeps more rows than its limit, in whatever states: a run
\* that is resumed, interrupted or cancelled takes no room of its own, so what
\* one account can have queued beyond the queue's limit is bounded as well
\* (submit, "Run history limit reached"; resume_review counts nothing).
RowsWithinLimit ==
    \A o \in Owners :
        IsFiniteSet(Rows(o)) /\ Cardinality(Rows(o)) <= HistoryLimit

IsRow(r) == run[r].state \notin {"absent", "deleted"}

\* No step but a submission adds a row.
LEMMA OnlySubmitAdds ==
    ASSUME JInv, [JobsNext]_vars, ~\E q \in Runs : Submit(q), NEW r \in Runs, IsRow(r)'
    PROVE  IsRow(r)
<1>1. JobsTypes
  BY DEF JInv, JobsTypeOK, JobsTypes
<1>2. CASE UNCHANGED run
  BY <1>2 DEF IsRow
<1>3. worker.pc \in Executing => Current \in Runs /\ IsRow(Current)
  BY NothingRuns DEF IsRow
<1>4. ASSUME NEW q \in Runs, IsRow(q), \A p \in Runs \ {q} : run'[p] = run[p]
      PROVE  IsRow(r)
  BY <1>4 DEF IsRow
<1>5. ASSUME NEW q \in Runs, Dequeue(q) PROVE IsRow(r)
  BY <1>1, <1>4, <1>5 DEF Dequeue, Queue, InState, JobsTypes, IsRow
<1>6. CASE StepCancelled \/ StepRefused \/ StepStart \/ StepFailed \/ StepHeld
              \/ StepTimeout \/ StepSucceeded \/ Conclude
  <2>1. Current \in Runs /\ IsRow(Current)
    BY <1>3, <1>6 DEF StepCancelled, StepRefused, StepStart, StepFailed, StepHeld, StepTimeout,
                StepSucceeded, Conclude, WorkerAt, Executing, Conclusions
  <2>2. \A p \in Runs \ {Current} : run'[p] = run[p]
    BY <1>1, <1>6 DEF StepCancelled, StepRefused, StepStart, StepFailed, StepHeld, StepTimeout,
                StepSucceeded, Conclude, JobsTypes
  <2> QED
    BY <1>4, <2>1, <2>2
<1>7. ASSUME NEW q \in Runs, run' = Resumed(q) PROVE IsRow(r)
  BY <1>1, <1>4, <1>7 DEF Resumed, MayResume, Waiting, IsRow, JobsTypes
<1>8. CASE PollResume \/ ReadyCheck
  <2>1. Current \in Runs
    BY <1>8 DEF PollResume, ReadyCheck, WorkerAt, JInv, InHand, Holding
  <2> QED
    BY <1>2, <1>7, <1>8, <2>1 DEF PollResume, ReadyCheck
<1>9. ASSUME NEW q \in Runs, ResumeReview(q) PROVE IsRow(r)
  BY <1>7, <1>9 DEF ResumeReview
<1>10. ASSUME NEW q \in Runs, Delete(q) PROVE IsRow(r)
  BY <1>1, <1>10 DEF Delete, IsRow, JobsTypes, Terminal
<1>11. ASSUME NEW q \in Runs, NEW w \in BOOLEAN,
              CancelWrite([op |-> "cancel", run |-> q, waiting |-> w])
       PROVE  IsRow(r)
  <2>1. run' = IF run[q].state = "deleted" THEN run
               ELSE [run EXCEPT ![q].cancel = TRUE,
                                ![q].state = IF @ = Waiting THEN "cancelled" ELSE @]
    BY <1>11 DEF CancelWrite
  <2> QED
    BY <1>1, <2>1 DEF IsRow, JobsTypes, Run, Waiting
<1>12. CASE Restart
  <2>1. run'[r] = Interrupted(run[r])
    BY <1>12 DEF Restart
  <2> QED
    BY <2>1 DEF Interrupted, Unfinished, IsRow
<1> QED
  BY <1>2, <1>5, <1>6, <1>8, <1>9, <1>10, <1>11, <1>12
     DEF JobsNext, Work, PollCheck, WorkerExit, PollBegin, PollEnd, Complete, FinishRun, Operate, Discard,
         Handler, StartWorker, CancelFinish, UserRequest, CancelRead, AdminRequest,
         DecideReview, Environment, Close, vars

LEMMA RowsBoundStep ==
    ASSUME JInv, RowsWithinLimit, [JobsNext]_vars
    PROVE  RowsWithinLimit'
<1> SUFFICES ASSUME NEW o \in Owners
             PROVE  IsFiniteSet(Rows(o)') /\ Cardinality(Rows(o)') <= HistoryLimit
  BY DEF RowsWithinLimit
<1> DEFINE before == {r \in Runs : OwnerOf[r] = o /\ IsRow(r)}
<1>1. JobsTypes
  BY DEF JInv, JobsTypeOK, JobsTypes
<1>2. Rows(o) = before /\ Rows(o)' = before'
  BY DEF Rows, IsRow
<1>3. IsFiniteSet(before) /\ Cardinality(before) \in Nat /\ Cardinality(before) <= HistoryLimit
  BY <1>2, FS_CardinalityType DEF RowsWithinLimit
<1>4. CASE before' \in SUBSET before
  <2>1. IsFiniteSet(before') /\ Cardinality(before') <= Cardinality(before)
    BY <1>3, <1>4, FS_Subset
  <2>2. Cardinality(before') \in Nat
    BY <2>1, FS_CardinalityType
  <2> QED
    BY <1>2, <1>3, <2>1, <2>2, LimitsAssumption
<1>5. ASSUME NEW q \in Runs, Submit(q), OwnerOf[q] = o
      PROVE  IsFiniteSet(Rows(o)') /\ Cardinality(Rows(o)') <= HistoryLimit
  <2>1. before' = before \cup {q}
    BY <1>1, <1>5 DEF Submit, JobsTypes, IsRow, AbsentRun
  <2>2. Cardinality(before) < HistoryLimit
    BY <1>2, <1>5 DEF Submit
  <2>3. IsFiniteSet(before') /\ Cardinality(before') <= Cardinality(before) + 1
    BY <1>3, <2>1, FS_AddElement
  <2>4. Cardinality(before') \in Nat
    BY <2>3, FS_CardinalityType
  <2> QED
    BY <1>2, <1>3, <2>2, <2>3, <2>4, LimitsAssumption
<1>6. ASSUME NEW q \in Runs, Submit(q), OwnerOf[q] # o PROVE before' \in SUBSET before
  BY <1>1, <1>6 DEF Submit, JobsTypes, IsRow
<1>7. CASE ~\E q \in Runs : Submit(q)
  BY <1>4, <1>7, OnlySubmitAdds
<1> QED
  BY <1>4, <1>5, <1>6, <1>7

\* However its runs are resumed, interrupted, cancelled and deleted, an account
\* never has more of them than HistoryLimit.
THEOREM RowsAreBounded == JobsSpec => []RowsWithinLimit
<1>1. JobsInit => RowsWithinLimit
  <2> SUFFICES ASSUME JobsInit, NEW o \in Owners
               PROVE  IsFiniteSet(Rows(o)) /\ Cardinality(Rows(o)) <= HistoryLimit
    BY DEF RowsWithinLimit
  <2>1. Rows(o) = {}
    BY DEF JobsInit, Rows, AbsentRun
  <2> QED
    BY <2>1, FS_EmptySet, LimitsAssumption
<1>2. JInv /\ RowsWithinLimit /\ [JobsNext]_vars => RowsWithinLimit'
  BY RowsBoundStep
<1> QED
  BY <1>1, <1>2, JobsInvariant, PTL DEF JobsSpec
=============================================================================
