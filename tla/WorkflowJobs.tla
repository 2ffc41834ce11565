---------------------------- MODULE WorkflowJobs ----------------------------
(***************************************************************************)
(* The saved-workflow job service (workflow/jobs.py) with the HTTP         *)
(* handlers that touch its runs (server/workflows_router.py,               *)
(* server/content_review_router.py), on top of ContentReview.              *)
(*                                                                         *)
(* One worker thread executes runs one at a time, hands each operation to  *)
(* a thread of the tool runner (ContentReview's call[r]) and, when idle,   *)
(* polls the runs that wait for a review.  Handlers are sequences of       *)
(* separate transactions; calls holds what each handler in progress still  *)
(* has to do.  Approvals, capability policy, definitions and artifact      *)
(* quotas are answers that may be yes or no at each check.                 *)
(***************************************************************************)
EXTENDS ContentReview, Sequences

CONSTANTS
    Plan,          \* the steps of each run's snapshot: [op, digest, input] records
    QueueLimit,    \* queued and running runs accepted by submit (16)
    HistoryLimit,  \* runs an account may keep (200)
    MaxRestarts,   \* bound on restarts of the server
    MaxCalls,      \* bound on HTTP handlers in progress
    NoRun, NoKey

Ops == {"image", "copy"}

\* The input of a step is a position in the values of its run: 1 for what submit
\* was given, n + 1 for the output of step n.
PlanStep == [op: Ops, digest: Digests, input: Nat]

\* Definition.ordered: at least one step, and none takes a later step's output.
ASSUME PlanAssumption ==
    /\ Plan \in [Runs -> Seq(PlanStep)]
    /\ \A r \in Runs : Plan[r] # <<>> /\ \A n \in 1..Len(Plan[r]) : Plan[r][n].input \in 1..n
ASSUME LimitsAssumption ==
    QueueLimit \in Nat /\ HistoryLimit \in Nat /\ MaxRestarts \in Nat /\ MaxCalls \in Nat
ASSUME SentinelAssumption == NoRun \notin Runs /\ NoKey \notin ReviewId
\* The database holds finitely many runs.
ASSUME FiniteAssumption == IsFiniteSet(Runs)

VARIABLES
    run,       \* runs; "absent" before the insert, "deleted" after delete_run
    worker,    \* the worker thread: pc and locals
    stopping,  \* the Event close() sets
    calls,     \* what HTTP handlers in progress still have to do
    restarts   \* restarts so far

vars == <<crvars, run, worker, stopping, calls, restarts>>

Unfinished == {"queued", "running"}
Waiting    == "awaiting_review"
Terminal   == {"completed", "failed", "cancelled"}
RunStates  == Unfinished \cup {Waiting} \cup Terminal \cup {"absent", "deleted"}

Run == [state: RunStates, cancel: BOOLEAN, done: Nat,
        values: Seq(Image \cup {NoImage}), review: ReviewId \cup {NoKey}, created: Nat]
\* Places of the worker between the last look at the cancel flag and the update.
Conclusions == {"completed", "cancelled"}
Executing   == {"step", "tool"} \cup Conclusions
Worker == [pc: {"dead", "idle", "poll", "resume", "ready", "finish"} \cup Executing,
           run: Runs \cup {NoRun}, step: Nat, todo: SUBSET Runs]
Continuation == [op: {"start", "resume", "finish", "cancel"}, run: Runs, waiting: BOOLEAN]

JobsTypeOK ==
    /\ TypeOK
    /\ run \in [Runs -> Run]
    /\ worker \in Worker
    /\ stopping \in BOOLEAN
    /\ calls \subseteq Continuation
    /\ restarts \in 0..MaxRestarts

IdleWorker == [pc |-> "idle", run |-> NoRun, step |-> 0, todo |-> {}]
AbsentRun  == [state |-> "absent", cancel |-> FALSE, done |-> 0,
               values |-> <<NoImage>>, review |-> NoKey, created |-> 0]

-----------------------------------------------------------------------------
(* Helpers.                                                                *)

InState(S) == {r \in Runs : run[r].state \in S}
Rows(o)    == {r \in Runs : OwnerOf[r] = o /\ run[r].state \notin {"absent", "deleted"}}
Present(r) == account[OwnerOf[r]].present

\* The bound on concurrent handlers; the server itself has none this low.
Accepting == Cardinality(calls) < MaxCalls

Call_(op, r) == [op |-> op, run |-> r, waiting |-> FALSE]
Adult(o) == account[o].present /\ ~account[o].protected

ReadyStates == {"request_approved", "approved", "rejected", "expired"}

\* Fault: only an approval wakes the run.
Ready_Approved(k) == AfterExpire[k].state \in {"request_approved", "approved"}

\* ready(review_id), evaluated after its call of expire().
Ready(k) == AfterExpire[k].state \in ReadyStates

\* Fault: the update is by id and cancel alone.
MayResume_AnyState(r) == run[r].state \notin {"absent", "deleted"} /\ ~run[r].cancel

\* resume_review: UPDATE ... WHERE state='awaiting_review' AND cancel=0.
MayResume(r) == run[r].state = Waiting /\ ~run[r].cancel
Resumed(r) == IF MayResume(r) THEN [run EXCEPT ![r].state = "queued"] ELSE run

Cancelled(r) == stopping \/ run[r].cancel

\* Fault: the results of an earlier execution are not looked at.
NextStep_First(r) == 1

\* The steps an earlier execution completed are skipped.
NextStep(r) == run[r].done + 1

Current == worker.run
WorkerAt(pc) == worker.pc = pc
WorkerGoto(pc) == worker' = [worker EXCEPT !.pc = pc]

-----------------------------------------------------------------------------
(* The worker thread.                                                      *)

\* Fault: cancelled runs are left in the queue.
Queue_NotCancelled == {r \in InState({"queued"}) : ~run[r].cancel}

Queue == InState({"queued"})

\* The oldest queued run becomes running; the row's completed steps are kept.
Dequeue(r) ==
    /\ WorkerAt("idle") /\ ~stopping
    /\ r \in Queue
    /\ \A q \in Queue : run[r].created <= run[q].created
    /\ run' = [run EXCEPT ![r].state = "running"]
    /\ worker' = [IdleWorker EXCEPT !.pc = "step", !.run = r, !.step = NextStep(r)]
    /\ UNCHANGED <<crvars, stopping, calls, restarts>>

WorkerExit ==
    /\ WorkerAt("idle") /\ stopping
    /\ WorkerGoto("dead")
    /\ UNCHANGED <<crvars, run, stopping, calls, restarts>>

WaitingRuns == {r \in InState({Waiting}) : ~run[r].cancel}

\* Nothing queued: poll_triggers first selects the runs that wait.
PollBegin ==
    /\ WorkerAt("idle") /\ ~stopping
    /\ Queue = {}
    /\ worker' = [worker EXCEPT !.pc = "poll",
                                !.todo = WaitingRuns]
    /\ UNCHANGED <<crvars, run, stopping, calls, restarts>>

\* adult or ready(review_id); ready() is not called for an adult.
PollCheck(r) ==
    LET adult == Adult(OwnerOf[r]) IN
    /\ WorkerAt("poll") /\ r \in worker.todo
    /\ worker' = [worker EXCEPT
            !.pc = IF adult \/ Ready(run[r].review) THEN "resume" ELSE "poll",
            !.run = r,
            !.todo = @ \ {r}]
    /\ review' = IF adult THEN review ELSE AfterExpire
    /\ UNCHANGED <<account, reviewed, decisions, files, call, produced>>
    /\ UNCHANGED <<run, stopping, calls, restarts>>

PollResume ==
    /\ WorkerAt("resume")
    /\ run' = Resumed(Current)
    /\ WorkerGoto("poll")
    /\ UNCHANGED <<crvars, stopping, calls, restarts>>

PollEnd ==
    /\ WorkerAt("poll") /\ worker.todo = {}
    /\ worker' = IdleWorker
    /\ UNCHANGED <<crvars, run, stopping, calls, restarts>>

HasStep == worker.step <= Len(Plan[Current])

\* Between two steps the worker looks at the cancel flag and at stopping.
StepCancelled ==
    /\ WorkerAt("step") /\ HasStep /\ Cancelled(Current)
    /\ run' = [run EXCEPT ![Current].state = "cancelled", ![Current].review = NoKey]
    /\ WorkerGoto("finish")
    /\ UNCHANGED <<crvars, stopping, calls, restarts>>

\* Fault: the refusal is an exception nobody catches.
StepRefused_Uncaught ==
    /\ WorkerAt("step") /\ HasStep /\ ~Cancelled(Current)
    /\ worker' = [IdleWorker EXCEPT !.pc = "dead"]
    /\ UNCHANGED <<crvars, run, stopping, calls, restarts>>

\* Approval withdrawn, capability denied, the tool runner is full, or the step
\* needs an artifact and its input has none.
StepRefused ==
    /\ WorkerAt("step") /\ HasStep /\ ~Cancelled(Current)
    /\ run' = [run EXCEPT ![Current].state = "failed", ![Current].review = NoKey]
    /\ WorkerGoto("finish")
    /\ UNCHANGED <<crvars, stopping, calls, restarts>>

\* values[step.input]; the operation fails if there is no artifact.
InputOf(step)  == run[Current].values[step.input]
HasInput(step) == InputOf(step) # NoImage

StepStart ==
    LET step == Plan[Current][worker.step] IN
    /\ WorkerAt("step") /\ HasStep /\ ~Cancelled(Current)
    /\ \/ step.op = "image" /\ BeginImage(Current, step.digest)
       \/ step.op = "copy"  /\ HasInput(step) /\ BeginCopy(Current, InputOf(step))
    /\ run' = [run EXCEPT ![Current].state = "running", ![Current].review = NoKey]
    /\ WorkerGoto("tool")
    /\ UNCHANGED <<stopping, calls, restarts>>

\* The operation succeeded: its output is recorded and the next step follows.
StepSucceeded ==
    LET r == Current IN
    /\ WorkerAt("tool") /\ At(r, "saved")
    /\ Return(r)
    /\ run' = [run EXCEPT ![r].state = "running",
                          ![r].done = worker.step,
                          ![r].values = Append(@, call[r].image)]
    /\ worker' = [worker EXCEPT !.pc = "step", !.step = @ + 1]
    /\ UNCHANGED <<stopping, calls, restarts>>

StepFailed ==
    LET r == Current IN
    /\ WorkerAt("tool") /\ At(r, "failed")
    /\ Return(r)
    /\ run' = [run EXCEPT ![r].state = "failed"]
    /\ WorkerGoto("finish")
    /\ UNCHANGED <<stopping, calls, restarts>>

\* ContentReviewRequired: the run waits, whatever its cancel flag says.
StepHeld ==
    LET r == Current IN
    /\ WorkerAt("tool") /\ At(r, "held")
    /\ Return(r)
    /\ run' = [run EXCEPT ![r].state = Waiting, ![r].review = Key(r)]
    /\ WorkerGoto("ready")
    /\ UNCHANGED <<stopping, calls, restarts>>

\* future.result timed out (1000 s): the operation's thread goes on alone.
StepTimeout ==
    LET r == Current IN
    /\ WorkerAt("tool") /\ call[r].pc \notin Outcomes
    /\ run' = [run EXCEPT ![r].state = "failed"]
    /\ WorkerGoto("finish")
    /\ UNCHANGED <<crvars, stopping, calls, restarts>>

\* The decision may have come before the update: look again, then resume.
ReadyCheck ==
    LET r == Current IN
    /\ WorkerAt("ready")
    /\ run' = IF Ready(run[r].review) THEN Resumed(r) ELSE run
    /\ Expire
    /\ WorkerGoto("finish")
    /\ UNCHANGED <<stopping, calls, restarts>>

\* After the last step the cancel flag is read once more ...
Complete ==
    /\ WorkerAt("step") /\ ~HasStep
    /\ WorkerGoto(IF Cancelled(Current) THEN "cancelled" ELSE "completed")
    /\ UNCHANGED <<crvars, run, stopping, calls, restarts>>

\* ... and the run is updated: a cancel in between comes too late.
Conclude ==
    /\ worker.pc \in Conclusions
    /\ run' = [run EXCEPT ![Current].state = worker.pc]
    /\ WorkerGoto("finish")
    /\ UNCHANGED <<crvars, stopping, calls, restarts>>

\* Fault: a run that waits for a review counts as ended.
Ended_Waiting(r) == run[r].state \notin Unfinished

\* "if current["status"] in {"completed", "failed", "cancelled"}"
Ended(r) == run[r].state \in Terminal

\* The finally clause.  store.run raises KeyError for a row deleted since the
\* last update, and nothing above _execute catches it: the thread ends.
FinishRun ==
    LET r == Current IN
    /\ WorkerAt("finish")
    /\ IF run[r].state = "deleted"
       THEN worker' = [IdleWorker EXCEPT !.pc = "dead"] /\ UNCHANGED crvars
       ELSE /\ worker' = IdleWorker
            /\ IF Ended(r) THEN Finish(r) ELSE UNCHANGED crvars
    /\ UNCHANGED <<run, stopping, calls, restarts>>

Work ==
    \/ \E r \in Runs : Dequeue(r) \/ PollCheck(r)
    \/ WorkerExit \/ PollBegin \/ PollResume \/ PollEnd
    \/ StepCancelled \/ StepRefused \/ StepStart
    \/ StepSucceeded \/ StepFailed \/ StepHeld \/ StepTimeout
    \/ ReadyCheck \/ Complete \/ Conclude \/ FinishRun

-----------------------------------------------------------------------------
(* The tool runner.                                                        *)

Operate(r) == OperationStep(r) /\ UNCHANGED <<run, worker, stopping, calls, restarts>>

\* The result of an operation nobody waits for any more.
Discard(r) ==
    /\ ~(WorkerAt("tool") /\ Current = r)
    /\ Return(r)
    /\ UNCHANGED <<run, worker, stopping, calls, restarts>>

-----------------------------------------------------------------------------
(* HTTP handlers.                                                          *)

\* What a run of account o may be given: nothing, or an artifact of its own.  The
\* read that checks it comes before the insert, so that a birthdate change may
\* come between: the policy is not asked for again before a step reads it.
Inputs(o) == {f \in files : OwnerOf[f.review.run] = o} \cup {NoImage}

\* submit: the checks and the insert; start_worker follows.
Submit(r) ==
    /\ run[r].state = "absent"
    /\ Accepting /\ Present(r) /\ ~stopping
    /\ Cardinality(InState(Unfinished)) < QueueLimit
    /\ Cardinality(Rows(OwnerOf[r])) < HistoryLimit
    /\ \E input \in Inputs(OwnerOf[r]) :
          run' = [run EXCEPT ![r] = [AbsentRun EXCEPT
            !.state = "queued", !.values = <<input>>,
            !.created = Cardinality(Runs \ InState({"absent"}))]]
    /\ calls' = calls \cup {Call_("start", r)}
    /\ UNCHANGED <<crvars, worker, stopping, restarts>>

\* start_worker, under its lock.
StartWorker(r) ==
    /\ Call_("start", r) \in calls
    /\ calls' = calls \ {Call_("start", r)}
    /\ worker' = IF WorkerAt("dead") THEN IdleWorker ELSE worker
    /\ UNCHANGED <<crvars, run, stopping, restarts>>

\* cancel: the row is read first, then updated in a second transaction.
CancelRead(r) ==
    /\ Accepting /\ Present(r)
    /\ run[r].state \in Unfinished \cup {Waiting}
    /\ calls' = calls \cup
            {[op |-> "cancel", run |-> r, waiting |-> run[r].state = Waiting]}
    /\ UNCHANGED <<crvars, run, worker, stopping, restarts>>

CancelWrite(c) ==
    LET r == c.run IN
    /\ c \in calls /\ c.op = "cancel"
    /\ run' = IF run[r].state = "deleted" THEN run
              ELSE [run EXCEPT ![r].cancel = TRUE,
                               ![r].state = IF @ = Waiting THEN "cancelled" ELSE @]
    /\ calls' = (calls \ {c}) \cup (IF c.waiting THEN {Call_("finish", r)} ELSE {})
    /\ UNCHANGED <<crvars, worker, stopping, restarts>>

\* Fault: the run's reviews are deleted instead of closed.
CancelFinish_Forgets(r) ==
    /\ Call_("finish", r) \in calls
    /\ calls' = calls \ {Call_("finish", r)}
    /\ review' = [k \in ReviewId |-> IF k.run = r THEN NoReview ELSE review[k]]
    /\ UNCHANGED <<account, reviewed, decisions, files, call, produced>>
    /\ UNCHANGED <<run, worker, stopping, restarts>>

CancelFinish(r) ==
    /\ Call_("finish", r) \in calls
    /\ calls' = calls \ {Call_("finish", r)}
    /\ Finish(r)
    /\ UNCHANGED <<run, worker, stopping, restarts>>

\* delete_run: refused only for queued and running rows.
Deletable(r) == run[r].state \in Terminal \cup {Waiting}

Delete(r) ==
    /\ Present(r)
    /\ Deletable(r)
    /\ run' = [run EXCEPT ![r] = [@ EXCEPT !.state = "deleted"]]
    /\ UNCHANGED <<crvars, worker, stopping, calls, restarts>>

\* POST /content-reviews/{id}: decide, then resume_review, then start_worker.
DecideReview(k, stage, approve) ==
    /\ Accepting
    /\ Decide(k, stage, approve)
    /\ calls' = calls \cup {Call_("resume", k.run)}
    /\ UNCHANGED <<run, worker, stopping, restarts>>

ResumeReview(r) ==
    /\ Call_("resume", r) \in calls
    /\ run' = Resumed(r)
    /\ calls' = (calls \ {Call_("resume", r)}) \cup {Call_("start", r)}
    /\ UNCHANGED <<crvars, worker, stopping, restarts>>

\* What a handler that has begun still has to do.
Handler(r) ==
    \/ StartWorker(r) \/ CancelFinish(r) \/ ResumeReview(r)
    \/ \E w \in BOOLEAN : CancelWrite([op |-> "cancel", run |-> r, waiting |-> w])

UserRequest ==
    \E r \in Runs : Submit(r) \/ CancelRead(r) \/ Delete(r)

AdminRequest ==
    \E k \in ReviewId, stage \in {"pending_request", "pending_image"},
       approve \in BOOLEAN : DecideReview(k, stage, approve)

-----------------------------------------------------------------------------
(* The process.                                                            *)

\* close(): the worker is told to stop.  The process ends soon after, so a
\* stop is explored only while a restart may still follow it.
Close ==
    /\ ~stopping /\ restarts < MaxRestarts
    /\ stopping' = TRUE
    /\ UNCHANGED <<crvars, run, worker, calls, restarts>>

\* Fault: the run that was executing is forgotten.
Interrupted_QueuedOnly(rn) == IF rn.state = "queued" THEN [rn EXCEPT !.state = "failed"] ELSE rn

Interrupted(rn) == IF rn.state \in Unfinished THEN [rn EXCEPT !.state = "failed"] ELSE rn

\* The process ends, by a crash or after close(), and starts again:
\* JobsStore.__init__ fails what was queued or running, startup starts the
\* worker.  Runs that wait for a review survive.
Restart ==
    /\ restarts < MaxRestarts
    /\ restarts' = restarts + 1
    /\ run' = [r \in Runs |-> Interrupted(run[r])]
    /\ worker' = IdleWorker
    /\ stopping' = FALSE
    /\ calls' = {}
    /\ Crash

Environment ==
    /\ AccountNext \/ Expire
    /\ UNCHANGED <<run, worker, stopping, calls, restarts>>

-----------------------------------------------------------------------------
JobsInit ==
    /\ Init
    /\ run = [r \in Runs |-> AbsentRun]
    /\ worker = IdleWorker
    /\ stopping = FALSE
    /\ calls = {}
    /\ restarts = 0

JobsNext ==
    \/ Work
    \/ \E r \in Runs : Operate(r) \/ Discard(r) \/ Handler(r)
    \/ UserRequest
    \/ AdminRequest
    \/ Environment
    \/ Close
    \/ Restart

\* Threads that can run do run, and an HTTP handler that has begun ends.
Fairness ==
    /\ WF_vars(Work)
    /\ \A r \in Runs : WF_vars(Operate(r)) /\ WF_vars(Handler(r))

JobsSpec == JobsInit /\ [][JobsNext]_vars
FairJobsSpec == JobsSpec /\ Fairness

-----------------------------------------------------------------------------
(* Properties.                                                             *)

\* The job service uses the review store only as its module allows.
ImplementsContentReview == Spec

\* The worker is the only one that executes: a running run is the one it has
\* in hand, and the run in its hand is running until its own last update.
WorkerOwnsRunning ==
    /\ \A r \in InState({"running"}) : Current = r /\ worker.pc \in Executing
    /\ worker.pc \in Executing => run[Current].state = "running"

\* A run that waits and was not cancelled waits for a row that a decision or
\* the seven-day expiry will make ready, never for a closed, claimed or
\* missing one (image() and finish racing resume_review and cancel).
NeverWaitsInVain ==
    \A r \in WaitingRuns :
        review[run[r].review].state \in {"pending_request", "pending_image",
            "request_approved", "approved", "rejected", "expired"}

\* update() writes by id alone, yet a finished run never leaves its state
\* except by deletion, and never executes again.
FinishedStaysFinished ==
    [][\A r \in Runs : run[r].state \in Terminal =>
         run'[r].state \in {run[r].state, "deleted"}]_vars

\* A run as its owner sees it, with what the worker does to it at this moment.
LifeOf(r) ==
    IF Current = r /\ WorkerAt("tool") THEN "active"
    ELSE IF Current = r /\ WorkerAt("completed") THEN "finishing"
    ELSE run[r].state

Lifecycle == INSTANCE RunLifecycle WITH
    StepsOf <- [r \in Runs |-> Len(Plan[r])],
    life    <- [r \in Runs |-> LifeOf(r)],
    asked   <- {r \in Runs : run[r].cancel},
    steps   <- [r \in Runs |-> run[r].done]

\* Whatever handlers that read an earlier state, late decisions, polls, timeouts
\* and restarts do: runs execute one at a time, a run whose cancellation was
\* recorded begins no further step and is not resumed, it completes only if all
\* its steps are done, and once it ended only its deletion changes it.
LifecyclePromise == Lifecycle!Spec

\* A step that completed is never executed again, although every resume starts
\* from the first step, and the record of completed steps never shrinks.
NoStepRepeats ==
    [][/\ WorkerAt("step") /\ worker'.pc = "tool" => worker.step > run[Current].done
       /\ \A r \in Runs : run'[r].done >= run[r].done]_vars

\* While the worker lives, a queued run is taken, and a running one comes to
\* rest, be it waiting for a review.
QueuedRunIsTaken ==
    \A r \in Runs : []<>(run[r].state # "queued" \/ WorkerAt("dead"))

RunningRunRests ==
    \A r \in Runs : []<>(run[r].state # "running")

\* A run that waits, for a review already decided or a week old.
WaitsForNothing(r) ==
    LET rv == review[run[r].review] IN
    /\ r \in WaitingRuns
    /\ rv.aged \/ rv.state \notin {"pending_request", "pending_image"}

\* "Approved/rejected decisions resume the run automatically", also when the
\* decision comes before the worker has recorded that the run waits, and when
\* no decision is ever made.
ReadyRunResumes ==
    \A r \in Runs : []<>(~WaitsForNothing(r) \/ WorkerAt("dead"))

HoldsBytes(r) == \E k \in ReviewId : k.run = r /\ review[k].image # NoImage

\* "Completed, rejected and cancelled runs discard private review bytes": once
\* the worker has left a completed run, no review keeps an image for it.
CompletedRunsDiscardBytes ==
    \A r \in InState({"completed"}) : HoldsBytes(r) => Current = r /\ WorkerAt("finish")

-----------------------------------------------------------------------------
(* What the documentation says and the code does not do: each is checked by a *)
(* run that finds it violated.                                                *)

\* "Completed, rejected and cancelled runs discard private review bytes": a
\* cancel that read the run before it waited ends it without finish().
CancelledRunsDiscardBytes ==
    \A r \in InState({"cancelled"}) :
        HoldsBytes(r) =>
            \/ Current = r /\ ~WorkerAt("idle")
            \/ Call_("finish", r) \in calls

\* "Cancellation stops after the active step": a run whose cancellation was
\* recorded ends; but one cancelled during an image step waits for ever.
CancellationStops ==
    \A r \in Runs : run[r].cancel ~> run[r].state \in Terminal \cup {"deleted"}

\* "Waiting jobs for newly adult users resume on the worker's next idle check,
\* without restarting the server": deleting a run the worker is about to leave
\* kills the worker, and nothing checks any more.
NewlyAdultRunResumes ==
    \A r \in Runs :
        r \in WaitingRuns /\ Adult(OwnerOf[r])
            ~> r \notin WaitingRuns \/ ~Adult(OwnerOf[r])
=============================================================================
