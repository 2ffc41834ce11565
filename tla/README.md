# OpenJarvis: a verification project

This directory holds TLA+ models of parts of the OpenJarvis server
(`src/src/openjarvis`), the TLC configurations that check them on small
instances, and TLAPS proofs of the properties that matter most for every
instance. `PROJECT.json` maps every definition to the lines it models.

Contents: [the system](#the-system) · [hard behaviours](#hard-behaviours) ·
[the modules](#the-modules) · [runs](#runs-bounds-and-fairness) ·
[what the code does differently](#what-the-documentation-says-and-the-code-does-not-do) ·
[proofs](#proofs) · [plan](#plan) · [not modelled](#not-modelled)

## The system

OpenJarvis is one server process (FastAPI) with several background threads and
SQLite databases. Everything below runs in that process except the image
server, the 3D worker and the model servers. The parts with state and a protocol
of their own:

| part | state it keeps | operations | talks to | must be true |
|---|---|---|---|---|
| content review (`server/content_protection.py`) | `content_reviews`, `reviewed_images`, `content_review_audit` | `image`, `decide`, `ready`, `finish`, `expire`, `check_download` | accounts (each read), jobs (the run it is for), image server (`produce`) | nothing unreviewed reaches a protected account; a request is generated once; ended reviews stay ended; storage is bounded |
| accounts (`server/auth_store.py`) | `users` with birthdate and `content_revision`, sessions, recovery | `set_birthdate`, `delete_user`, `change_role`, login | expires reviews in its own transaction | one administrator remains; a new birthdate invalidates earlier decisions |
| workflow jobs (`workflow/jobs.py`, `server/workflows_router.py`) | `runs`, `definitions`, `approvals`, `triggers`; one worker thread, `stopping`, `wake` | `submit`, `cancel`, `delete_run`, `resume_review`, worker loop, restart recovery, `subscribe`, `poll_triggers` | tool runner, content review, artifact store, 3D worker | one run executes at a time; finished runs stay finished; steps are not repeated; nothing waits for ever |
| tool runner (`tools/_stubs.py`) | bounded queue and daemon threads | `submit`, time-out | whoever calls a tool | a timed-out operation keeps running and must do no harm |
| artifact store (`artifacts/store.py`) | files, rows, quotas | `save`, `read` with its guard, `delete` | content review (`read_guard`) | no file without its row, no protected read without review |
| GPU lease (`workflow/providers.py`, `workflow/gpu_recovery.py`, `engine/gpu_gate.py`) | a lock file, a `.blocked` marker, the recovery's failure counts | `image_gpu`, `block_gpu`, `generate_image`, `tick`, chat guards | image server, Ollama, systemd | a GPU in an unknown state stays reserved; recovery ends |
| 3D worker (`deploy/hunyuan/worker.py`, `server/hunyuan_router.py`) | a lease file that routes chats to an alternate model, `busy`, job files | `submit`, `run_job`, `clear_stale_lease` | the lock file, Ollama | chats during a lease use the alternate model; a lease ends |
| source synchronisation (`connectors/source_manager.py`, `source_jobs.py`, `source_job_runner.py`, `sync_engine.py`, `source_store.py`) | `sources`, `source_jobs`, `source_schedules`, `sync_state` in SQLite; lock files of sources, jobs and the scheduler; a semaphore, a scheduler thread and worker threads in each process | `start_sync`, `tick`, worker, `cancel`, `update`, `migrate`, `delete`, `set_sharing`, `set_schedule`, `list`, `stop_jobs` | connectors, knowledge index, HTTP handlers, other server processes | one writer per source; no live sync is declared dead; a cancellation and a commit exclude each other; no document is skipped for good; no slot is lost; accepted jobs end and due schedules run |
| managed agents (`agents/manager.py` and executor) | agent rows, tasks, messages | ticks, pause, budget | scheduler, engines | one tick at a time; a pause is not lost |
| MCP runtime (`mcp`) | connection pool | connect, call, restart, close | MCP servers | calls never use a closed connection |
| scheduler, memory service, approvals, sessions | tables and one thread each | poll, claim, retry | agents, engines | a task is not run twice |

How the modelled parts interact: an HTTP handler *submits* a run; the worker
thread takes it, hands each operation to a tool-runner thread and waits for the
answer. An image operation asks the content review, which either hands over
bytes (adult account, or an approved review) or raises `ContentReviewRequired`
after storing a request or an image for review; the worker then puts the run into
`awaiting_review`. An administrator's decision, the worker's poll or the expiry
puts the run back into the queue, and the plan is executed again from its first
step. Birthdate changes act on accounts and reviews behind all of them.

Source synchronisation is a system of its own: server processes share tables, an index and
lock files. A handler or a process's scheduler thread *starts* a sync (lock of the
source, slot, job row, job lock) and hands locks and slot to a worker thread, which reads the
source, commits, saves the checkpoint and writes the final state. The scheduler of
whichever process is leader also looks for running jobs whose worker is gone.

## Hard behaviours

`PROJECT.json` lists the hazards at their lines. In short: the account's policy is
read several times around a GPU job that takes minutes; reviews are changed by
the operation thread, administrators, expiry, cancel and birthdate changes, each
in a transaction of its own; an operation that timed out goes on in its thread; the
wake-up of a waiting run can precede the wait; each resume re-executes the plan;
updates of runs are by id alone; the server may stop anywhere. The GPU is shared by
processes that know of each other only through a lock that dies with its holder, a
marker that does not, and a lease; the image server and Ollama take part in
none of them, and any request to them may fail or be carried out unanswered. A sync is
started, cancelled, edited around, probed and listed by threads of several processes that meet in
file locks, in transactions on one row, and nowhere else; a process may end between
any two of its steps; documents appear, change and go while they are read; and a
checkpoint that is one document too far makes that document disappear from the index for good.

## The modules

**`ContentReview.tla`**: the review store, the accounts' birthdates and the image
path of a run's operation. State: `account` (present, protected, revision),
`review` (one row for each run, request digest and birthdate revision, which is the table's
UNIQUE key), `reviewed`, `decisions` (the audit table), `files` (the artifact
store), `call[r]` (the program counter and locals of the thread that executes
run `r`'s operation) and `produced` (a history of requests sent to the image server).
The thread of `image()` is cut at every account read, every transaction and the GPU job:
`ReadPolicy`, `Claim` (the BEGIN IMMEDIATE transaction with its sweep and its six
outcomes), `Release`, `Produce`, `Recheck`, `Hold`, `Reject`, then the two
halves of `check_download` (`SaveGuard`, `SaveLookup`) and `Store`. A copy
step enters through the read guard (`ReadGuard`, `ReadLookup`). Administrators (`Decide`),
`SetBirthdate` with its expiry of reviews, `Birthday`, `DeleteAccount`,
`WeekPasses`, `Expire`, `Finish` and `Crash` are single actions, as they are
single transactions. The module is *open*: operations, finish and crashes come
from an unconstrained environment. It is therefore the abstract specification
of what the review store is promised by, and promises to, the job service.

**`WorkflowJobs.tla`** extends it with the job service: `run` (the rows), `worker`
(the thread: its place and locals), `stopping`, `calls` (handlers between two
of their transactions) and `restarts`. The worker's actions follow `_work`,
`poll_triggers` (review half) and `_execute`: take the oldest run, skip
completed steps, look at the cancel flag, start the operation, record its
outcome, re-check a review after recording the wait, look at the flag for the last time
(`Complete`) and write the end that look led to (`Conclude`; a cancellation recorded in
between comes too late), and the `finally` clause that
reads the row again, closes the reviews of an ended run, and dies with `KeyError`
if the row was deleted. `cancel`, `decide` and `submit` are cut at
their transactions; `Restart` is `JobsStore.__init__` plus the loss of every thread.
`ImplementsContentReview` states that the composition is an implementation of
`ContentReview`'s `Spec`: here the shared variables have the same names, so
the refinement mapping is the identity and each step of the service is a step
or a stutter of the open module.

**`GpuLease.tla`** stands beside them: a run's image operation is an image
thread here, and one step (`Produce`) there. State: `pc` (the place of each image thread,
chat, the 3D worker and the recovery thread), `mode` (how each holds the flock),
`marker` (absent, torn, or written with its restart count and cool-down), `lease`,
`server` (queue, history and memory of the image server), `ollama` (which models
are loaded), `safe` (`safe_to_release`), `alternate` (who was given the alternate
model), `memory` (the fields of `GPURecovery` and the locals of `tick`), and two histories,
`attempts` and `checks`. An image thread goes through
`image_gpu` (lock, second look at the marker, unloading of Ollama), the queue check, `block_gpu` in
two steps (truncate, write), submission with its four outcomes (accepted or not, answered or
not), polling, `stop_image_job`, cleanup and unlink. A chat takes the shared lock, looks
again at the marker and then at the lease. The 3D worker takes the exclusive lock, publishes
the lease, converts its lock to a shared one and back; as in flock(2), a
conversion first drops the lock, so it is two steps (`MeshPublish`, `MeshShare`;
`MeshEnd`, `MeshUpgrade`). The recovery thread's `tick` is cut at each request and file
operation. `ApiCrash` ends every thread of the API, `MeshCrash` the worker
with its child; both leave files and servers as they are. `Administrator` is the manual
recovery the documentation describes, and happens only when the monitor cannot act.

Its abstractions. The memory criterion of `cleanup_snapshot` is one bit: held or
at the baseline. Reading the queue and the memory is one step; a submission that the image
server accepts reaches its queue before the same thread's later requests are
answered. The job's own status file can be read when `run_job` ends. `systemctl restart`
empties the server or does nothing. `memory.failures` stops at its limit, since only
being below three matters, and `memory.known` says whether the marker's `created` is the one
remembered. `Local` and `AutoRestart` are settings.

**`SourceSync.tla`** models source synchronisation, one action for each SQLite transaction or
change of the index; taking a file lock is part of the action after it when nothing in between can
be disturbed. State: `source`, `schedule` and `job` (the tables), `lock`, `jobLock` and `leader`
(the lock files), `slots` (the semaphore of each process), `thread` (place and locals of each
process's scheduler thread and of its handler that starts syncs), `worker` (the worker of each job),
`edit` (an update, migration or removal in progress), `listing` (sources a `list()` read as
syncing), `up`, `stopping` and `crashes` (processes), and the documents: `remote` (at the
origin), `index` (in the knowledge store, in their present version) and `covered` (older than
`last_sync`, not asked for again). `tick` is `TickBegin`, `TickProbe` (a
running job both of whose locks are free is interrupted), `TickListQueued`, `TickStart`,
`TickListDue`, `TickStartDue`, `TickEnd`. `start_sync` is `Begin` (lock, presence, revision; a queued job of a
changed source is cancelled), `StartSlot`, `StartCreate`, `StartClaim`, `StartLaunch` or `StartFailed`,
`StartAnswer`. The worker is `WorkerBegin` (the watermark is taken before the first
fetch), `WorkerIngest`, `WorkerBeginCommit`, `WorkerReconcile` (what is gone leaves the index),
`WorkerSave` (the checkpoint), `WorkerConclude`, `WorkerFinish`, `WorkerRelease`, with `WorkerCancelled` and `WorkerFails`
at every place where an exception may arise. `Cancel`, `SetSchedule`, `Update`,
`Share`, `ListRead`/`ListRepair`, and `ResetCheckpoint`, `PurgeDocuments`, `WriteConfig` or `Delete`
(an edit in three steps) come from handlers. `Stop` is `stop_jobs`; `Exit` ends a process, killed or
stopped, whose locks the operating system releases; `Restart` starts it again.

Its abstractions. Documents are a set: one that changes is one that appears anew (`Publish`), so that what was
read, indexed or covered is so in its present version. `created_at` is the order of job ids. A source
reads full snapshots or increments (`snapshot`), fixed by its adapter and configuration.
Job ids that run out (`MaxJobs`) make `create` raise. Not modelled: the `sync()` of
the command line, which has no job; an unmigrated adapter, whose queued job simply stays queued; storage errors
in `tick` (it starts over) and after `worker.start()`.

**`SourceIndex.tla`** is the abstract specification of the documents alone: they are published,
removed, ingested; only documents that left the origin are dropped; the checkpoint advances only
over documents that are held and never steps back except to nothing; a source is reset before it is purged
and purged before it points elsewhere. `SourceSync` implements it under the mapping
`origin <- remote, held <- index, skipped <- covered` (`IndexPromise`): all of jobs, locks,
threads and processes are implementation.

**`SyncLifecycle.tla`** is the other half of what `SourceSync` promises, to whoever asks for a sync: a source has one open
sync; few run at once; a sync somebody has in hand is ended by his hand only, as succeeded or failed once it commits;
what was cancelled does not commit, and what commits is not cancelled; nothing that ended begins again. `SourceSync`
implements it (`SyncPromise`): the life of a sync is its row's state, refined by `committing` (`LifeOf`), *in hand* (`Tended`) is what its
worker has until `finish()`, or the `start_sync` that claimed it until it launches the worker, whatever
process they are in. Two of its actions are weaker than one would wish. `Drop` ends also a sync that has
already ended: `start_sync` of a job a tick listed as queued overwrites `succeeded` with `cancelled` when the source changed
meanwhile. `Cancel` accepts to cancel a running sync that nobody has in hand any more; it is
found interrupted, not cancelled.

**`TwoApprovals.tla`**, **`RunLifecycle.tla`** and **`GpuSharing.tla`** are the abstract specifications of
the other three components: what their users may rely on, without the rows, locks,
threads and files it is done with. Each is implemented by its component under a mapping stated at the end
of the component's module.

* `TwoApprovals` (`ApprovalPromise` of `ContentReview`): a request of a protected account is *allowed*, *generated*
  (once), *approved* and only then released, or *refused* for good; decisions are for the present
  birthdate. The requests are the possible review rows; the stage of one (`StageOf`) is read off the recorded decisions and the
  requests sent, not off the row, which is swept, claimed, expired and closed by racing
  threads; released is what the artifact store holds. So the mapping says that the row's state never lets a thread get
  ahead of the decisions.
* `RunLifecycle` (`LifecyclePromise` of `WorkflowJobs`): one run at a time executes; a run whose cancellation was recorded
  begins no step and is not resumed; it completes only with all its steps done; what ended stays so. The life of a run
  (`LifeOf`) is its row's state, refined by what the worker does to it at this moment: `active` while
  its operation is awaited, `finishing` after the last look at the flag. `Hold` and `End` are also open to a run
  whose cancellation was recorded: the first is the disagreement `doc_cancel_waits`, the second lets a run fail
  or, once `finishing`, complete although a cancel was just recorded.
* `GpuSharing` (`SharingPromise` of `GpuLease`): a reservation begins on a quiet GPU without chats, is not
  taken over by another job and ends with a quiet server; chats start only outside one; the GPU is lent to a 3D job, or taken
  back, only between chats; restarts are budgeted for each reservation. Reserved is the marker (`Blocked`), busy the image
  server (`~Quiet`), lent the lease file, and the restarts are those really made (`attempts`), whatever memory and
  marker say. That the 3D worker may use the GPU while it is reserved is not excluded: it is the disagreement `doc_gpu_mesh`.

Abstractions of the first two modules. Bytes are the record of the request and policy they were
generated for; a digest collision or two requests producing equal bytes is not
considered. A request is one of `Digests`. A plan consists of image and copy
operations in any order; the other operations read, compute and save like the copy does.
The `input` of a step is a position in the `values` of its run, what `submit` was given or the output
of an earlier step, as `Definition.ordered` demands; a plan may begin with a copy. `submit` is given an image
of its account (`Inputs`) or nothing, which stands for a prompt alone. The read that checks the file precedes the insert, and
a birthdate may change in between, so `Inputs` does not ask whether the file is readable now; the step that uses it
does. Uploads are left out, as no review is ever made for one: the guard passes text and
refuses a protected account images and 3D files, which leads to `StepFailed` like a file whose review is outdated.
Quotas, approvals, capability checks, disk errors and image-server errors are
refusals that may happen at any check. `protected` abstracts the age: it may
change by `SetBirthdate` (with the revision) and by `Birthday` (without). No code
disables an account after its creation, so only its deletion is modelled.
Definitions named after another with a suffix (`MayHold_Always`, `Recalled_Never`, ...)
are faulty forms of the definition that follows them; nothing uses them except the mutation entries of
`PROJECT.json`, which show for every property that a plausible bug breaks it.

`MCContentReview.tla`, `MCWorkflowJobs.tla`, `MCGpuLease.tla` and `MCSourceSync.tla` give the constants
their values and define the constraints of the runs.

## Runs, bounds and fairness

| run | instance | what it shows |
|---|---|---|
| `review_race` | 1 account, 1 run, 1 request, 2 birthdate revisions, limit 1 | all interleavings of one operation thread with everybody else; the safety of the module and the refinement of `TwoApprovals` |
| `jobs_restart` | 1 run, 1 restart, 2 handlers at once; then a second run that copies the image of the first, 1 handler | restart recovery, runs that begin with a copy, refinement of `RunLifecycle` and of `ContentReview` |
| `jobs_live` | 1 run with plan image, copy, image; 2 requests; fair threads, no restart | re-execution after each hold repeats no step; queued runs are taken, running ones rest, decided ones resume |
| `jobs_two` | 2 runs with one review slot, or 1 run with 2 birthdate revisions; 1 handler | what a waiting run waits for and what becomes of private bytes, when two runs share worker, queue and store and under birthdate changes |
| `gpu_safety` | 2 symmetric image threads, 2 chats, 1 crash | the safety of marker, lease, image jobs and restarts, and the refinement of `GpuSharing` |
| `gpu_live` | 1 image thread, 1 chat, 1 crash, fair threads | a reservation left behind ends or needs the administrator; a lease ends when chats pause |
| `sync_safety` | 2 processes, 2 sources, 1 document, limit 1, 2 jobs, 1 exit, in four stories | one writer, no live sync declared dead, cancel against commit, nothing skipped, no slot lost, and the refinement of `SyncLifecycle` and `SourceIndex` |
| `sync_live` | 1 process, 2 sources, limit 1, 2 jobs, 1 exit, fair threads | accepted jobs end and due schedules run, once users stop asking |
| `doc_*` | as small as the disagreement allows | see below |

Bounds. `MaxRevision` = 1 lets a thread act on an old policy while reviews of the
new one exist; a second change adds no new relation between a thread's revision,
a row's and the account's (equal or older). One run is enough for everything
about a single row because rows of different runs meet only in the count of
open reviews and in the queue, which have runs with two. `MaxRestarts` = 1: a
restart forgets every thread, so a second starts from a state like the first.
`MaxCalls` bounds handlers in progress (cancel and decide at once need 2).
`QueueLimit` and `HistoryLimit` stand for 16 and 200, `ReviewLimit` for 32.
`ShortStory` keeps the runs with two runs in reach by leaving out account deletion,
expiry and outlived time-outs, all explored with one run. `CopyStory` submits the second run of `jobs_restart` once the
first has completed or was deleted, for only then its image is there to copy (a straggler may store it after that). Deadlock is not checked
for the job service: after `close` the worker ends, and exhausted bounds end the rest.
`ContentReview` can always crash, so its run checks deadlock trivially.

For `GpuLease`, `MaxCrashes` = 1 lets a crash fall between any two steps of one incident; the
proofs cover any number. `RestartBudget` and `FailureLimit` are the code's 3 and 3 in every run; the
proofs cover all values.

For `SourceSync` the whole instance is out of TLC's reach, so `sync_safety` explores four stories,
each a constraint on the others' freedom: `LifeStory` (the whole life of one source in one process: scheduler,
schedule, cancel, edits, sharing, list, stop, exit; no documents, a schedule only before the first
edit, list() without a scheduler or an exit), `DocumentStory` (the documents of a
source that handlers sync, edit and cancel, with exits, snapshots and increments), `ProcessStory` (two
processes and a scheduler compete for one source) and `CapacityStory` (two processes and two
sources compete for the limit of 1). Every action occurs in one of them, and a state that satisfies
no story is not expanded. `Limit` and `HistoryLimit` are 1, so that the second sync meets both; 2 jobs are a
sync that ends and one that follows, or two that compete. One document suffices where the properties speak of each
document by itself: nothing in a sync depends on another document. The proofs cover all instances, documents and
stories together.

Fairness. `Work` is weakly fair: the worker is a thread in a loop that never
blocks except on `wake.wait(5)` and `future.result(timeout)`. `Operate(r)` is weakly
fair: an operation's HTTP requests and GPU polling have time-outs. `Handler(r)`
is weakly fair: a handler that began ends. Requests, administrators and time
are not fair: nobody has to decide. The weak fairness of `Work` is of the
disjunction, as there is one thread; `StepTimeout` is one of its ways on.
In `GpuLease` every thread in progress is weakly fair and no request need begin.
`MeshShare`, `MeshUpgrade` and `MeshRestart` are strongly fair: the first two block in
flock(2), which wakes its waiters at every release, the last polls ten times a second and
is started again by systemd. The recovery thread's unloading of Ollama is strongly fair:
Ollama is not assumed to answer at once, but not to refuse for ever. The image server
ends the jobs it accepted; freeing its memory is not fair, which is what restarts are for.
`LeaseEnds` assumes `ChatPauses`: chats that overlap for ever keep the lock shared for ever.

In `SourceSync` a thread inside `start_sync`, a tick, a worker and an edit in progress are weakly fair
(threads that run); a worker that reads ends (`WorkerEnds`: connectors have time-outs, and a fetch is cut by cancellation);
a process that has ended is started again, and one that was stopped ends. Users, schedules, exits
and the origin are not fair. `JobsEnd` and `DueRuns` assume that users rest eventually (`UsersRest`): the
scheduler's `try_lock` fails whenever a handler holds the source's lock, and nothing
forbids that to happen at every tick.

## What the documentation says and the code does not do

Four runs each check one sentence of `docs/user-guide/generation-workflows.md`
and find it violated (details and lines under "findings"):

* `doc_cancel_bytes`: "cancelled runs discard private review bytes": not if the run
  began to wait between the two transactions of `cancel`.
* `doc_cancel_waits`: "cancellation stops after the active step": a run cancelled
  during an image step that is then held waits for ever.
* `doc_adult_stranded`: "resume on the next idle check": deleting a run at the wrong
  moment ends the worker thread; the next check needs another request.
* `doc_gpu_mesh`: "Hunyuan submission ... fail[s] visibly while recovery runs": the
  worker does not look at the marker, the API does so too early.

In the first three cases the bytes or runs concerned are cleaned up by the seven-day
expiry or by another request; nothing unreviewed becomes readable.

Smaller differences, met while modelling and without a run of their own: a
resumed run enters the queue without being counted, so the queue may hold more than
16 runs; a restart between completing a run and closing its reviews keeps the
bytes until they expire (`CompletedRunsDiscardBytes` is checked and proved without restarts); a run
whose cancellation is recorded after the worker's last look at the flag (`jobs.py:880-884`) ends as completed; a
marker whose writing is interrupted is one the recovery thread ignores
(`Unreadable` in `ReservationEnds`); overlapping chats may keep the worker from restoring
normal routing (`ChatPauses` in `LeaseEnds`). In source synchronisation, a tick that listed a job as queued may
find that it has run to its end and its source has changed since: `start_sync` then overwrites
`succeeded` with `cancelled` (`source_manager.py:464`); `list()` may mark a source as
interrupted that was syncing when it was read and whose sync has just succeeded (`source_manager.py:543`);
and if a source is removed after its sync ended and before `start_sync` answers, the slot is given back
twice (`source_manager.py:527`), which the bounded semaphore absorbs or refuses (so one process may start
one sync more; the table still bounds them). None of them loses data.

## Proofs

`ContentReviewProofs.tla` proves, from `ConstantsAssumption` alone (runs have owners,
there is a request, bounds are naturals, NULL is no image), for every set of
accounts, runs and requests:

* `TypeCorrect`, `DownloadsAreReviewed`, `StoredIsApproved`, `StaleIsNeverApproved`,
  `EndedHoldsNothing`: the safety invariants of `review_race`, and `NeverGeneratedAgain`, which
  no run checks by itself any more since `ApprovalPromise` says more;
* `EndedIsFinal`: the action property `EndedStaysEnded`.

None of the invariants but types is inductive: what a thread is about to store
depends on what it was told several steps ago. `IInv` adds `CallInv` (what the
thread knows at each place: for instance, before `store` an image made under the protected
policy has both decisions; in `produce` the row was claimed and its request never
sent), `ReviewInv` (what a row's state says about decisions, bytes and requests sent)
and `ReviewedInv`. The argument has three parts: steps that only end reviews
(`EndsKeep`, `EndingStep`), steps of one thread that leave the stores alone
(`ThreadOnly`, with `OtherThread` for the rest), and the five steps that
do more (`ClaimStep`, `ProduceStep`, `HoldStep`, `DecideStep`, `StoreStep`). That
decisions are never removed and a claimed row never becomes unclaimed again is what
makes the knowledge of the other threads stable.

`ContentReviewRefinement.tla` proves from the same assumption:

* `ImplementsApprovals`: every step of `ContentReview` maps to a step of `TwoApprovals` or to a stutter. `IInv` does not suffice,
  since the stage of a request is read off the decisions. `DecidedInv` ties them to the row: no decision goes beyond what the state of an open row shows; an image that waits for its decision,
  or was approved, was generated exactly once; an approved request was never refused; and the thread that
  claimed the row is the one that sends and then holds for it. Its
  steps have a frame lemma each, for rows that end, threads that step alone, and the five steps that do more.
* `StorageIsBounded`: at most `ReviewLimit` reviews are open. Nothing says that accounts or runs are finitely many, so the
  invariant is that the set of open reviews is finite *and* bounded, and only the claim that
  inserts a row adds to it, one at a time and after counting in the same transaction.

`GpuLeaseProofs.tla` proves, from `ProcessAssumption` (the processes are distinct) and
`SettingsAssumption`, for every set of image threads and chats, both settings and any number of
crashes: `TypeCorrect`, `Reserved`, `ChatIsSafe`, `JobsAreAlone`, `LeaseIsKept` and
`FailuresFirst`, the safety invariants of `gpu_safety`, and `Budgeted`. The
properties do not mention the lock, so the inductive invariant adds it:
`Exclusion` (an exclusive lock excludes all others) and `Places` (who holds it how at
each place, which depends for the 3D worker on having been given an alternate
model). From them `Alone` derives that a process at work has no competitor, which makes what
it has seen stay true: `Knows` for an image thread (no model loaded, queue empty, marker
written), `ChatKnows`, `LeaseKnows`, and `RecoveryKnows`, which relates four
counters: restarts done never exceed the count in the marker, nor what the thread
remembers of it, and failures remembered for a known marker never exceed the failed checks of
it. The steps are treated process by process: types, then the lock, then a frame lemma (what
the process leaves alone) and one lemma per group of facts.

`GpuSharingProofs.tla` proves that `GpuLease` implements `GpuSharing` (`ImplementsSharing`). An abstract reservation begins when
the marker is truncated, which requires a GPU that is quiet, free of chats *and not reserved*. The first two follow
from `IInv`; the last does not, as the marker survives the lock of whoever wrote it. `ShareInv` adds it: `Fresh` (from the second look at
the marker until its own write an image thread has seen none, and none appears), `RewritesOwn` (the recovery thread that
truncates a marker rewrites the one it read, with the count it remembers: an administrator removes only one
that needs him) and `UsersOnly` (no chat keeps the alternate model when it ends). `ReservationsAreFresh` states the consequence by itself:
no image job overwrites the marker of another, or one a crash left, and with it the count of restarts. Without
`image_gpu`'s second look at the marker under the lock this proof fails at that step, as it should.

`SourceSyncLocks.tla` and `SourceSyncProofs.tla` prove, from `BoundsAssumption`, `SetsAssumption` and
`NamesAssumption`, for every set of processes, sources and documents and all bounds, every property of
`sync_safety`: `TypeCorrect`, `OneWriterAtATime`, `AliveRuns`, `CancellationWins`,
`EnabledAreRead`, `SyncingIsShown`, `NothingIsSkipped`, `RunningIsBounded`, `SlotsAreReturned` and the refinements
`IndexKept` and `SyncsKept`; also `CommitWins` and `EndedForGood`, which say of workers and rows what `SyncLifecycle`
says of lives. The inductive invariant is built in layers, each proved with those before it:

1. `LockInv` and `JobInv`: whoever works on a source holds its lock, at each place of
   `start_sync`, of the worker and of an edit; the job it works for exists and is of that source.
2. `RunInv` (one open job per source; a claimed job stays as it is until its worker starts; a live worker's job is
   running) and `CommitInv` (which flags the row has at each place of the worker, and which outcome they allow).
3. `EnabledInv` and `ShownSyncing`: what was checked of a source under its lock stays true (`SourceStays`).
4. `DataInv`: what a worker that reads, commits or saves knows of origin, index and checkpoint
   (`Reads`), what an edit has emptied (`Edits`), and `NothingSkipped`, which is not inductive without them.

The effect lemmas (`StartEffect`, `WorkerEffect`, `AskEffect`, `QuietEffect`) say once what a step does to threads,
locks and rows; `JobChange`, `SourceChange` and `DataChange` list the steps that touch a table or the documents, so
that each later proof has few cases. `IndexKept` maps each case of `DataChange` to an action of `SourceIndex`,
using `Reads` where the code drops documents or advances the checkpoint.

`SyncsKept` needs little beyond those layers, and it shows what they are worth: `finish` writes by id alone, and that it still
finds the row of a sync nobody else has in hand is the lock's work (`LaunchAlone`: one thread at most is about to launch a
worker for a job, and none while a worker lives). `AskedInv` adds that a cancellation is asked only of a job that
exists, and that a worker ends as cancelled only when asked to.

`WorkflowJobsProofs.tla` proves, from the assumptions of `WorkflowJobs` (a plan has at least one step, and a step takes
what the run was given or the output of an earlier step, which `Definition.ordered` checks; bounds are naturals; NULL is no run and no review; the database holds finitely many
runs, which makes the count that `submit` stores a number), for every set of runs and accounts and every plan:
`JobsTypeCorrect`, `WorkerOwns`, `FinishedStays`, `StepsNeverRepeat`, `WaitsForAnAnswer`, and with `JobsImplementReviews` that
every step of the service is one of `ContentReview` or a stutter, so that the theorems of
`ContentReviewProofs` hold of the service (`JobsStoreAfterBothDecisions` states one of them). The refinement is not
a matter of form: `ContentReview` lets a copy begin only on a stored file of the same account, and the
service takes the file from the row of the run, which may have been given it before the account's birthdate changed. So `JInv` relates the two halves: `OwnInv` (an operation in progress
handles an image of its own account, and reports `saved` only for a stored one), `Outputs` (a row holds what the run was given and one output for each
completed step, and the images among them are stored files of its account) and `InHand` (the worker's step follows the completed ones of the run in its hand). For
`WaitsForAnAnswer`, `WaitInv` follows the review row from the claim to the wait: as long as the worker waits for the
operation and no cancel was recorded, the row is live at each place of the thread, and a handler that is about to
call `finish` has recorded its cancel first. `Survives` says which steps leave a row so, `CalmStep` is the frame.

`WorkflowLifecycleProofs.tla` builds on these, from the same assumptions:

* `ImplementsLifecycle`: `WorkflowJobs` implements `RunLifecycle`. `update()` writes by id alone, after a read in an earlier
  transaction; that the write still finds the row in a state the abstract life allows is `JInv`'s work (`WorkerOwns` above all, as
  `Taken` runs are the one in the worker's hand). `LifeInv` adds that the record of done steps stays within the plan, and that a
  cancel is recorded only of a submitted run. `StepsOf` is the length of the plan, for every plan.
* `CompletedDiscard`: `CompletedRunsDiscardBytes` as long as the server was not restarted (`restarts = 0`, which is also the bound of the run that
  checks it; with a restart it is false, see above). It needs to know who might still store bytes for a run that ended: an operation
  whose step timed out goes on. `StragglerInv` (theorem `OnlyFailedLeaveStragglers`): an operation in progress is the one
  the worker waits for, or its run failed or was deleted since. So nothing stores for a completed run, and `CleanInv` follows the
  `finally` clause: until it has run, the worker is at it. That no ended run becomes another ended run is taken from the
  abstract life (`EndedLife`), not from the code again.
* `JobsKeepApprovals`, `JobsDownloadsAreReviewed`, `JobsStorageIsBounded`: with `JobsImplementReviews`, what is proved of the open module holds in
  the service; the first composes two refinements, so the job service implements `TwoApprovals`.
* `RowsAreBounded`: no account has more than `HistoryLimit` rows, in whatever states. The queue itself is not
  bounded by `QueueLimit`, since resumption does not count; this bounds it. Only `submit` adds a row (`OnlySubmitAdds`), after
  counting in the same transaction.

Not proved, only model-checked: liveness (`jobs_live`, `gpu_live`, `sync_live`), which rests on fairness and ENABLED and is
outside the prover's reach. Every other property of the passing runs is a theorem, `CompletedRunsDiscardBytes` with the hypothesis
named above. `StorageIsBounded`, `RowsAreBounded`, `ReservationsAreFresh`, `OnlyFailedLeaveStragglers`, `CommitWins` and `EndedForGood` are theorems only; TLC found them
true of the instances above before they were proved, and the runs leave them to the proofs.

## Plan

1. (done) `ContentReview`, `WorkflowJobs` on top of it, `GpuLease`, `SourceSync`; an abstract specification of each
   (`TwoApprovals`, `RunLifecycle`, `GpuSharing`, `SourceIndex`, `SyncLifecycle`), implemented by a proved refinement; a proof of every safety
   property the runs check.
2. The promise of the review store over a whole history of birthdates.
3. `AfterGeneration`: triggers that submit a run when a 3D job completes
   ("runs once"): subscribe, dispatch, remove, restart. Composes with submit.
4. `AgentLifecycle`, `AuthStore` (roles), MCP runtime, approvals, scheduler, memory.

## Not modelled

Prompts, tools, engines, channels, speech, telemetry, evaluation, mining, the Rust
crates, the frontend and deployment scripts have no shared protocol state or are separate
programs; see "components" in `PROJECT.json` for each with its reason. Within the modelled
files: definitions and approvals (their answers are refusals), image-server
records, listing and preview beyond their call of `expire`, the file system below
the artifact store, and uploads.
