------------------------------ MODULE SourceSync ------------------------------
(***************************************************************************)
(* Source synchronisation: SourceManager, SourceJobs, SourceJobRunner and    *)
(* SyncEngine (src/src/openjarvis/connectors).  Server processes share one   *)
(* SQLite database of sources, schedules, jobs and checkpoints, one index of *)
(* documents and a directory of lock files.  In every process a scheduler    *)
(* thread and HTTP handlers start syncs; each sync has a worker thread.      *)
(*                                                                           *)
(* One action is one SQLite transaction or one change of the index.  A file  *)
(* lock is taken in the action that follows it when nothing in between can   *)
(* be disturbed.  What is read from a source is abstracted to a set of       *)
(* documents: created_at and timestamps are kept as orders only.             *)
(***************************************************************************)
EXTENDS Naturals, FiniteSets

CONSTANTS
    Servers,       \* server processes over the same data directory
    Sources,       \* configured source instances
    Kinds,         \* how sources are read: TRUE full snapshots, FALSE increments
    Docs,          \* documents a source may hold
    Limit,         \* syncs at once, in the table and per process (2)
    HistoryLimit,  \* runs kept per source (100)
    Scheduled,     \* bound: sources whose schedule a behaviour sets
    Listers,       \* bound: processes whose list() a behaviour calls
    MaxJobs,       \* bound on the jobs of a behaviour
    MaxRevision,   \* bound on a source's revision
    MaxCrashes,    \* bound on the exits of server processes
    NoJob,         \* no job id
    NoOne          \* nobody holds the lock

Jobs == 1..MaxJobs          \* job ids in the order of created_at
Roles == {"tick", "http"}   \* SourceJobRunner.run and a request handler
Thread == Servers \X Roles
Holder == Thread \cup Servers \X {"edit"} \cup Jobs \X {"worker"}

ASSUME BoundsAssumption ==
    /\ Limit \in Nat \ {0} /\ HistoryLimit \in Nat \ {0}
    /\ MaxJobs \in Nat /\ MaxRevision \in Nat /\ MaxCrashes \in Nat
ASSUME SetsAssumption == Sources # {} /\ Servers # {} /\ Kinds \subseteq BOOLEAN /\ IsFiniteSet(Servers)
ASSUME NamesAssumption == NoJob \notin Jobs /\ NoOne \notin Holder \cup Servers

VARIABLES
    source,    \* rows of sources
    schedule,  \* rows of source_schedules; due: next_run_at has passed
    job,       \* rows of source_jobs
    lock,      \* source-locks/<id>: who holds it
    jobLock,   \* source-job-locks/<id>: those held, each by the job's worker
    leader,    \* the process that holds the scheduler lock
    slots,     \* _SYNC_SLOTS of each process
    thread,    \* scheduler and handler threads: pc and locals
    worker,    \* worker threads, by job
    edit,      \* update, migrate or delete in progress, by source
    listing,   \* sources a list() call of a process read as 'syncing'
    up,        \* processes that run
    stopping,  \* processes whose stop_event is set
    crashes,   \* exits so far
    remote,    \* documents at the configured origin
    index,     \* documents whose present version is in the knowledge store
    covered    \* sync_state: documents older than last_sync, not read again

tables  == <<source, schedule, job>>
threads == <<lock, jobLock, leader, slots, thread, worker>>
data    == <<remote, index, covered>>
procs   == <<edit, listing, up, stopping, crashes>>
vars    == <<tables, threads, procs, data>>

Open     == {"queued", "running"}
Final    == {"succeeded", "failed", "cancelled", "interrupted"}
JobState == Open \cup Final \cup {"absent", "deleted"}

\* snapshot: every read is a full one (adapter and configuration decide).
Source == [present: BOOLEAN, enabled: BOOLEAN, revision: Nat, snapshot: Kinds,
           state: {"idle", "queued", "syncing", "cancelled", "error"}]
Job    == [state: JobState, source: Sources, revision: Nat,
           cancel: BOOLEAN, committing: BOOLEAN]

\* "running", "queued" and "due" are the loops of tick; the others are start_sync.
Loop   == {"running", "queued", "due"}
Start  == {"slot", "create", "claim", "launch", "answer"}
ThreadRec == [pc: {"idle"} \cup Loop \cup Start, loop: Loop \cup {"http"},
              source: Sources, revision: Nat, job: Jobs \cup {NoJob},
              todo: SUBSET Jobs, due: SUBSET Sources]

\* begin: _sync_locked; read: engine.sync; commit, save: complete() and after;
\* conclude: the end of _ingest; finish, release: the end of run().
Sync == {"begin", "read", "commit", "save", "conclude"}
Worker == [pc: {"none"} \cup Sync \cup {"finish", "release"}, server: Servers,
           started: SUBSET Docs, seen: SUBSET Docs, outcome: Final]

TypeOK ==
    /\ source \in [Sources -> Source]
    /\ schedule \in [Sources -> [enabled: BOOLEAN, due: BOOLEAN]]
    /\ job \in [Jobs -> Job]
    /\ lock \in [Sources -> Holder \cup {NoOne}]
    /\ jobLock \subseteq Jobs
    /\ leader \in Servers \cup {NoOne}
    /\ slots \in [Servers -> 0..Limit]
    /\ thread \in [Thread -> ThreadRec]
    /\ worker \in [Jobs -> Worker]
    /\ edit \in [Sources -> {"none", "purge", "write"}]
    /\ listing \subseteq Servers \X Sources
    /\ up \subseteq Servers /\ stopping \subseteq Servers
    /\ crashes \in 0..MaxCrashes
    /\ remote \in [Sources -> SUBSET Docs]
    /\ index \in [Sources -> SUBSET Docs]
    /\ covered \in [Sources -> SUBSET Docs]

------------------------------------------------------------------------------
SomeSource == CHOOSE s \in Sources : TRUE
SomeServer == CHOOSE p \in Servers : TRUE

NoJobRow == [state |-> "absent", source |-> SomeSource, revision |-> 0,
             cancel |-> FALSE, committing |-> FALSE]
IdleThread == [pc |-> "idle", loop |-> "http", source |-> SomeSource, revision |-> 0,
               job |-> NoJob, todo |-> {}, due |-> {}]
IdleWorker == [pc |-> "none", server |-> SomeServer, started |-> {}, seen |-> {},
               outcome |-> "failed"]

Init ==
    /\ \E kind \in [Sources -> Kinds] :
         source = [s \in Sources |-> [present |-> TRUE, enabled |-> TRUE, revision |-> 1,
                                     snapshot |-> kind[s], state |-> "idle"]]
    /\ schedule = [s \in Sources |-> [enabled |-> FALSE, due |-> FALSE]]
    /\ job = [j \in Jobs |-> NoJobRow]
    /\ lock = [s \in Sources |-> NoOne]
    /\ jobLock = {}
    /\ leader = NoOne
    /\ slots = [p \in Servers |-> Limit]
    /\ thread = [t \in Thread |-> IdleThread]
    /\ worker = [j \in Jobs |-> IdleWorker]
    /\ edit = [s \in Sources |-> "none"]
    /\ listing = {}
    /\ up = Servers /\ stopping = {} /\ crashes = 0
    /\ remote \in [Sources -> SUBSET Docs]
    /\ index = [s \in Sources |-> {}]
    /\ covered = [s \in Sources |-> {}]

Running == {j \in Jobs : job[j].state = "running"}
OpenOf(s) == {j \in Jobs : job[j].state \in Open /\ job[j].source = s}
RowOf(j) == job[j].state \notin {"absent", "deleted"}
Oldest(j, J) == j \in J /\ \A k \in J : j <= k

\* The rows finish() deletes for source s when the rows are r.
Pruned(r, s) ==
    {j \in Jobs :
        /\ r[j].source = s /\ r[j].state \in Final
        /\ Cardinality({k \in Jobs : r[k].source = s /\ r[k].state \in Open \cup Final /\ k > j})
             >= HistoryLimit}

\* SourceJobs.finish(j, state): by id alone.
Finish(j, state) ==
    LET s == job[j].source
        r == [job EXCEPT ![j].state = state, ![j].committing = FALSE]
    IN  /\ job' = [k \in Jobs |-> IF k \in Pruned(r, s) THEN [r[k] EXCEPT !.state = "deleted"]
                                  ELSE r[k]]
        /\ source' = [source EXCEPT ![s].state =
                        CASE state = "succeeded" -> "idle"
                          [] state = "cancelled" -> "cancelled"
                          [] OTHER -> "error"]

------------------------------------------------------------------------------
(* SourceJobRunner.tick.                                                     *)

At(t, pc) == thread[t].pc = pc
Tick(p) == <<p, "tick">>

\* The locals of a thread that leaves start_sync: a handler has answered, tick
\* looks at the next entry of its loop.
Left(f) == IF f.loop = "http" THEN IdleThread
           ELSE [f EXCEPT !.pc = f.loop, !.job = NoJob, !.source = SomeSource, !.revision = 0]

\* The scheduler lock, then the list of running jobs.
TickBegin(p) ==
    /\ At(Tick(p), "idle") /\ p \in up \ stopping /\ leader = NoOne
    /\ leader' = p
    /\ thread' = [thread EXCEPT ![Tick(p)] =
           [IdleThread EXCEPT !.pc = "running", !.loop = "running", !.todo = Running]]
    /\ UNCHANGED <<tables, lock, jobLock, slots, worker, procs, data>>

\* A running job both of whose locks are free has no worker any more.
DeadWorker_Assumed(j) == job[j].state = "running"
DeadWorker_Never(j)   == FALSE
DeadWorker(j) == j \notin jobLock /\ lock[job[j].source] = NoOne /\ job[j].state = "running"

TickProbe(p) ==
    LET t == Tick(p)
    IN  \E j \in thread[t].todo :
        /\ At(t, "running") /\ Oldest(j, thread[t].todo) /\ p \notin stopping
        /\ thread' = [thread EXCEPT ![t].todo = @ \ {j}]
        /\ IF DeadWorker(j)
           THEN Finish(j, "interrupted")
           ELSE UNCHANGED <<job, source>>
        /\ UNCHANGED <<schedule, lock, jobLock, leader, slots, worker, procs, data>>

TickListQueued(p) ==
    LET t == Tick(p)
    IN  /\ At(t, "running") /\ thread[t].todo = {}
        /\ thread' = [thread EXCEPT ![t].pc = "queued", ![t].loop = "queued",
                        ![t].todo = {j \in Jobs : job[j].state = "queued"}]
        /\ UNCHANGED <<tables, lock, jobLock, leader, slots, worker, procs, data>>

\* SourceJobs.due.
Due_WhenIdle(s) == /\ schedule[s].enabled /\ schedule[s].due /\ source[s].enabled
                   /\ source[s].state = "idle"
Due(s) == schedule[s].enabled /\ schedule[s].due /\ source[s].present /\ source[s].enabled

TickListDue(p) ==
    LET t == Tick(p)
    IN  /\ At(t, "queued") /\ thread[t].todo = {}
        /\ thread' = [thread EXCEPT ![t].pc = "due", ![t].loop = "due",
                        ![t].due = {s \in Sources : Due(s)}]
        /\ UNCHANGED <<tables, lock, jobLock, leader, slots, worker, procs, data>>

\* The end of the three loops, or stop_event seen at the head of one.
TickEnd(p) ==
    LET t == Tick(p)
    IN  /\ \/ At(t, "due") /\ thread[t].due = {}
           \/ /\ thread[t].pc \in Loop /\ p \in stopping
              /\ thread[t].todo # {} \/ thread[t].due # {}
        /\ thread' = [thread EXCEPT ![t] = IdleThread]
        /\ leader' = NoOne
        /\ UNCHANGED <<tables, lock, jobLock, slots, worker, procs, data>>

------------------------------------------------------------------------------
(* SourceManager.start_sync, by a handler or by tick.                        *)

\* Thread t, its locals being f, asks for a sync of s: for the queued job j or
\* for a new one.  A queued job whose source has changed ends without a run.
Begin(t, f, s, j) ==
    IF lock[s] # NoOne \/ ~source[s].present \/ (j # NoJob /\ ~RowOf(j))
    THEN /\ thread' = [thread EXCEPT ![t] = Left(f)]
         /\ UNCHANGED <<job, source, lock>>
    ELSE IF j # NoJob /\ (job[j].revision # source[s].revision \/ ~source[s].enabled)
    THEN /\ thread' = [thread EXCEPT ![t] = Left(f)]
         /\ Finish(j, "cancelled")
         /\ UNCHANGED lock
    ELSE IF ~source[s].enabled
    THEN /\ thread' = [thread EXCEPT ![t] = Left(f)]
         /\ UNCHANGED <<job, source, lock>>
    ELSE /\ thread' = [thread EXCEPT ![t] = [f EXCEPT !.pc = "slot", !.source = s,
                                        !.revision = source[s].revision, !.job = j]]
         /\ lock' = [lock EXCEPT ![s] = t]
         /\ UNCHANGED <<job, source>>

HttpStart(p, s) ==
    LET t == <<p, "http">>
    IN  /\ At(t, "idle") /\ p \in up
        /\ lock[s] = NoOne /\ source[s].present /\ source[s].enabled
        /\ Begin(t, IdleThread, s, NoJob)
        /\ UNCHANGED <<schedule, jobLock, leader, slots, worker, procs, data>>

TickStart(p) ==
    LET t == Tick(p)
    IN  \E j \in thread[t].todo :
        /\ At(t, "queued") /\ Oldest(j, thread[t].todo) /\ p \notin stopping
        /\ Begin(t, [thread[t] EXCEPT !.todo = @ \ {j}], job[j].source, j)
        /\ UNCHANGED <<schedule, jobLock, leader, slots, worker, procs, data>>

TickStartDue(p) ==
    LET t == Tick(p)
    IN  \E s \in thread[t].due :
        /\ At(t, "due") /\ p \notin stopping
        /\ Begin(t, [thread[t] EXCEPT !.due = @ \ {s}], s, NoJob)
        /\ UNCHANGED <<schedule, jobLock, leader, slots, worker, procs, data>>

\* The exception path and the early return: the locks are given back.
Conflict(t) ==
    /\ thread' = [thread EXCEPT ![t] = Left(@)]
    /\ lock' = [lock EXCEPT ![thread[t].source] = NoOne]

\* slots.release(): a BoundedSemaphore raises rather than exceed its bound.
Released_Unbounded(n) == n + 1
Released(n) == IF n < Limit THEN n + 1 ELSE n

\* The same, with a slot that was acquired.
Abandon_KeepsSlot(t) == Conflict(t) /\ UNCHANGED slots
Abandon(t) == Conflict(t) /\ slots' = [slots EXCEPT ![t[1]] = Released(@)]

\* slots.acquire(blocking=False).
StartSlot(t) ==
    LET p == t[1]
    IN  /\ At(t, "slot")
        /\ IF slots[p] = 0
           THEN Conflict(t) /\ UNCHANGED slots
           ELSE /\ slots' = [slots EXCEPT ![p] = @ - 1]
                /\ thread' = [thread EXCEPT ![t].pc =
                                IF thread[t].job = NoJob THEN "create" ELSE "claim"]
                /\ UNCHANGED lock
        /\ UNCHANGED <<tables, jobLock, leader, worker, procs, data>>

\* Job ids not used so far: when none is left (a bound), create raises.
Fresh == {j \in Jobs : job[j].state = "absent"}

\* SourceJobs.create: one open job per source, Limit running ones, and a
\* scheduled run must still be due.
MayCreate(s, scheduled) ==
    /\ OpenOf(s) = {}
    /\ Cardinality(Running) < Limit
    /\ scheduled => schedule[s].enabled /\ schedule[s].due

StartCreate(t) ==
    LET s == thread[t].source
        scheduled == thread[t].loop = "due"
    IN  /\ At(t, "create")
        /\ IF MayCreate(s, scheduled) /\ Fresh # {}
           THEN \E j \in Fresh :
                    /\ Oldest(j, Fresh)
                    /\ job' = [job EXCEPT ![j] = [NoJobRow EXCEPT !.state = "queued",
                                 !.source = s, !.revision = thread[t].revision]]
                    /\ source' = [source EXCEPT ![s].state = "queued"]
                    /\ schedule' = [schedule EXCEPT ![s].due = @ /\ ~scheduled]
                    /\ thread' = [thread EXCEPT ![t].pc = "claim", ![t].job = j]
                    /\ UNCHANGED <<lock, slots>>
           ELSE Abandon(t) /\ UNCHANGED tables
        /\ UNCHANGED <<jobLock, leader, worker, procs, data>>

\* SourceJobs.claim, under the job's lock.
MayClaim_Uncounted(j) == job[j].state = "queued" /\ ~job[j].cancel
MayClaim(j) ==
    /\ Cardinality(Running) < Limit
    /\ job[j].state = "queued" /\ ~job[j].cancel

StartClaim(t) ==
    LET s == thread[t].source
        j == thread[t].job
    IN  /\ At(t, "claim")
        /\ IF MayClaim(j)
           THEN /\ job' = [job EXCEPT ![j].state = "running"]
                /\ source' = [source EXCEPT ![s].state = "syncing"]
                /\ jobLock' = jobLock \cup {j}
                /\ thread' = [thread EXCEPT ![t].pc = "launch"]
                /\ UNCHANGED <<lock, slots>>
           ELSE Abandon(t) /\ UNCHANGED <<job, source, jobLock>>
        /\ UNCHANGED <<schedule, leader, worker, procs, data>>

\* The worker takes over the locks and the slot.
StartLaunch(t) ==
    LET s == thread[t].source
        j == thread[t].job
    IN  /\ At(t, "launch")
        /\ worker' = [worker EXCEPT ![j] = [IdleWorker EXCEPT !.pc = "begin", !.server = t[1]]]
        /\ lock' = [lock EXCEPT ![s] = <<j, "worker">>]
        /\ source' = [source EXCEPT ![s].state = "syncing"]
        /\ thread' = [thread EXCEPT ![t].pc = "answer"]
        /\ UNCHANGED <<job, schedule, jobLock, leader, slots, procs, data>>

\* worker.start() raised.
StartFailed(t) ==
    LET j == thread[t].job
    IN  /\ At(t, "launch")
        /\ Finish(j, "failed")
        /\ Abandon(t)
        /\ jobLock' = jobLock \ {j}
        /\ UNCHANGED <<schedule, leader, worker, procs, data>>

\* jobs.get of the answer.  When the worker has ended and the source has been
\* removed meanwhile, the exception path gives the slot back a second time.
StartAnswer(t) ==
    LET p == t[1]
    IN  /\ At(t, "answer")
        /\ thread' = [thread EXCEPT ![t] = Left(@)]
        /\ slots' = [slots EXCEPT ![p] = IF RowOf(thread[t].job) THEN @ ELSE Released(@)]
        /\ UNCHANGED <<tables, lock, jobLock, leader, worker, procs, data>>

------------------------------------------------------------------------------
(* The worker: run, _sync_locked, _ingest and SyncEngine.sync.               *)

Step(j, from, to) == worker[j].pc = from /\ worker' = [worker EXCEPT ![j].pc = to]

\* sync_started_at is taken before the first fetch.
WorkerBegin(j) ==
    LET s == job[j].source
    IN  /\ worker[j].pc = "begin"
        /\ worker' = [worker EXCEPT ![j].pc = "read", ![j].started = remote[s], ![j].seen = {}]
        /\ source' = [source EXCEPT ![s].state = "syncing"]
        /\ UNCHANGED <<job, schedule, lock, jobLock, leader, slots, thread, procs, data>>

\* Documents an incremental read asks for no more; a snapshot is always complete.
Skipped(s) == IF source[s].snapshot THEN {} ELSE covered[s]

\* A batch is read and ingested.  Cancellation is looked at between documents and
\* may come between the look and the ingest.
WorkerIngest(j) ==
    LET s == job[j].source
    IN  /\ worker[j].pc = "read"
        /\ \E batch \in SUBSET ((remote[s] \ Skipped(s)) \ worker[j].seen) \ {{}} :
             /\ index' = [index EXCEPT ![s] = @ \cup batch]
             /\ worker' = [worker EXCEPT ![j].seen = @ \cup batch]
        /\ UNCHANGED <<tables, lock, jobLock, leader, slots, thread, procs, remote, covered>>

\* What set_status shows of a sync that ended with this outcome.
Shown(outcome) == CASE outcome = "succeeded" -> "idle"
                    [] outcome = "cancelled" -> "cancelled"
                    [] OTHER -> "error"

\* The sync of job j ends; finish() is still to come.
End(j, outcome) ==
    /\ worker' = [worker EXCEPT ![j].pc = "finish", ![j].outcome = outcome]
    /\ source' = [source EXCEPT ![job[j].source].state = Shown(outcome)]
    /\ UNCHANGED <<job, schedule, lock, jobLock, leader, slots, thread, procs, data>>

WorkerCancelled(j) == worker[j].pc = "read" /\ job[j].cancel /\ End(j, "cancelled")

\* Any exception; one before the final checkpoint leaves the watermark.
WorkerFails(j) == worker[j].pc \in Sync \ {"begin"} /\ End(j, "failed")

\* complete(), first half: the documents that were there when the sync began
\* have been read, and begin_commit finds no cancellation.
AllRead(j) ==
    LET s == job[j].source
    IN  (worker[j].started \cap remote[s]) \ Skipped(s) \subseteq worker[j].seen

MayCommit_Cancelled(j) == job[j].state = "running"
MayCommit(j) == job[j].state = "running" /\ ~job[j].cancel

WorkerBeginCommit(j) ==
    /\ Step(j, "read", "commit")
    /\ AllRead(j) /\ MayCommit(j)
    /\ job' = [job EXCEPT ![j].committing = TRUE]
    /\ UNCHANGED <<source, schedule, lock, jobLock, leader, slots, thread, procs, data>>

\* Documents that are gone leave the index: those a snapshot did not show, or
\* those whose removal an incremental read reported.
Gone_AllUnseen(j) == {index[job[j].source] \ worker[j].seen}
Gone(j) ==
    LET s == job[j].source
    IN  IF source[s].snapshot THEN {index[s] \ worker[j].seen}
        ELSE SUBSET (index[s] \ (worker[j].seen \cup (worker[j].started \cap remote[s])))

WorkerReconcile(j) ==
    LET s == job[j].source
    IN  /\ Step(j, "commit", "save")
        /\ \E gone \in Gone(j) : index' = [index EXCEPT ![s] = @ \ gone]
        /\ UNCHANGED <<tables, lock, jobLock, leader, slots, thread, procs, remote, covered>>

\* The final checkpoint: last_sync becomes sync_started_at, unless cancelled.
Watermark_AtEnd(j) == remote[job[j].source]
Watermark(j) == IF job[j].cancel THEN covered[job[j].source] ELSE worker[j].started

WorkerSave(j) ==
    /\ Step(j, "save", "conclude")
    /\ covered' = [covered EXCEPT ![job[j].source] = Watermark(j)]
    /\ UNCHANGED <<tables, lock, jobLock, leader, slots, thread, procs, remote, index>>

WorkerConclude(j) ==
    /\ worker[j].pc = "conclude"
    /\ End(j, IF job[j].cancel THEN "cancelled" ELSE "succeeded")

WorkerFinish(j) ==
    /\ Step(j, "finish", "release")
    /\ Finish(j, worker[j].outcome)
    /\ UNCHANGED <<schedule, lock, jobLock, leader, slots, thread, procs, data>>

WorkerRelease(j) ==
    LET p == worker[j].server
    IN  /\ worker[j].pc = "release"
        /\ worker' = [worker EXCEPT ![j] = IdleWorker]
        /\ lock' = [lock EXCEPT ![job[j].source] = NoOne]
        /\ jobLock' = jobLock \ {j}
        /\ slots' = [slots EXCEPT ![p] = Released(@)]
        /\ UNCHANGED <<tables, leader, thread, procs, data>>

------------------------------------------------------------------------------
(* The other operations of SourceManager and SourceJobs.                     *)

\* SourceJobs.cancel, by a user or by stop_jobs.
MayCancel_Late(j) == source[job[j].source].present
MayCancel(j) == source[job[j].source].present /\ ~job[j].committing

Cancel(s) ==
    \E j \in OpenOf(s) :
        /\ MayCancel(j)
        /\ \/ /\ job[j].state = "queued"
              /\ job' = [job EXCEPT ![j].state = "cancelled", ![j].cancel = TRUE]
              /\ source' = [source EXCEPT ![s].state = "cancelled"]
           \/ /\ job[j].state = "running" /\ ~job[j].cancel
              /\ job' = [job EXCEPT ![j].cancel = TRUE]
              /\ UNCHANGED source
        /\ UNCHANGED <<schedule, threads, procs, data>>

\* SourceJobs.set_schedule: next_run_at is a whole interval away.
SetSchedule(s, on) ==
    /\ s \in Scheduled /\ source[s].present /\ schedule[s] # [enabled |-> on, due |-> FALSE]
    /\ schedule' = [schedule EXCEPT ![s] = [enabled |-> on, due |-> FALSE]]
    /\ UNCHANGED <<source, job, threads, procs, data>>

\* The time next_run_at passes.
IntervalPasses(s) ==
    /\ schedule[s].enabled /\ ~schedule[s].due
    /\ schedule' = [schedule EXCEPT ![s].due = TRUE]
    /\ UNCHANGED <<source, job, threads, procs, data>>

\* _locked, and the row as the client saw it.
MayEdit_Unlocked(s) == source[s].present /\ source[s].revision < MaxRevision
MayEdit(s) == lock[s] = NoOne /\ source[s].present /\ source[s].revision < MaxRevision

\* SourceManager.update that renames, enables or disables.
Update(s, on) ==
    /\ up # {} /\ MayEdit(s)
    /\ source' = [source EXCEPT ![s].enabled = on, ![s].revision = @ + 1, ![s].state = "idle"]
    /\ UNCHANGED <<job, schedule, threads, procs, data>>

\* SourceStore.set_sharing takes no lock.
Share(s) ==
    /\ source[s].present /\ source[s].revision < MaxRevision
    /\ source' = [source EXCEPT ![s].revision = @ + 1]
    /\ UNCHANGED <<job, schedule, threads, procs, data>>

\* update with another configuration, migrate and delete: _reset_and_purge drops
\* the checkpoint first and the documents next, and the row is written last.
ResetCheckpoint(p, s) ==
    /\ p \in up /\ MayEdit(s)
    /\ lock' = [lock EXCEPT ![s] = <<p, "edit">>]
    /\ edit' = [edit EXCEPT ![s] = "purge"]
    /\ covered' = [covered EXCEPT ![s] = {}]
    /\ UNCHANGED <<tables, jobLock, leader, slots, thread, worker, listing, up, stopping,
                   crashes, remote, index>>

PurgeDocuments(s) ==
    /\ edit[s] = "purge"
    /\ edit' = [edit EXCEPT ![s] = "write"]
    /\ index' = [index EXCEPT ![s] = {}]
    /\ UNCHANGED <<tables, threads, listing, up, stopping, crashes, remote, covered>>

\* Another configuration points at another origin.
WriteConfig(s) ==
    /\ edit[s] = "write"
    /\ edit' = [edit EXCEPT ![s] = "none"]
    /\ lock' = [lock EXCEPT ![s] = NoOne]
    /\ \E docs \in SUBSET Docs, full \in Kinds :
         /\ remote' = [remote EXCEPT ![s] = docs]
         /\ source' = [source EXCEPT ![s].revision = @ + 1, ![s].state = "idle",
                                     ![s].snapshot = full]
    /\ UNCHANGED <<job, schedule, jobLock, leader, slots, thread, worker, listing, up,
                   stopping, crashes, index, covered>>

\* Schedules and jobs go with their source (ON DELETE CASCADE).
Delete(s) ==
    /\ edit[s] = "write"
    /\ edit' = [edit EXCEPT ![s] = "none"]
    /\ lock' = [lock EXCEPT ![s] = NoOne]
    /\ source' = [source EXCEPT ![s].present = FALSE, ![s].enabled = FALSE, ![s].state = "idle"]
    /\ schedule' = [schedule EXCEPT ![s] = [enabled |-> FALSE, due |-> FALSE]]
    /\ job' = [j \in Jobs |-> IF RowOf(j) /\ job[j].source = s
                              THEN [job[j] EXCEPT !.state = "deleted"] ELSE job[j]]
    /\ UNCHANGED <<jobLock, leader, slots, thread, worker, listing, up, stopping, crashes, data>>

\* SourceManager.list: the rows are read, and a source read as 'syncing' whose
\* lock is free is marked as interrupted.
ListRead(p) ==
    /\ p \in up \cap Listers
    /\ \E s \in Sources :
         /\ source[s].present /\ source[s].state = "syncing" /\ <<p, s>> \notin listing
         /\ listing' = listing \cup {<<p, s>>}
    /\ UNCHANGED <<tables, threads, edit, up, stopping, crashes, data>>

Interrupted_AsRead(s) == source[s].present
Interrupted(s) == lock[s] = NoOne /\ source[s].present

ListRepair(p) ==
    \E s \in Sources :
        /\ <<p, s>> \in listing
        /\ listing' = listing \ {<<p, s>>}
        /\ source' = IF Interrupted(s) THEN [source EXCEPT ![s].state = "error"]
                     ELSE source
        /\ UNCHANGED <<job, schedule, threads, edit, up, stopping, crashes, data>>

------------------------------------------------------------------------------
(* Processes and the origin of the documents.                                *)

\* stop_jobs sets stop_event; it also cancels the jobs of its workers (Cancel).
Stop(p) ==
    /\ p \in up \ stopping /\ crashes < MaxCrashes
    /\ stopping' = stopping \cup {p} /\ crashes' = crashes + 1
    /\ UNCHANGED <<tables, threads, edit, listing, up, data>>

\* The process ends, killed or after stop_jobs (which waits seconds, no longer):
\* the operating system releases its locks.
HeldBy(p) ==
    {<<p, role>> : role \in {"tick", "http", "edit"}}
        \cup {<<j, "worker">> : j \in {k \in Jobs : worker[k].pc # "none" /\ worker[k].server = p}}

\* Job locks of p: its workers', and the one a start_sync between claim and
\* launch holds.
JobLocksOf(p) ==
    {j \in Jobs : \/ worker[j].pc # "none" /\ worker[j].server = p
                  \/ \E role \in Roles : At(<<p, role>>, "launch") /\ thread[<<p, role>>].job = j}

Exit(p) ==
    /\ p \in up
    /\ \/ p \in stopping /\ UNCHANGED crashes
       \/ crashes < MaxCrashes /\ crashes' = crashes + 1
    /\ up' = up \ {p} /\ stopping' = stopping \ {p}
    /\ thread' = [t \in Thread |-> IF t[1] = p THEN IdleThread ELSE thread[t]]
    /\ worker' = [j \in Jobs |-> IF worker[j].server = p THEN IdleWorker ELSE worker[j]]
    /\ lock' = [s \in Sources |-> IF lock[s] \in HeldBy(p) THEN NoOne ELSE lock[s]]
    /\ jobLock' = jobLock \ JobLocksOf(p)
    /\ edit' = [s \in Sources |-> IF lock[s] = <<p, "edit">> THEN "none" ELSE edit[s]]
    /\ leader' = IF leader = p THEN NoOne ELSE leader
    /\ slots' = [slots EXCEPT ![p] = Limit]
    /\ listing' = {l \in listing : l[1] # p}
    /\ UNCHANGED <<tables, data>>

Restart(p) ==
    /\ p \notin up
    /\ up' = up \cup {p}
    /\ UNCHANGED <<tables, threads, edit, listing, stopping, crashes, data>>

\* A document appears or changes: nothing that was read before covers it.
Publish(s, d) ==
    /\ remote' = [remote EXCEPT ![s] = @ \cup {d}]
    /\ index' = [index EXCEPT ![s] = @ \ {d}]
    /\ covered' = [covered EXCEPT ![s] = @ \ {d}]
    /\ worker' = [j \in Jobs |->
           IF job[j].source = s
           THEN [worker[j] EXCEPT !.started = @ \ {d}, !.seen = @ \ {d}] ELSE worker[j]]
    /\ UNCHANGED <<tables, lock, jobLock, leader, slots, thread, procs>>

Remove(s, d) ==
    /\ d \in remote[s]
    /\ remote' = [remote EXCEPT ![s] = @ \ {d}]
    /\ UNCHANGED <<tables, threads, procs, index, covered>>

------------------------------------------------------------------------------
StartStep(t) ==
    \/ StartSlot(t) \/ StartCreate(t) \/ StartClaim(t)
    \/ StartLaunch(t) \/ StartFailed(t) \/ StartAnswer(t)

TickStep(p) ==
    \/ TickBegin(p) \/ TickProbe(p) \/ TickListQueued(p) \/ TickStart(p)
    \/ TickListDue(p) \/ TickStartDue(p) \/ TickEnd(p)

WorkerStep(j) ==
    \/ WorkerBegin(j) \/ WorkerIngest(j) \/ WorkerCancelled(j) \/ WorkerFails(j)
    \/ WorkerBeginCommit(j) \/ WorkerReconcile(j) \/ WorkerSave(j) \/ WorkerConclude(j)
    \/ WorkerFinish(j) \/ WorkerRelease(j)

\* What brings a sync to its end, whatever appears at the origin meanwhile.
WorkerEnds(j) == WorkerCancelled(j) \/ WorkerFails(j) \/ WorkerBeginCommit(j)

EditStep(s) == PurgeDocuments(s) \/ WriteConfig(s) \/ Delete(s)

Next ==
    \/ \E t \in Thread : StartStep(t)
    \/ \E p \in Servers :
         \/ TickStep(p) \/ ListRead(p) \/ ListRepair(p)
         \/ Stop(p) \/ Exit(p) \/ Restart(p)
         \/ \E s \in Sources : HttpStart(p, s) \/ ResetCheckpoint(p, s)
    \/ \E j \in Jobs : WorkerStep(j)
    \/ \E s \in Sources :
         \/ EditStep(s) \/ Cancel(s) \/ Share(s) \/ IntervalPasses(s)
         \/ \E on \in BOOLEAN : SetSchedule(s, on) \/ Update(s, on)
         \/ \E d \in Docs : Publish(s, d) \/ Remove(s, d)

Spec == Init /\ [][Next]_vars

\* Threads run, a process that ended is started again, and no read of a source
\* lasts for ever.
Fairness ==
    /\ \A t \in Thread : WF_vars(StartStep(t))
    /\ \A p \in Servers : WF_vars(TickStep(p)) /\ WF_vars(Restart(p))
                          /\ WF_vars(p \in stopping /\ Exit(p))
    /\ \A j \in Jobs : WF_vars(WorkerStep(j)) /\ WF_vars(WorkerEnds(j))
    /\ \A s \in Sources : WF_vars(EditStep(s))

FairSpec == Spec /\ Fairness

------------------------------------------------------------------------------
(* Properties.                                                               *)

\* The checkpoint and the documents of a source have one writer at a time: a
\* sync or an update, migration or removal (_locked).
Writing(s) == {j \in Jobs : worker[j].pc \in Sync /\ job[j].source = s}
OneWriter ==
    \A s \in Sources : \A j \in Writing(s) : Writing(s) = {j} /\ edit[s] = "none"

\* "Two sources are syncing": the table bounds the syncs of all processes,
\* whatever each process's semaphore says (create and claim).
RunningBounded == Cardinality(Running) <= Limit

\* A job whose worker lives is never declared interrupted, cancelled or
\* finished by another thread (the probe of tick, start_sync of a queued job).
AliveIsRunning ==
    \A j \in Jobs : worker[j].pc \in Sync \cup {"finish"} => job[j].state = "running"

\* A cancellation that was accepted wins over the end of the sync (begin_commit
\* and cancel look at one row).
CancelledNeverSucceeds == \A j \in Jobs : job[j].cancel => job[j].state # "succeeded"

\* "Committing work must finish; never report it cancelled" (stop_jobs): while
\* the worker lives.
CommittingNeverCancelled ==
    [][\A j \in Jobs : job[j].committing /\ worker[j].pc # "none"
          => job'[j].state # "cancelled"]_vars

\* Whatever the next sync does not ask for again is in the index: no crash,
\* failure, cancellation, change during the read or new configuration makes a
\* document disappear for good (the watermark of SyncEngine, _reset_and_purge).
NothingSkipped == \A s \in Sources : covered[s] \cap remote[s] \subseteq index[s]

\* Only a source that exists and is enabled is read.
ReadsEnabledOnly ==
    \A j \in Jobs : worker[j].pc \in Sync =>
        source[job[j].source].present /\ source[job[j].source].enabled

\* A job that has ended never runs again.
NeverReopens ==
    [][\A j \in Jobs : job[j].state \in Final \cup {"deleted"}
          => job'[j].state \in Final \cup {"deleted"} /\ (worker[j].pc = "none" => worker'[j].pc = "none")]_vars

\* No exit of start_sync or of a worker keeps a slot: what a process may start is
\* never reduced for good.
Starting(p) == {t \in Thread : t[1] = p /\ thread[t].pc \in {"create", "claim", "launch"}}
SyncingOn(p) == {j \in Jobs : worker[j].pc # "none" /\ worker[j].server = p}
NoSlotLost ==
    \A p \in Servers : slots[p] + Cardinality(Starting(p)) + Cardinality(SyncingOn(p)) >= Limit

\* A source shows 'syncing' as long as a sync of it lives, whatever list() and
\* other handlers read before it began.
ShownSyncing ==
    \A j \in Jobs : worker[j].pc \in Sync => source[job[j].source].state = "syncing"

\* The documents have the history SourceIndex promises: none that is still at
\* the origin leaves the index unless it will be read again.
Promise == INSTANCE SourceIndex WITH origin <- remote, held <- index, skipped <- covered
IndexPromise == Promise!Spec

\* A sync as whoever asked for it sees it, and whether a thread has it in hand:
\* its worker until finish(), or the start_sync that claimed it.
LifeOf(j) == IF job[j].state = "running" /\ job[j].committing THEN "committing"
             ELSE job[j].state

Tended(j) == \/ worker[j].pc \in Sync \cup {"finish"}
             \/ \E t \in Thread : At(t, "launch") /\ thread[t].job = j

Lifecycle == INSTANCE SyncLifecycle WITH
    Syncs  <- Jobs,
    life   <- [j \in Jobs |-> LifeOf(j)],
    of     <- [j \in Jobs |-> job[j].source],
    asked  <- {j \in Jobs : job[j].cancel},
    tended <- {j \in Jobs : Tended(j)}

\* Ticks of several processes that act on lists they read earlier, requests,
\* cancellations, removals and exits take every sync through one life: one open
\* sync for each source, ended by whoever has it in hand and by others only when
\* nobody has; a commit and a cancellation exclude each other; what ended never
\* begins again (create, claim, cancel, begin_commit, finish, tick).
SyncPromise == Lifecycle!Spec

\* Provided that users stop asking for syncs: a handler that holds a source's
\* lock at every tick keeps the scheduler from it.
UsersRest == \A p \in Servers : thread[<<p, "http">>].pc = "idle"

\* Every job that is accepted ends: a queued one is started or dropped by tick, a
\* running one finishes or, its process killed, is found by the probe of tick.
\* ([]<>~P says the same as P ~> ~P.)
JobsEnd == <>[]UsersRest => \A j \in Jobs : []<>(job[j].state \notin Open)

\* A schedule that is due runs, or is changed ("remain due for the next tick").
DueRuns ==
    <>[]UsersRest => \A s \in Scheduled :
        []<>(~schedule[s].due \/ ~source[s].enabled \/ Fresh = {})
=============================================================================
