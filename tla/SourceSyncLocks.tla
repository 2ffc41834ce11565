--------------------------- MODULE SourceSyncLocks ---------------------------
(***************************************************************************)
(* Proofs about SourceSync, for every set of servers, sources and documents: *)
(* types, what each step does to whom, and who holds the lock of a source.   *)
(***************************************************************************)
EXTENDS SourceSync, FiniteSetTheorems, TLAPS

------------------------------------------------------------------------------
(* Types.                                                                    *)

LEMMA Somebody == SomeSource \in Sources /\ SomeServer \in Servers
BY SetsAssumption DEF SomeSource, SomeServer

LEMMA RestingTypes ==
    /\ NoJobRow \in Job /\ IdleThread \in ThreadRec /\ IdleWorker \in Worker
BY Somebody DEF NoJobRow, Job, JobState, Open, Final, IdleThread, ThreadRec, Loop, Start,
   IdleWorker, Worker, Sync

LEMMA LeftType ==
    ASSUME NEW f \in ThreadRec
    PROVE  Left(f) \in ThreadRec
BY RestingTypes, Somebody DEF Left, ThreadRec, Loop, Start

LEMMA FinishTypes ==
    ASSUME job \in [Jobs -> Job], source \in [Sources -> Source],
           NEW j \in Jobs, NEW state \in Final, Finish(j, state)
    PROVE  job' \in [Jobs -> Job] /\ source' \in [Sources -> Source]
<1> DEFINE r == [job EXCEPT ![j].state = state, ![j].committing = FALSE]
<1>1. r \in [Jobs -> Job]
  BY DEF Job, JobState
<1>2. \A k \in Jobs : [r[k] EXCEPT !.state = "deleted"] \in Job
  BY <1>1 DEF Job, JobState
<1>3. job' \in [Jobs -> Job]
  BY <1>1, <1>2 DEF Finish
<1>4. source' \in [Sources -> Source]
  BY DEF Finish, Job, Source
<1> QED
  BY <1>3, <1>4

LEMMA InitTypes == Init => TypeOK
<1> SUFFICES ASSUME Init
             PROVE  TypeOK
  OBVIOUS
<1>1. source \in [Sources -> Source]
  BY DEF Init, Source
<1>2. job \in [Jobs -> Job] /\ thread \in [Thread -> ThreadRec] /\ worker \in [Jobs -> Worker]
  BY RestingTypes DEF Init
<1>3. slots \in [Servers -> 0..Limit] /\ crashes \in 0..MaxCrashes
  BY BoundsAssumption DEF Init
<1> QED
  BY <1>1, <1>2, <1>3 DEF Init, TypeOK

LEMMA ThreadTypes ==
    ASSUME NEW f \in ThreadRec
    PROVE  /\ \A pc \in {"idle"} \cup Loop \cup Start : [f EXCEPT !.pc = pc] \in ThreadRec
           /\ \A J \in SUBSET Jobs : [f EXCEPT !.todo = J] \in ThreadRec
           /\ \A S \in SUBSET Sources : [f EXCEPT !.due = S] \in ThreadRec
           /\ f.todo \subseteq Jobs /\ f.due \subseteq Sources /\ f.source \in Sources
BY DEF ThreadRec

LEMMA RowTypes ==
    /\ \A r \in Source :
          \A state \in {"idle", "queued", "syncing", "cancelled", "error"} :
            [r EXCEPT !.state = state] \in Source
    /\ \A r \in Job : \A state \in JobState : [r EXCEPT !.state = state] \in Job
BY DEF Source, Job

LEMMA BeginTypes ==
    ASSUME TypeOK, NEW t \in Thread, NEW f \in ThreadRec, NEW s \in Sources,
           NEW j \in Jobs \cup {NoJob}, Begin(t, f, s, j),
           UNCHANGED <<schedule, jobLock, leader, slots, worker, procs, data>>
    PROVE  TypeOK'
<1>1. [f EXCEPT !.pc = "slot", !.source = s, !.revision = source[s].revision, !.job = j]
         \in ThreadRec
  BY DEF TypeOK, Source, ThreadRec, Start
<1>2. thread' \in [Thread -> ThreadRec] /\ lock' \in [Sources -> Holder \cup {NoOne}]
  BY <1>1, LeftType DEF Begin, TypeOK, Holder
<1>3. job' \in [Jobs -> Job] /\ source' \in [Sources -> Source]
  <2>1. CASE UNCHANGED <<job, source>>
    BY <2>1 DEF TypeOK
  <2>2. CASE j # NoJob /\ Finish(j, "cancelled")
    BY <2>2, FinishTypes DEF TypeOK, Final
  <2> QED
    BY <2>1, <2>2 DEF Begin
<1> QED
  BY <1>2, <1>3 DEF TypeOK, procs, data

------------------------------------------------------------------------------
LEMMA TickTypes ==
    ASSUME TypeOK, NEW p \in Servers, TickStep(p)
    PROVE  TypeOK'
<1> Tick(p) \in Thread
  BY DEF Tick, Thread, Roles
<1>1. CASE TickBegin(p)
  BY <1>1, RestingTypes DEF TickBegin, TypeOK, ThreadRec, Loop, Start, Running, tables, procs, data
<1>2. CASE TickProbe(p)
  <2> PICK j \in thread[Tick(p)].todo :
          /\ thread' = [thread EXCEPT ![Tick(p)].todo = @ \ {j}]
          /\ IF DeadWorker(j) THEN Finish(j, "interrupted") ELSE UNCHANGED <<job, source>>
          /\ UNCHANGED <<schedule, lock, jobLock, leader, slots, worker, procs, data>>
    BY <1>2 DEF TickProbe
  <2>1. thread' \in [Thread -> ThreadRec] /\ j \in Jobs
    <3>1. thread[Tick(p)] \in ThreadRec /\ j \in Jobs
      BY DEF TypeOK, ThreadRec
    <3>2. [thread[Tick(p)] EXCEPT !.todo = @ \ {j}] \in ThreadRec
      BY <3>1 DEF ThreadRec
    <3> QED
      BY <3>1, <3>2 DEF TypeOK
  <2>2. job' \in [Jobs -> Job] /\ source' \in [Sources -> Source]
    BY <2>1, FinishTypes DEF TypeOK, Final
  <2> QED
    BY <1>2, <2>1, <2>2 DEF TickProbe, TypeOK, procs, data
<1>3. CASE TickListQueued(p)
  <2>1. thread[Tick(p)] \in ThreadRec
    BY DEF TypeOK
  <2>2. [thread[Tick(p)] EXCEPT !.pc = "queued", !.loop = "queued",
                                !.todo = {j \in Jobs : job[j].state = "queued"}] \in ThreadRec
    BY <2>1 DEF ThreadRec, Loop, Start
  <2>3. thread' \in [Thread -> ThreadRec]
    BY <1>3, <2>2 DEF TickListQueued, TypeOK
  <2>4. UNCHANGED <<tables, lock, jobLock, leader, slots, worker, procs, data>>
    BY <1>3 DEF TickListQueued
  <2> QED
    BY <2>3, <2>4 DEF TypeOK, tables, procs, data
<1>4. CASE TickStart(p)
  <2> PICK j \in thread[Tick(p)].todo :
          Begin(Tick(p), [thread[Tick(p)] EXCEPT !.todo = @ \ {j}], job[j].source, j)
    BY <1>4 DEF TickStart
  <2>1. thread[Tick(p)] \in ThreadRec
    BY DEF TypeOK
  <2>2. j \in Jobs /\ job[j].source \in Sources
    BY <2>1, ThreadTypes DEF TypeOK, Job
  <2>3. [thread[Tick(p)] EXCEPT !.todo = @ \ {j}] \in ThreadRec
    BY <2>1, ThreadTypes
  <2> QED
    BY <1>4, <2>2, <2>3, BeginTypes DEF TickStart
<1>5. CASE TickListDue(p)
  <2>1. thread[Tick(p)] \in ThreadRec
    BY DEF TypeOK
  <2>2. [thread[Tick(p)] EXCEPT !.pc = "due", !.loop = "due",
                                !.due = {s \in Sources : Due(s)}] \in ThreadRec
    BY <2>1 DEF ThreadRec, Loop, Start
  <2>3. thread' \in [Thread -> ThreadRec]
    BY <1>5, <2>2 DEF TickListDue, TypeOK
  <2>4. UNCHANGED <<tables, lock, jobLock, leader, slots, worker, procs, data>>
    BY <1>5 DEF TickListDue
  <2> QED
    BY <2>3, <2>4 DEF TypeOK, tables, procs, data
<1>6. CASE TickStartDue(p)
  <2> PICK s \in thread[Tick(p)].due :
          Begin(Tick(p), [thread[Tick(p)] EXCEPT !.due = @ \ {s}], s, NoJob)
    BY <1>6 DEF TickStartDue
  <2>1. thread[Tick(p)] \in ThreadRec
    BY DEF TypeOK
  <2>2. s \in Sources /\ [thread[Tick(p)] EXCEPT !.due = @ \ {s}] \in ThreadRec
    BY <2>1, ThreadTypes
  <2> QED
    BY <1>6, <2>2, BeginTypes DEF TickStartDue
<1>7. CASE TickEnd(p)
  BY <1>7, RestingTypes DEF TickEnd, TypeOK, tables, procs, data
<1> QED
  BY <1>1, <1>2, <1>3, <1>4, <1>5, <1>6, <1>7 DEF TickStep

LEMMA StartTypes ==
    ASSUME TypeOK, NEW t \in Thread, StartStep(t),
           thread[t].pc \in {"claim", "launch"} => thread[t].job \in Jobs
    PROVE  TypeOK'
<1> DEFINE s == thread[t].source
           j == thread[t].job
<1>1. thread[t] \in ThreadRec /\ s \in Sources /\ t[1] \in Servers
  BY DEF TypeOK, ThreadRec, Thread
<1>2. ASSUME Conflict(t)
      PROVE  thread' \in [Thread -> ThreadRec] /\ lock' \in [Sources -> Holder \cup {NoOne}]
  BY <1>1, <1>2, LeftType DEF Conflict, TypeOK
<1>3. \A n \in 0..Limit : Released(n) \in 0..Limit
  BY BoundsAssumption DEF Released
<1>4. ASSUME Abandon(t)
      PROVE  slots' \in [Servers -> 0..Limit]
  BY <1>1, <1>3, <1>4 DEF Abandon, TypeOK
<1>5. CASE StartSlot(t)
  <2>1. CASE slots[t[1]] = 0
    BY <1>2, <1>5, <2>1 DEF StartSlot, TypeOK, tables, procs, data
  <2>2. CASE slots[t[1]] # 0
    <3>1. slots' \in [Servers -> 0..Limit]
      <4>1. slots[t[1]] \in 0..Limit
        BY <1>1 DEF TypeOK
      <4>2. slots[t[1]] - 1 \in 0..Limit
        BY <4>1, <2>2, BoundsAssumption
      <4> QED
        BY <4>2, <1>1, <1>5, <2>2 DEF StartSlot, TypeOK
    <3>2. thread' \in [Thread -> ThreadRec]
      <4> DEFINE pc == IF thread[t].job = NoJob THEN "create" ELSE "claim"
      <4>1. [thread[t] EXCEPT !.pc = pc] \in ThreadRec
        BY <1>1, ThreadTypes DEF Start
      <4>2. thread' = [thread EXCEPT ![t] = [thread[t] EXCEPT !.pc = pc]]
        BY <1>5, <2>2 DEF StartSlot
      <4> QED
        BY <4>1, <4>2 DEF TypeOK
    <3> QED
      BY <1>5, <2>2, <3>1, <3>2 DEF StartSlot, TypeOK, tables, procs, data
  <2> QED
    BY <2>1, <2>2
<1>6. CASE StartCreate(t)
  <2>1. CASE Abandon(t) /\ UNCHANGED tables
    BY <1>2, <1>4, <1>6, <2>1 DEF StartCreate, Abandon, TypeOK, tables, procs, data
  <2>2. CASE ~(Abandon(t) /\ UNCHANGED tables)
    <3> PICK k \in Fresh :
            /\ job' = [job EXCEPT ![k] = [NoJobRow EXCEPT !.state = "queued",
                          !.source = s, !.revision = thread[t].revision]]
            /\ source' = [source EXCEPT ![s].state = "queued"]
            /\ schedule' = [schedule EXCEPT ![s].due = @ /\ ~(thread[t].loop = "due")]
            /\ thread' = [thread EXCEPT ![t].pc = "claim", ![t].job = k]
            /\ UNCHANGED <<lock, slots, jobLock, leader, worker, procs, data>>
      BY <1>6, <2>2 DEF StartCreate
    <3>1. k \in Jobs
      BY DEF Fresh
    <3>2. [NoJobRow EXCEPT !.state = "queued", !.source = s, !.revision = thread[t].revision]
            \in Job
      BY <1>1, RestingTypes DEF Job, JobState, Open, ThreadRec
    <3>3. job' \in [Jobs -> Job]
      BY <3>1, <3>2 DEF TypeOK
    <3>4. source' \in [Sources -> Source]
      BY <1>1, RowTypes DEF TypeOK
    <3>5. schedule' \in [Sources -> [enabled: BOOLEAN, due: BOOLEAN]]
      <4> DEFINE due == schedule[s].due /\ ~(thread[t].loop = "due")
      <4>1. due \in BOOLEAN
        OBVIOUS
      <4> HIDE DEF due
      <4>2. [schedule[s] EXCEPT !.due = due] \in [enabled: BOOLEAN, due: BOOLEAN]
        BY <1>1, <4>1 DEF TypeOK
      <4>3. schedule' = [schedule EXCEPT ![s] = [schedule[s] EXCEPT !.due = due]]
        BY DEF due
      <4> QED
        BY <4>2, <4>3 DEF TypeOK
    <3>6. [thread[t] EXCEPT !.pc = "claim", !.job = k] \in ThreadRec
      BY <1>1, <3>1 DEF ThreadRec, Start
    <3>7. thread' \in [Thread -> ThreadRec]
      BY <3>6 DEF TypeOK
    <3> QED
      BY <3>3, <3>4, <3>5, <3>7 DEF TypeOK, procs, data
  <2> QED
    BY <2>1, <2>2
<1>7. CASE StartClaim(t)
  <2> j \in Jobs
    BY <1>7 DEF StartClaim, At
  <2>1. CASE ~MayClaim(j)
    BY <1>2, <1>4, <1>7, <2>1 DEF StartClaim, Abandon, TypeOK, procs, data
  <2>2. CASE MayClaim(j)
    <3>1. job' \in [Jobs -> Job]
      <4>1. job' = [job EXCEPT ![j] = [job[j] EXCEPT !.state = "running"]]
        BY <1>7, <2>2 DEF StartClaim
      <4> QED
        BY <4>1, RowTypes DEF TypeOK, JobState, Open
    <3>2. source' \in [Sources -> Source]
      <4>1. source' = [source EXCEPT ![s] = [source[s] EXCEPT !.state = "syncing"]]
        BY <1>7, <2>2 DEF StartClaim
      <4> QED
        BY <4>1, <1>1, RowTypes DEF TypeOK
    <3>3. thread' \in [Thread -> ThreadRec]
      <4>1. thread' = [thread EXCEPT ![t] = [thread[t] EXCEPT !.pc = "launch"]]
        BY <1>7, <2>2 DEF StartClaim
      <4> QED
        BY <4>1, <1>1, ThreadTypes DEF TypeOK, Start
    <3>4. jobLock' \subseteq Jobs
      BY <1>7, <2>2 DEF StartClaim, TypeOK
    <3> QED
      BY <1>7, <2>2, <3>1, <3>2, <3>3, <3>4 DEF StartClaim, TypeOK, procs, data
  <2> QED
    BY <2>1, <2>2
<1>8. CASE StartLaunch(t)
  <2> j \in Jobs
    BY <1>8 DEF StartLaunch, At
  <2>1. [IdleWorker EXCEPT !.pc = "begin", !.server = t[1]] \in Worker
    BY <1>1, RestingTypes DEF Worker, Sync
  <2>2. worker' \in [Jobs -> Worker]
    BY <1>8, <2>1 DEF StartLaunch, TypeOK
  <2>3. source' \in [Sources -> Source]
    BY <1>1, <1>8, RowTypes DEF StartLaunch, TypeOK
  <2>4. thread' \in [Thread -> ThreadRec]
    BY <1>1, <1>8, ThreadTypes DEF StartLaunch, TypeOK, Start
  <2>5. lock' \in [Sources -> Holder \cup {NoOne}]
    <3>1. <<j, "worker">> \in Holder
      BY DEF Holder
    <3> QED
      BY <3>1, <1>8 DEF StartLaunch, TypeOK
  <2> QED
    BY <1>8, <2>2, <2>3, <2>4, <2>5 DEF StartLaunch, TypeOK, procs, data
<1>9. CASE StartFailed(t)
  <2> j \in Jobs
    BY <1>9 DEF StartFailed, At
  <2>1. job' \in [Jobs -> Job] /\ source' \in [Sources -> Source]
    BY <1>9, FinishTypes DEF StartFailed, TypeOK, Final
  <2> QED
    BY <1>2, <1>4, <1>9, <2>1 DEF StartFailed, Abandon, TypeOK, procs, data
<1>10. CASE StartAnswer(t)
  <2>1. slots' \in [Servers -> 0..Limit]
    BY <1>1, <1>3, <1>10 DEF StartAnswer, TypeOK
  <2>2. thread' \in [Thread -> ThreadRec]
    BY <1>1, <1>10, LeftType DEF StartAnswer, TypeOK
  <2> QED
    BY <1>10, <2>1, <2>2 DEF StartAnswer, TypeOK, tables, procs, data
<1> QED
  BY <1>5, <1>6, <1>7, <1>8, <1>9, <1>10 DEF StartStep

LEMMA WorkerTypes ==
    ASSUME TypeOK, NEW j \in Jobs, WorkerStep(j)
    PROVE  TypeOK'
<1> DEFINE s == job[j].source
<1>1. s \in Sources /\ worker[j] \in Worker /\ worker[j].server \in Servers
  BY DEF TypeOK, Job, Worker
<1>2. \A pc \in Sync \cup {"finish", "release"} : [worker[j] EXCEPT !.pc = pc] \in Worker
  BY <1>1 DEF Worker
<1>3. \A from, to :
        Step(j, from, to) /\ to \in Sync \cup {"finish", "release"} =>
          worker' \in [Jobs -> Worker]
  BY <1>2 DEF Step, TypeOK
<1>4. \A outcome \in Final : End(j, outcome) => TypeOK'
  <2> SUFFICES ASSUME NEW outcome \in Final, End(j, outcome)
               PROVE  TypeOK'
    OBVIOUS
  <2>1. [worker[j] EXCEPT !.pc = "finish", !.outcome = outcome] \in Worker
    BY <1>1 DEF Worker
  <2>2. worker' \in [Jobs -> Worker]
    BY <2>1 DEF End, TypeOK
  <2>3. Shown(outcome) \in {"idle", "cancelled", "error"}
    BY DEF Shown
  <2>4. source' \in [Sources -> Source]
    BY <1>1, <2>3, RowTypes DEF End, TypeOK
  <2> QED
    BY <2>2, <2>4 DEF End, TypeOK, procs, data
<1>5. CASE WorkerBegin(j)
  <2>1. [worker[j] EXCEPT !.pc = "read", !.started = remote[s], !.seen = {}] \in Worker
    BY <1>1 DEF Worker, TypeOK, Sync
  <2>2. worker' \in [Jobs -> Worker]
    BY <1>5, <2>1 DEF WorkerBegin, TypeOK
  <2>3. source' \in [Sources -> Source]
    BY <1>1, <1>5, RowTypes DEF WorkerBegin, TypeOK
  <2> QED
    BY <1>5, <2>2, <2>3 DEF WorkerBegin, TypeOK, procs, data
<1>6. CASE WorkerIngest(j)
  <2> PICK batch \in SUBSET remote[s] :
          /\ index' = [index EXCEPT ![s] = @ \cup batch]
          /\ worker' = [worker EXCEPT ![j].seen = @ \cup batch]
    BY <1>6 DEF WorkerIngest
  <2>1. remote[s] \subseteq Docs /\ index[s] \subseteq Docs
    BY <1>1 DEF TypeOK
  <2>2. [worker[j] EXCEPT !.seen = @ \cup batch] \in Worker
    BY <1>1, <2>1 DEF Worker
  <2>3. worker' \in [Jobs -> Worker] /\ index' \in [Sources -> SUBSET Docs]
    BY <2>1, <2>2 DEF TypeOK
  <2> QED
    BY <1>6, <2>3 DEF WorkerIngest, TypeOK, tables, procs
<1>7. CASE WorkerCancelled(j) \/ WorkerFails(j) \/ WorkerConclude(j)
  BY <1>4, <1>7 DEF WorkerCancelled, WorkerFails, WorkerConclude, Final
<1>8. CASE WorkerBeginCommit(j)
  <2>1. [job[j] EXCEPT !.committing = TRUE] \in Job
    BY DEF TypeOK, Job
  <2>2. job' \in [Jobs -> Job]
    BY <1>8, <2>1 DEF WorkerBeginCommit, TypeOK
  <2>3. worker' \in [Jobs -> Worker]
    BY <1>3, <1>8 DEF WorkerBeginCommit, Sync
  <2> QED
    BY <1>8, <2>2, <2>3 DEF WorkerBeginCommit, TypeOK, procs, data
<1>9. CASE WorkerReconcile(j)
  <2>1. worker' \in [Jobs -> Worker]
    BY <1>3, <1>9 DEF WorkerReconcile, Sync
  <2>2. index' \in [Sources -> SUBSET Docs]
    BY <1>1, <1>9 DEF WorkerReconcile, TypeOK
  <2> QED
    BY <1>9, <2>1, <2>2 DEF WorkerReconcile, TypeOK, tables, procs
<1>10. CASE WorkerSave(j)
  <2>1. worker' \in [Jobs -> Worker]
    BY <1>3, <1>10 DEF WorkerSave, Sync
  <2>2. Watermark(j) \in SUBSET Docs
    BY <1>1 DEF Watermark, TypeOK, Worker
  <2> QED
    BY <1>1, <1>10, <2>1, <2>2 DEF WorkerSave, TypeOK, tables, procs
<1>11. CASE WorkerFinish(j)
  <2>1. worker[j].outcome \in Final
    BY <1>1 DEF Worker
  <2>2. job' \in [Jobs -> Job] /\ source' \in [Sources -> Source]
    BY <1>11, <2>1, FinishTypes DEF WorkerFinish, TypeOK
  <2>3. worker' \in [Jobs -> Worker]
    BY <1>3, <1>11 DEF WorkerFinish
  <2> QED
    BY <1>11, <2>2, <2>3 DEF WorkerFinish, TypeOK, procs, data
<1>12. CASE WorkerRelease(j)
  <2>1. Released(slots[worker[j].server]) \in 0..Limit
    BY <1>1, BoundsAssumption DEF Released, TypeOK
  <2>2. slots' \in [Servers -> 0..Limit]
    BY <1>1, <1>12, <2>1 DEF WorkerRelease, TypeOK
  <2>3. worker' \in [Jobs -> Worker]
    BY <1>12, RestingTypes DEF WorkerRelease, TypeOK
  <2> QED
    BY <1>12, <2>2, <2>3 DEF WorkerRelease, TypeOK, tables, procs, data
<1> QED
  BY <1>5, <1>6, <1>7, <1>8, <1>9, <1>10, <1>11, <1>12 DEF WorkerStep

LEMMA UserTypes ==
    ASSUME TypeOK, NEW s \in Sources,
           \/ Cancel(s) \/ Share(s) \/ IntervalPasses(s)
           \/ \E on \in BOOLEAN : SetSchedule(s, on) \/ Update(s, on)
    PROVE  TypeOK'
<1>1. source[s] \in Source /\ source[s].revision + 1 \in Nat
  BY DEF TypeOK, Source
<1>2. \A due \in BOOLEAN, on \in BOOLEAN :
        [enabled |-> on, due |-> due] \in [enabled: BOOLEAN, due: BOOLEAN]
  OBVIOUS
<1>3. CASE Cancel(s)
  <2> PICK j \in OpenOf(s) :
         \/ /\ job' = [job EXCEPT ![j].state = "cancelled", ![j].cancel = TRUE]
            /\ source' = [source EXCEPT ![s].state = "cancelled"]
         \/ /\ job' = [job EXCEPT ![j].cancel = TRUE]
            /\ UNCHANGED source
    BY <1>3 DEF Cancel
  <2>1. j \in Jobs /\ job[j] \in Job
    BY DEF OpenOf, TypeOK
  <2>2. /\ [job[j] EXCEPT !.state = "cancelled", !.cancel = TRUE] \in Job
        /\ [job[j] EXCEPT !.cancel = TRUE] \in Job
    BY <2>1 DEF Job, JobState, Final
  <2>3. job' \in [Jobs -> Job]
    BY <2>1, <2>2 DEF TypeOK
  <2>4. source' \in [Sources -> Source]
    <3>1. [source[s] EXCEPT !.state = "cancelled"] \in Source
      BY <1>1, RowTypes
    <3> QED
      BY <3>1 DEF TypeOK
  <2> QED
    BY <1>3, <2>3, <2>4 DEF Cancel, TypeOK, threads, procs, data
<1>4. CASE Share(s)
  <2>1. [source[s] EXCEPT !.revision = @ + 1] \in Source
    BY <1>1 DEF Source
  <2>2. source' \in [Sources -> Source]
    BY <1>4, <2>1 DEF Share, TypeOK
  <2> QED
    BY <1>4, <2>2 DEF Share, TypeOK, threads, procs, data
<1>5. CASE IntervalPasses(s)
  <2>1. [schedule[s] EXCEPT !.due = TRUE] \in [enabled: BOOLEAN, due: BOOLEAN]
    BY DEF TypeOK
  <2>2. schedule' \in [Sources -> [enabled: BOOLEAN, due: BOOLEAN]]
    BY <1>5, <2>1 DEF IntervalPasses, TypeOK
  <2> QED
    BY <1>5, <2>2 DEF IntervalPasses, TypeOK, threads, procs, data
<1>6. ASSUME NEW on \in BOOLEAN, SetSchedule(s, on)
      PROVE  TypeOK'
  <2>1. schedule' \in [Sources -> [enabled: BOOLEAN, due: BOOLEAN]]
    BY <1>2, <1>6 DEF SetSchedule, TypeOK
  <2> QED
    BY <1>6, <2>1 DEF SetSchedule, TypeOK, threads, procs, data
<1>7. ASSUME NEW on \in BOOLEAN, Update(s, on)
      PROVE  TypeOK'
  <2>1. [source[s] EXCEPT !.enabled = on, !.revision = @ + 1, !.state = "idle"] \in Source
    BY <1>1 DEF Source
  <2>2. source' \in [Sources -> Source]
    BY <1>7, <2>1 DEF Update, TypeOK
  <2> QED
    BY <1>7, <2>2 DEF Update, TypeOK, threads, procs, data
<1> QED
  BY <1>3, <1>4, <1>5, <1>6, <1>7

LEMMA EditTypes ==
    ASSUME TypeOK, NEW s \in Sources,
           EditStep(s) \/ \E p \in Servers : ResetCheckpoint(p, s)
    PROVE  TypeOK'
<1>1. source[s] \in Source /\ source[s].revision + 1 \in Nat
  BY DEF TypeOK, Source
<1>2. lock \in [Sources -> Holder \cup {NoOne}]
      => [lock EXCEPT ![s] = NoOne] \in [Sources -> Holder \cup {NoOne}]
  OBVIOUS
<1>3. ASSUME NEW p \in Servers, ResetCheckpoint(p, s)
      PROVE  TypeOK'
  <2>1. <<p, "edit">> \in Holder
    BY DEF Holder
  <2>2. lock' \in [Sources -> Holder \cup {NoOne}]
    BY <1>3, <2>1 DEF ResetCheckpoint, TypeOK
  <2> QED
    BY <1>3, <2>2 DEF ResetCheckpoint, TypeOK, tables
<1>4. CASE PurgeDocuments(s)
  BY <1>4 DEF PurgeDocuments, TypeOK, tables, threads
<1>5. CASE WriteConfig(s)
  <2> PICK docs \in SUBSET Docs, full \in Kinds :
         /\ remote' = [remote EXCEPT ![s] = docs]
         /\ source' = [source EXCEPT ![s].revision = @ + 1, ![s].state = "idle",
                                     ![s].snapshot = full]
    BY <1>5 DEF WriteConfig
  <2>1. [source[s] EXCEPT !.revision = @ + 1, !.state = "idle", !.snapshot = full] \in Source
    BY <1>1 DEF Source
  <2>2. source' \in [Sources -> Source]
    BY <2>1 DEF TypeOK
  <2>3. remote' \in [Sources -> SUBSET Docs]
    BY DEF TypeOK
  <2> QED
    BY <1>2, <1>5, <2>2, <2>3 DEF WriteConfig, TypeOK
<1>6. CASE Delete(s)
  <2>1. [source[s] EXCEPT !.present = FALSE, !.enabled = FALSE, !.state = "idle"] \in Source
    BY <1>1 DEF Source
  <2>2. source' \in [Sources -> Source]
    BY <1>6, <2>1 DEF Delete, TypeOK
  <2>3. job' \in [Jobs -> Job]
    BY <1>6, RowTypes DEF Delete, TypeOK, JobState
  <2>4. schedule' \in [Sources -> [enabled: BOOLEAN, due: BOOLEAN]]
    BY <1>6 DEF Delete, TypeOK
  <2> QED
    BY <1>2, <1>6, <2>2, <2>3, <2>4 DEF Delete, TypeOK, data
<1> QED
  BY <1>3, <1>4, <1>5, <1>6 DEF EditStep

LEMMA ProcessTypes ==
    ASSUME TypeOK, NEW p \in Servers,
           ListRead(p) \/ ListRepair(p) \/ Stop(p) \/ Exit(p) \/ Restart(p)
    PROVE  TypeOK'
<1>1. CASE ListRead(p)
  BY <1>1 DEF ListRead, TypeOK, tables, threads, data
<1>2. CASE ListRepair(p)
  <2> PICK s \in Sources :
        /\ <<p, s>> \in listing
        /\ listing' = listing \ {<<p, s>>}
        /\ source' = IF Interrupted(s) THEN [source EXCEPT ![s].state = "error"] ELSE source
        /\ UNCHANGED <<job, schedule, threads, edit, up, stopping, crashes, data>>
    BY <1>2 DEF ListRepair
  <2>1. source' \in [Sources -> Source]
    BY RowTypes DEF TypeOK
  <2> QED
    BY <2>1 DEF TypeOK, threads, data
<1>3. CASE Stop(p)
  <2>1. crashes' \in 0..MaxCrashes
    BY <1>3, BoundsAssumption DEF Stop, TypeOK
  <2> QED
    BY <1>3, <2>1 DEF Stop, TypeOK, tables, threads, data
<1>4. CASE Exit(p)
  <2>1. crashes' \in 0..MaxCrashes
    BY <1>4, BoundsAssumption DEF Exit, TypeOK
  <2>2. thread' \in [Thread -> ThreadRec] /\ worker' \in [Jobs -> Worker]
    BY <1>4, RestingTypes DEF Exit, TypeOK
  <2>3. slots' \in [Servers -> 0..Limit]
    BY <1>4, BoundsAssumption DEF Exit, TypeOK
  <2>4. lock' \in [Sources -> Holder \cup {NoOne}] /\ edit' \in [Sources -> {"none", "purge", "write"}]
    BY <1>4 DEF Exit, TypeOK
  <2> QED
    BY <1>4, <2>1, <2>2, <2>3, <2>4 DEF Exit, TypeOK, tables, data
<1>5. CASE Restart(p)
  BY <1>5 DEF Restart, TypeOK, tables, threads, data
<1> QED
  BY <1>1, <1>2, <1>3, <1>4, <1>5

LEMMA OriginTypes ==
    ASSUME TypeOK, NEW s \in Sources, NEW d \in Docs, Publish(s, d) \/ Remove(s, d)
    PROVE  TypeOK'
<1>1. CASE Publish(s, d)
  <2>1. \A j \in Jobs : [worker[j] EXCEPT !.started = @ \ {d}, !.seen = @ \ {d}] \in Worker
    BY DEF TypeOK, Worker
  <2>2. worker' \in [Jobs -> Worker]
    BY <1>1, <2>1 DEF Publish, TypeOK
  <2> QED
    BY <1>1, <2>2 DEF Publish, TypeOK, tables, procs
<1>2. CASE Remove(s, d)
  BY <1>2 DEF Remove, TypeOK, tables, threads, procs
<1> QED
  BY <1>1, <1>2

LEMMA HttpTypes ==
    ASSUME TypeOK, NEW p \in Servers, NEW s \in Sources, HttpStart(p, s)
    PROVE  TypeOK'
<1>1. <<p, "http">> \in Thread /\ IdleThread \in ThreadRec /\ NoJob \in Jobs \cup {NoJob}
  BY RestingTypes DEF Thread, Roles
<1> QED
  BY <1>1, BeginTypes DEF HttpStart

------------------------------------------------------------------------------
(* Effects of the operations the steps share.                                *)

LEMMA RowChanges ==
    ASSUME NEW state
    PROVE  /\ \A x \in Job :
                LET y == [x EXCEPT !.state = state]
                    z == [x EXCEPT !.state = state, !.committing = FALSE]
                IN  /\ y.state = state /\ y.source = x.source
                    /\ (y.cancel <=> x.cancel) /\ (y.committing <=> x.committing)
                    /\ z.state = state /\ z.source = x.source
                    /\ (z.cancel <=> x.cancel) /\ ~z.committing
           /\ \A x \in Source :
                LET y == [x EXCEPT !.state = state]
                IN  /\ y.present <=> x.present
                    /\ y.enabled <=> x.enabled
                    /\ y.snapshot <=> x.snapshot
BY DEF Job, Source

LEMMA FinishEffect ==
    ASSUME TypeOK, NEW j \in Jobs, NEW state \in Final, Finish(j, state)
    PROVE  /\ \A k \in Jobs :
                /\ job'[k].source = job[k].source
                /\ job'[k].cancel <=> job[k].cancel
                /\ k # j => (job'[k].committing <=> job[k].committing)
                /\ \/ k = j
                   \/ job'[k].state = job[k].state
                   \/ job[k].state \in Final /\ job'[k].state = "deleted"
           /\ ~job'[j].committing
           /\ job'[j].state \in {state, "deleted"}
           /\ \A s \in Sources :
                /\ source'[s].present <=> source[s].present
                /\ source'[s].enabled <=> source[s].enabled
                /\ source'[s].snapshot <=> source[s].snapshot
                /\ s # job[j].source => source'[s] = source[s]
<1> DEFINE r == [job EXCEPT ![j].state = state, ![j].committing = FALSE]
           e == [job[j] EXCEPT !.state = state, !.committing = FALSE]
<1>1. job \in [Jobs -> Job] /\ source \in [Sources -> Source] /\ job[j].source \in Sources
  BY DEF TypeOK, Job
<1>2. r[j] = e /\ \A k \in Jobs : k # j => r[k] = job[k]
  BY <1>1
<1>3. e.state = state /\ e.source = job[j].source /\ (e.cancel <=> job[j].cancel) /\ ~e.committing
  BY <1>1, RowChanges
<1>4. e \in Job
  BY <1>1 DEF Job, JobState
<1>5. \A k \in Jobs : r[k] \in Job
  BY <1>1, <1>2, <1>4
<1>6. \A k \in Jobs : job'[k] = IF k \in Pruned(r, job[j].source)
                            THEN [r[k] EXCEPT !.state = "deleted"] ELSE r[k]
  BY DEF Finish
<1>7. \A k \in Pruned(r, job[j].source) : r[k].state \in Final
  BY DEF Pruned
<1> HIDE DEF r, e
<1>8. ASSUME NEW k \in Jobs
      PROVE  /\ job'[k].source = r[k].source
             /\ job'[k].cancel <=> r[k].cancel
             /\ job'[k].committing <=> r[k].committing
             /\ \/ job'[k].state = r[k].state
                \/ r[k].state \in Final /\ job'[k].state = "deleted"
  <2>1. CASE k \in Pruned(r, job[j].source)
    <3>1. job'[k] = [r[k] EXCEPT !.state = "deleted"]
      BY <1>6, <2>1
    <3> QED
      BY <1>5, <1>7, <2>1, <3>1, RowChanges
  <2>2. CASE k \notin Pruned(r, job[j].source)
    BY <1>6, <2>2
  <2> QED
    BY <2>1, <2>2
<1>9. ASSUME NEW k \in Jobs
      PROVE  /\ job'[k].source = job[k].source
             /\ job'[k].cancel <=> job[k].cancel
             /\ k # j => (job'[k].committing <=> job[k].committing)
             /\ \/ k = j
                \/ job'[k].state = job[k].state
                \/ job[k].state \in Final /\ job'[k].state = "deleted"
  <2>1. CASE k = j
    BY <1>2, <1>3, <1>8, <2>1
  <2>2. CASE k # j
    BY <1>2, <1>8, <2>2
  <2> QED
    BY <2>1, <2>2
<1>10. ~job'[j].committing /\ job'[j].state \in {state, "deleted"}
  BY <1>2, <1>3, <1>8
<1>11. ASSUME NEW s \in Sources
       PROVE  /\ source'[s].present <=> source[s].present
              /\ source'[s].enabled <=> source[s].enabled
              /\ source'[s].snapshot <=> source[s].snapshot
              /\ s # job[j].source => source'[s] = source[s]
  <2>1. PICK shown : source' = [source EXCEPT ![job[j].source].state = shown]
    BY DEF Finish
  <2>2. CASE s = job[j].source
    <3>1. source'[s] = [source[s] EXCEPT !.state = shown]
      BY <1>1, <2>1, <2>2
    <3> QED
      BY <1>1, <2>2, <3>1, RowChanges
  <2>3. CASE s # job[j].source
    BY <1>1, <2>1, <2>3
  <2> QED
    BY <2>2, <2>3
<1> QED
  BY <1>9, <1>10, <1>11

LEMMA LeftEffect ==
    ASSUME NEW f \in ThreadRec
    PROVE  Left(f).pc \in {"idle"} \cup Loop
BY DEF Left, IdleThread, ThreadRec, Loop

LEMMA Holders ==
    /\ \A t \in Thread : t[1] \in Servers /\ t[2] \in Roles /\ t = <<t[1], t[2]>> /\ t # NoOne
    /\ \A t \in Thread, j \in Jobs : t # <<j, "worker">>
    /\ \A t \in Thread, p \in Servers : t # <<p, "edit">>
    /\ \A j \in Jobs : NoOne # <<j, "worker">>
    /\ \A p \in Servers : NoOne # <<p, "edit">>
    /\ \A j \in Jobs, p \in Servers : <<j, "worker">> # <<p, "edit">>
    /\ \A j, k \in Jobs : <<j, "worker">> = <<k, "worker">> => j = k
BY NamesAssumption DEF Thread, Roles, Holder

\* Thread t leaves start_sync or goes round its loop; no other thread moves.
Rests(t) == /\ thread'[t].pc \in {"idle"} \cup Loop
            /\ \A u \in Thread : u # t => thread'[u] = thread[u]

\* Thread t locks the source of a sync it begins.
Takes(t) ==
    LET s == thread'[t].source
        j == thread'[t].job
    IN  /\ thread'[t].pc = "slot" /\ s \in Sources
        /\ \A u \in Thread : u # t => thread'[u] = thread[u]
        /\ lock[s] = NoOne /\ lock' = [lock EXCEPT ![s] = t]
        /\ source[s].present /\ source[s].enabled
        /\ j \in Jobs => job[j].source = s /\ RowOf(j)

\* A job whose source nobody holds ends.
Drops == \E j \in Jobs :
    /\ lock[job[j].source] = NoOne /\ RowOf(j)
    /\ \/ job[j].state = "running" /\ Finish(j, "interrupted")
       \/ Finish(j, "cancelled")

LEMMA BeginEffect ==
    ASSUME TypeOK, NEW t \in Thread, NEW f \in ThreadRec, NEW s \in Sources,
           NEW j \in Jobs \cup {NoJob}, j \in Jobs => job[j].source = s, Begin(t, f, s, j)
    PROVE  \/ Rests(t) /\ UNCHANGED lock /\ (UNCHANGED <<job, source>> \/ Drops)
           \/ Takes(t) /\ UNCHANGED <<job, source>>
<1>1. thread \in [Thread -> ThreadRec] /\ Left(f).pc \in {"idle"} \cup Loop
  BY LeftEffect DEF TypeOK
<1>2. ASSUME thread' = [thread EXCEPT ![t] = Left(f)]
      PROVE  Rests(t)
  BY <1>1, <1>2 DEF Rests
<1>3. CASE lock[s] # NoOne \/ ~source[s].present \/ (j # NoJob /\ ~RowOf(j))
  BY <1>2, <1>3 DEF Begin
<1>4. CASE /\ ~(lock[s] # NoOne \/ ~source[s].present \/ (j # NoJob /\ ~RowOf(j)))
           /\ j # NoJob /\ (job[j].revision # source[s].revision \/ ~source[s].enabled)
  <2>1. thread' = [thread EXCEPT ![t] = Left(f)] /\ Finish(j, "cancelled") /\ UNCHANGED lock
    BY <1>4 DEF Begin
  <2> QED
    BY <1>2, <1>4, <2>1 DEF Drops
<1>5. CASE /\ ~(lock[s] # NoOne \/ ~source[s].present \/ (j # NoJob /\ ~RowOf(j)))
           /\ ~(j # NoJob /\ (job[j].revision # source[s].revision \/ ~source[s].enabled))
           /\ ~source[s].enabled
  BY <1>2, <1>5 DEF Begin
<1>6. CASE /\ ~(lock[s] # NoOne \/ ~source[s].present \/ (j # NoJob /\ ~RowOf(j)))
           /\ ~(j # NoJob /\ (job[j].revision # source[s].revision \/ ~source[s].enabled))
           /\ source[s].enabled
  <2>1. /\ thread' = [thread EXCEPT ![t] = [f EXCEPT !.pc = "slot", !.source = s,
                                       !.revision = source[s].revision, !.job = j]]
        /\ lock' = [lock EXCEPT ![s] = t]
        /\ UNCHANGED <<job, source>>
    BY <1>6 DEF Begin
  <2>2. thread'[t] = [f EXCEPT !.pc = "slot", !.source = s, !.revision = source[s].revision,
                               !.job = j]
    BY <1>1, <2>1
  <2>3. thread'[t].pc = "slot" /\ thread'[t].source = s /\ thread'[t].job = j
    BY <2>2 DEF ThreadRec
  <2>4. \A u \in Thread : u # t => thread'[u] = thread[u]
    BY <1>1, <2>1
  <2>5. lock[s] = NoOne /\ source[s].present /\ source[s].enabled /\ (j \in Jobs => RowOf(j))
    BY <1>6, NamesAssumption
  <2> QED
    BY <2>1, <2>3, <2>4, <2>5 DEF Takes
<1> QED
  BY <1>3, <1>4, <1>5, <1>6

\* What a step of the scheduler and the beginning of a request do.
LEMMA AskEffect ==
    ASSUME TypeOK, NEW p \in Servers, NEW t \in Thread,
           \/ t = Tick(p) /\ TickStep(p)
           \/ t = <<p, "http">> /\ \E s \in Sources : HttpStart(p, s)
    PROVE  /\ thread[t].pc \in {"idle"} \cup Loop
           /\ UNCHANGED <<worker, edit, remote, index, covered>>
           /\ \/ Rests(t) /\ UNCHANGED lock /\ (UNCHANGED <<job, source>> \/ Drops)
              \/ Takes(t) /\ UNCHANGED <<job, source>>
<1>1. thread \in [Thread -> ThreadRec] /\ thread[t] \in ThreadRec
  BY DEF TypeOK
<1>2. ASSUME NEW pc \in {"idle"} \cup Loop, NEW f \in ThreadRec, f.pc = pc,
             thread' = [thread EXCEPT ![t] = f]
      PROVE  Rests(t)
  BY <1>1, <1>2 DEF Rests
<1>3. CASE t = Tick(p) /\ TickBegin(p)
  <2>1. [IdleThread EXCEPT !.pc = "running", !.loop = "running", !.todo = Running] \in ThreadRec
    BY RestingTypes DEF Running, ThreadRec, Loop, Start
  <2>2. [IdleThread EXCEPT !.pc = "running", !.loop = "running", !.todo = Running].pc = "running"
    BY DEF IdleThread
  <2>3. Rests(t)
    BY <1>2, <1>3, <2>1, <2>2 DEF TickBegin, Loop
  <2> QED
    BY <1>3, <2>3 DEF TickBegin, At, tables, procs, data
<1>4. CASE t = Tick(p) /\ TickProbe(p)
  <2>1. PICK j \in thread[t].todo :
          /\ At(t, "running")
          /\ thread' = [thread EXCEPT ![t].todo = @ \ {j}]
          /\ IF DeadWorker(j) THEN Finish(j, "interrupted") ELSE UNCHANGED <<job, source>>
          /\ UNCHANGED <<schedule, lock, jobLock, leader, slots, worker, procs, data>>
    BY <1>4 DEF TickProbe
  <2>2. j \in Jobs
    BY <1>1, <2>1, ThreadTypes
  <2>3. [thread[t] EXCEPT !.todo = @ \ {j}].pc = "running"
    BY <1>1, <2>1 DEF At, ThreadRec
  <2>4. Rests(t)
    BY <1>1, <2>1, <2>3 DEF Rests, Loop
  <2>5. UNCHANGED <<job, source>> \/ Drops
    BY <2>1, <2>2 DEF DeadWorker, Drops, RowOf
  <2> QED
    BY <2>1, <2>4, <2>5 DEF At, Loop, procs, data
<1>5. CASE t = Tick(p) /\ TickListQueued(p)
  <2>1. thread' = [thread EXCEPT ![t].pc = "queued", ![t].loop = "queued",
                        ![t].todo = {j \in Jobs : job[j].state = "queued"}]
    BY <1>5 DEF TickListQueued
  <2>2. thread'[t].pc = "queued" /\ \A u \in Thread : u # t => thread'[u] = thread[u]
    BY <1>1, <2>1 DEF ThreadRec
  <2> QED
    BY <1>5, <2>2 DEF TickListQueued, Rests, At, Loop, tables, procs, data
<1>6. CASE t = Tick(p) /\ TickListDue(p)
  <2>1. thread' = [thread EXCEPT ![t].pc = "due", ![t].loop = "due",
                        ![t].due = {s \in Sources : Due(s)}]
    BY <1>6 DEF TickListDue
  <2>2. thread'[t].pc = "due" /\ \A u \in Thread : u # t => thread'[u] = thread[u]
    BY <1>1, <2>1 DEF ThreadRec
  <2> QED
    BY <1>6, <2>2 DEF TickListDue, Rests, At, Loop, tables, procs, data
<1>7. CASE t = Tick(p) /\ TickStart(p)
  <2>1. PICK j \in thread[t].todo :
          /\ At(t, "queued")
          /\ Begin(t, [thread[t] EXCEPT !.todo = @ \ {j}], job[j].source, j)
          /\ UNCHANGED <<schedule, jobLock, leader, slots, worker, procs, data>>
    BY <1>7 DEF TickStart
  <2>2. j \in Jobs /\ job[j].source \in Sources
    BY <1>1, <2>1, ThreadTypes DEF TypeOK, Job
  <2>3. [thread[t] EXCEPT !.todo = @ \ {j}] \in ThreadRec
    BY <1>1, ThreadTypes
  <2> QED
    BY <2>1, <2>2, <2>3, BeginEffect DEF At, Loop, procs, data
<1>8. CASE t = Tick(p) /\ TickStartDue(p)
  <2>1. PICK s \in thread[t].due :
          /\ At(t, "due")
          /\ Begin(t, [thread[t] EXCEPT !.due = @ \ {s}], s, NoJob)
          /\ UNCHANGED <<schedule, jobLock, leader, slots, worker, procs, data>>
    BY <1>8 DEF TickStartDue
  <2>2. s \in Sources /\ [thread[t] EXCEPT !.due = @ \ {s}] \in ThreadRec
    BY <1>1, <2>1, ThreadTypes
  <2> QED
    BY <2>1, <2>2, BeginEffect, NamesAssumption DEF At, Loop, procs, data
<1>9. CASE t = Tick(p) /\ TickEnd(p)
  <2>1. thread' = [thread EXCEPT ![t] = IdleThread] /\ IdleThread.pc = "idle"
    BY <1>9 DEF TickEnd, IdleThread
  <2>2. Rests(t)
    BY <1>1, <2>1 DEF Rests
  <2> QED
    BY <1>9, <2>2 DEF TickEnd, At, Loop, tables, procs, data
<1>10. CASE t = <<p, "http">> /\ \E s \in Sources : HttpStart(p, s)
  <2>1. PICK s \in Sources : HttpStart(p, s)
    BY <1>10
  <2> QED
    BY <1>10, <2>1, RestingTypes, BeginEffect, NamesAssumption DEF HttpStart, At, procs, data
<1> QED
  BY <1>3, <1>4, <1>5, <1>6, <1>7, <1>8, <1>9, <1>10 DEF TickStep

\* Thread t goes on with the sync of its source; no other thread moves.
Goes(t, pc) == /\ thread'[t].pc = pc /\ thread'[t].source = thread[t].source
               /\ \A u \in Thread : u # t => thread'[u] = thread[u]

Gives(t) ==
    /\ thread[t].pc \in {"slot", "create", "claim", "launch"} /\ Rests(t)
    /\ lock' = [lock EXCEPT ![thread[t].source] = NoOne]
    /\ UNCHANGED worker
    /\ \/ UNCHANGED <<job, source>>
       \/ thread[t].pc = "launch" /\ Finish(thread[t].job, "failed")

Acquires(t) ==
    /\ thread[t].pc = "slot" /\ UNCHANGED <<lock, worker, job, source>>
    /\ thread'[t].job = thread[t].job
    /\ \/ thread[t].job = NoJob /\ Goes(t, "create")
       \/ thread[t].job \in Jobs /\ Goes(t, "claim")

Creates(t) ==
    /\ thread[t].pc = "create" /\ OpenOf(thread[t].source) = {} /\ Goes(t, "claim")
    /\ thread'[t].job \in Jobs /\ job[thread'[t].job].state = "absent"
    /\ job' = [job EXCEPT ![thread'[t].job] = [NoJobRow EXCEPT !.state = "queued",
                 !.source = thread[t].source, !.revision = thread[t].revision]]
    /\ source' = [source EXCEPT ![thread[t].source].state = "queued"]
    /\ UNCHANGED <<lock, worker>>

Claims(t) ==
    /\ thread[t].pc = "claim" /\ MayClaim(thread[t].job) /\ Goes(t, "launch")
    /\ thread'[t].job = thread[t].job
    /\ job' = [job EXCEPT ![thread[t].job].state = "running"]
    /\ source' = [source EXCEPT ![thread[t].source].state = "syncing"]
    /\ UNCHANGED <<lock, worker>>

Launches(t) ==
    /\ thread[t].pc = "launch" /\ Goes(t, "answer")
    /\ \E p \in Servers : worker' = [worker EXCEPT ![thread[t].job] =
                                        [IdleWorker EXCEPT !.pc = "begin", !.server = p]]
    /\ lock' = [lock EXCEPT ![thread[t].source] = <<thread[t].job, "worker">>]
    /\ source' = [source EXCEPT ![thread[t].source].state = "syncing"]
    /\ UNCHANGED job

Answers(t) == /\ thread[t].pc = "answer" /\ Rests(t)
              /\ UNCHANGED <<lock, worker, job, source>>

LEMMA StartEffect ==
    ASSUME TypeOK, NEW t \in Thread, StartStep(t)
    PROVE  /\ UNCHANGED <<edit, remote, index, covered>>
           /\ \/ Gives(t) \/ Acquires(t) \/ Creates(t) \/ Claims(t) \/ Launches(t) \/ Answers(t)
<1>1. /\ thread \in [Thread -> ThreadRec] /\ thread[t] \in ThreadRec
      /\ Left(thread[t]).pc \in {"idle"} \cup Loop /\ t[1] \in Servers
  BY LeftEffect, Holders DEF TypeOK
<1>2. ASSUME thread' = [thread EXCEPT ![t] = Left(@)]
      PROVE  Rests(t)
  BY <1>1, <1>2 DEF Rests
<1>3. ASSUME NEW pc, thread' = [thread EXCEPT ![t].pc = pc]
      PROVE  Goes(t, pc) /\ thread'[t].job = thread[t].job
  <2>1. thread'[t] = [thread[t] EXCEPT !.pc = pc]
    BY <1>1, <1>3
  <2> QED
    BY <1>1, <1>3, <2>1 DEF Goes, ThreadRec
<1>4. CASE StartSlot(t)
  <2>1. CASE slots[t[1]] = 0
    BY <1>2, <1>4, <2>1 DEF StartSlot, Conflict, Gives, At, tables, procs, data
  <2>2. CASE slots[t[1]] # 0 /\ thread[t].job = NoJob
    <3>1. thread' = [thread EXCEPT ![t].pc = "create"]
      BY <1>4, <2>2 DEF StartSlot
    <3> QED
      BY <1>3, <1>4, <2>2, <3>1 DEF StartSlot, Acquires, At, tables, procs, data
  <2>3. CASE slots[t[1]] # 0 /\ thread[t].job # NoJob
    <3>1. thread' = [thread EXCEPT ![t].pc = "claim"]
      BY <1>4, <2>3 DEF StartSlot
    <3>2. thread[t].job \in Jobs
      BY <1>1, <2>3 DEF ThreadRec
    <3> QED
      BY <1>3, <1>4, <2>3, <3>1, <3>2 DEF StartSlot, Acquires, At, tables, procs, data
  <2> QED
    BY <2>1, <2>2, <2>3
<1>5. CASE StartCreate(t)
  <2>1. CASE Abandon(t) /\ UNCHANGED tables
    BY <1>2, <1>5, <2>1 DEF StartCreate, Abandon, Conflict, Gives, At, tables, procs, data
  <2>2. CASE ~(Abandon(t) /\ UNCHANGED tables)
    <3>1. PICK k \in Fresh :
            /\ job' = [job EXCEPT ![k] = [NoJobRow EXCEPT !.state = "queued",
                          !.source = thread[t].source, !.revision = thread[t].revision]]
            /\ source' = [source EXCEPT ![thread[t].source].state = "queued"]
            /\ thread' = [thread EXCEPT ![t].pc = "claim", ![t].job = k]
      BY <1>5, <2>2 DEF StartCreate
    <3>2. OpenOf(thread[t].source) = {}
      BY <1>5, <2>2 DEF StartCreate, MayCreate
    <3>3. k \in Jobs /\ job[k].state = "absent"
      BY DEF Fresh
    <3>4. thread'[t] = [thread[t] EXCEPT !.pc = "claim", !.job = k]
      BY <1>1, <3>1
    <3>5. Goes(t, "claim") /\ thread'[t].job = k
      BY <1>1, <3>1, <3>4 DEF Goes, ThreadRec
    <3>6. UNCHANGED <<lock, worker, edit, remote, index, covered>> /\ thread[t].pc = "create"
      BY <1>5, <2>2 DEF StartCreate, At, procs, data
    <3> QED
      BY <3>1, <3>2, <3>3, <3>5, <3>6 DEF Creates
  <2> QED
    BY <2>1, <2>2
<1>6. CASE StartClaim(t)
  <2>1. CASE ~MayClaim(thread[t].job)
    BY <1>2, <1>6, <2>1 DEF StartClaim, Abandon, Conflict, Gives, At, procs, data
  <2>2. CASE MayClaim(thread[t].job)
    <3>1. thread' = [thread EXCEPT ![t].pc = "launch"]
      BY <1>6, <2>2 DEF StartClaim
    <3>2. Goes(t, "launch") /\ thread'[t].job = thread[t].job
      BY <1>3, <3>1
    <3> QED
      BY <1>6, <2>2, <3>2 DEF StartClaim, Claims, At, procs, data
  <2> QED
    BY <2>1, <2>2
<1>7. CASE StartLaunch(t)
  <2>1. Goes(t, "answer")
    BY <1>3, <1>7 DEF StartLaunch
  <2> QED
    BY <1>1, <1>7, <2>1 DEF StartLaunch, Launches, At, procs, data
<1>8. CASE StartFailed(t)
  BY <1>2, <1>8 DEF StartFailed, Abandon, Conflict, Gives, At, procs, data
<1>9. CASE StartAnswer(t)
  BY <1>2, <1>9 DEF StartAnswer, Answers, At, tables, procs, data
<1> QED
  BY <1>4, <1>5, <1>6, <1>7, <1>8, <1>9 DEF StartStep

LEMMA WorkerEffect ==
    ASSUME TypeOK, NEW j \in Jobs, WorkerStep(j)
    PROVE  /\ worker[j].pc # "none" /\ UNCHANGED <<thread, edit>>
           /\ \A k \in Jobs : k # j => worker'[k] = worker[k]
           /\ \/ worker'[j].pc # "none" /\ UNCHANGED lock
              \/ /\ worker[j].pc = "release" /\ worker'[j].pc = "none"
                 /\ lock' = [lock EXCEPT ![job[j].source] = NoOne]
                 /\ UNCHANGED <<job, source, remote, index, covered>>
<1>1. worker \in [Jobs -> Worker] /\ worker[j] \in Worker
  BY DEF TypeOK
<1>2. ASSUME NEW pc, pc # "none", NEW w \in Worker, w.pc = pc, worker' = [worker EXCEPT ![j] = w]
      PROVE  worker'[j].pc # "none" /\ \A k \in Jobs : k # j => worker'[k] = worker[k]
  BY <1>1, <1>2
<1>3. ASSUME NEW from, NEW to, from # "none", to # "none", Step(j, from, to)
      PROVE  /\ worker[j].pc # "none" /\ worker'[j].pc # "none"
             /\ \A k \in Jobs : k # j => worker'[k] = worker[k]
  <2>1. worker'[j] = [worker[j] EXCEPT !.pc = to] /\ \A k \in Jobs : k # j => worker'[k] = worker[k]
    BY <1>1, <1>3 DEF Step
  <2> QED
    BY <1>1, <1>3, <2>1 DEF Step, Worker
<1>4. ASSUME NEW outcome, End(j, outcome)
      PROVE  /\ worker'[j].pc # "none" /\ UNCHANGED <<thread, edit, lock>>
             /\ \A k \in Jobs : k # j => worker'[k] = worker[k]
  <2>1. /\ worker'[j] = [worker[j] EXCEPT !.pc = "finish", !.outcome = outcome]
        /\ \A k \in Jobs : k # j => worker'[k] = worker[k]
    BY <1>1, <1>4 DEF End
  <2> QED
    BY <1>1, <1>4, <2>1 DEF End, Worker, procs
<1>5. CASE WorkerBegin(j)
  <2>1. /\ worker'[j] = [worker[j] EXCEPT !.pc = "read", !.started = remote[job[j].source],
                                          !.seen = {}]
        /\ \A k \in Jobs : k # j => worker'[k] = worker[k]
    BY <1>1, <1>5 DEF WorkerBegin
  <2> QED
    BY <1>1, <1>5, <2>1 DEF WorkerBegin, Worker, procs
<1>6. CASE WorkerIngest(j)
  <2>1. PICK batch : worker' = [worker EXCEPT ![j].seen = @ \cup batch]
    BY <1>6 DEF WorkerIngest
  <2>2. /\ worker'[j] = [worker[j] EXCEPT !.seen = @ \cup batch]
        /\ \A k \in Jobs : k # j => worker'[k] = worker[k]
    BY <1>1, <2>1
  <2> QED
    BY <1>1, <1>6, <2>2 DEF WorkerIngest, Worker, procs
<1>7. CASE WorkerCancelled(j) \/ WorkerFails(j) \/ WorkerConclude(j)
  BY <1>4, <1>7 DEF WorkerCancelled, WorkerFails, WorkerConclude, Sync
<1>8. CASE WorkerBeginCommit(j)
  BY <1>3, <1>8 DEF WorkerBeginCommit, procs
<1>9. CASE WorkerReconcile(j)
  BY <1>3, <1>9 DEF WorkerReconcile, procs
<1>10. CASE WorkerSave(j)
  BY <1>3, <1>10 DEF WorkerSave, procs
<1>11. CASE WorkerFinish(j)
  BY <1>3, <1>11 DEF WorkerFinish, procs
<1>12. CASE WorkerRelease(j)
  BY <1>1, <1>12 DEF WorkerRelease, IdleWorker, tables, procs, data
<1> QED
  BY <1>5, <1>6, <1>7, <1>8, <1>9, <1>10, <1>11, <1>12 DEF WorkerStep

------------------------------------------------------------------------------
(* The lock of a source.                                                     *)

Holding == {"slot", "create", "claim", "launch"}

\* Who works on a source holds its lock.
LockOfThread == \A t \in Thread : thread[t].pc \in Holding => lock[thread[t].source] = t
LockOfWorker == \A j \in Jobs : worker[j].pc # "none" => lock[job[j].source] = <<j, "worker">>
LockOfEdit == \A s \in Sources : edit[s] # "none" => \E p \in Servers : lock[s] = <<p, "edit">>
LockInv == LockOfThread /\ LockOfWorker /\ LockOfEdit

\* The job a thread or a worker works for exists, and is of the source it locked.
JobOfThread ==
    \A t \in Thread :
        /\ thread[t].pc \in {"claim", "launch"} => thread[t].job \in Jobs
        /\ (thread[t].pc \in {"slot", "claim", "launch"} /\ thread[t].job \in Jobs)
             => /\ job[thread[t].job].source = thread[t].source
                /\ job[thread[t].job].state # "absent"
JobOfWorker == \A j \in Jobs : worker[j].pc # "none" => job[j].state # "absent"
JobInv == JobOfThread /\ JobOfWorker

\* A process's thread asks for a sync or the scheduler moves.
Asks(p, t) == \/ t = Tick(p) /\ TickStep(p)
              \/ t = <<p, "http">> /\ \E s \in Sources : HttpStart(p, s)

\* Steps that leave the locks and the threads of start_sync alone.
Quiet ==
    \/ \E p \in Servers : ListRead(p) \/ ListRepair(p) \/ Stop(p) \/ Restart(p)
    \/ \E s \in Sources : Cancel(s) \/ Share(s) \/ IntervalPasses(s)
    \/ \E s \in Sources : \E on \in BOOLEAN : SetSchedule(s, on) \/ Update(s, on)
    \/ \E s \in Sources : \E d \in Docs : Publish(s, d) \/ Remove(s, d)

LEMMA NextCases ==
    ASSUME Next
    PROVE  \/ \E p \in Servers, t \in Thread : Asks(p, t)
           \/ \E t \in Thread : StartStep(t)
           \/ \E j \in Jobs : WorkerStep(j)
           \/ \E s \in Sources : EditStep(s) \/ \E p \in Servers : ResetCheckpoint(p, s)
           \/ \E p \in Servers : Exit(p)
           \/ Quiet
<1>1. \A p \in Servers : <<p, "tick">> \in Thread /\ <<p, "http">> \in Thread
  BY DEF Thread, Roles
<1>2. \A p \in Servers : TickStep(p) => \E t \in Thread : Asks(p, t)
  BY <1>1 DEF Asks, Tick
<1>3. \A p \in Servers, s \in Sources : HttpStart(p, s) => \E t \in Thread : Asks(p, t)
  BY <1>1 DEF Asks
<1>4. CASE \E p \in Servers : \/ TickStep(p) \/ ListRead(p) \/ ListRepair(p)
                              \/ Stop(p) \/ Exit(p) \/ Restart(p)
                              \/ \E s \in Sources : HttpStart(p, s) \/ ResetCheckpoint(p, s)
  BY <1>2, <1>3, <1>4 DEF Quiet
<1>5. CASE \E s \in Sources :
             \/ EditStep(s) \/ Cancel(s) \/ Share(s) \/ IntervalPasses(s)
             \/ \E on \in BOOLEAN : SetSchedule(s, on) \/ Update(s, on)
             \/ \E d \in Docs : Publish(s, d) \/ Remove(s, d)
  BY <1>5 DEF Quiet
<1>6. CASE \/ \E t \in Thread : StartStep(t)
           \/ \E j \in Jobs : WorkerStep(j)
  BY <1>6
<1> QED
  BY <1>4, <1>5, <1>6 DEF Next

LEMMA TypeStep ==
    ASSUME TypeOK, JobOfThread, [Next]_vars
    PROVE  TypeOK'
<1>1. ASSUME NEW p \in Servers, NEW t \in Thread, Asks(p, t)
      PROVE  TypeOK'
  BY <1>1, TickTypes, HttpTypes DEF Asks
<1>2. ASSUME NEW t \in Thread, StartStep(t)
      PROVE  TypeOK'
  BY <1>2, StartTypes DEF JobOfThread
<1>3. CASE Quiet
  <2>1. CASE \E p \in Servers : ListRead(p) \/ ListRepair(p) \/ Stop(p) \/ Restart(p)
    BY <2>1, ProcessTypes
  <2>2. CASE \E s \in Sources : \E d \in Docs : Publish(s, d) \/ Remove(s, d)
    BY <2>2, OriginTypes
  <2>3. CASE \/ \E s \in Sources : Cancel(s) \/ Share(s) \/ IntervalPasses(s)
             \/ \E s \in Sources : \E on \in BOOLEAN : SetSchedule(s, on) \/ Update(s, on)
    BY <2>3, UserTypes
  <2> QED
    BY <1>3, <2>1, <2>2, <2>3 DEF Quiet
<1>4. CASE UNCHANGED vars
  BY <1>4 DEF TypeOK, vars, tables, threads, procs, data
<1> QED
  BY <1>1, <1>2, <1>3, <1>4, NextCases, WorkerTypes, EditTypes, ProcessTypes

\* What the steps of others leave to the steps of a sync.
LEMMA QuietEffect ==
    ASSUME Quiet
    PROVE  UNCHANGED <<thread, lock, edit>>
BY DEF Quiet, ListRead, ListRepair, Stop, Restart, Cancel, Share, IntervalPasses, SetSchedule,
   Update, Publish, Remove, threads, procs

\* A row keeps its source.
LEMMA RowsKept ==
    ASSUME TypeOK, JobOfThread, [Next]_vars
    PROVE  \A k \in Jobs : job[k].state # "absent"
             => job'[k].state # "absent" /\ job'[k].source = job[k].source
<1> DEFINE Kept == \A k \in Jobs : job[k].state # "absent"
             => job'[k].state # "absent" /\ job'[k].source = job[k].source
<1>1. job \in [Jobs -> Job]
  BY DEF TypeOK
<1>2. CASE UNCHANGED job
  BY <1>2
<1>3. ASSUME NEW j \in Jobs, NEW state \in Final, Finish(j, state)
      PROVE  Kept
  BY <1>3, FinishEffect DEF Final
<1>4. ASSUME NEW p \in Servers, NEW t \in Thread, Asks(p, t)
      PROVE  Kept
  <2>1. UNCHANGED job \/ Drops
    BY <1>4, AskEffect DEF Asks
  <2> QED
    BY <1>2, <1>3, <2>1 DEF Drops, Final
<1>5. ASSUME NEW t \in Thread, StartStep(t)
      PROVE  Kept
  <2>1. CASE Gives(t)
    BY <1>2, <1>3, <2>1 DEF Gives, Final, JobOfThread
  <2>2. CASE Creates(t)
    BY <1>1, <2>2 DEF Creates
  <2>3. CASE Claims(t)
    <3>1. thread[t].job \in Jobs
      BY <2>3 DEF Claims, JobOfThread
    <3>2. /\ job'[thread[t].job] = [job[thread[t].job] EXCEPT !.state = "running"]
          /\ \A k \in Jobs : k # thread[t].job => job'[k] = job[k]
      BY <1>1, <2>3, <3>1 DEF Claims
    <3>3. /\ job'[thread[t].job].state = "running"
          /\ job'[thread[t].job].source = job[thread[t].job].source
      BY <1>1, <3>1, <3>2 DEF Job
    <3> QED
      BY <3>2, <3>3
  <2>4. CASE Acquires(t) \/ Launches(t) \/ Answers(t)
    BY <1>2, <2>4 DEF Acquires, Launches, Answers
  <2> QED
    BY <1>5, <2>1, <2>2, <2>3, <2>4, StartEffect
<1>6. ASSUME NEW j \in Jobs, WorkerStep(j)
      PROVE  Kept
  <2>1. CASE WorkerBeginCommit(j)
    <3>1. /\ job'[j] = [job[j] EXCEPT !.committing = TRUE]
          /\ \A k \in Jobs : k # j => job'[k] = job[k]
      BY <1>1, <2>1 DEF WorkerBeginCommit
    <3> QED
      BY <1>1, <3>1 DEF Job
  <2>2. CASE WorkerFinish(j)
    <3>1. worker[j].outcome \in Final
      BY DEF TypeOK, Worker
    <3> QED
      BY <1>3, <2>2, <3>1 DEF WorkerFinish
  <2>3. CASE ~WorkerBeginCommit(j) /\ ~WorkerFinish(j)
    <3>1. UNCHANGED job
      BY <1>6, <2>3 DEF WorkerStep, WorkerBegin, WorkerIngest, WorkerCancelled, WorkerFails,
         WorkerReconcile, WorkerSave, WorkerConclude, WorkerRelease, End, tables
    <3> QED
      BY <1>2, <3>1
  <2> QED
    BY <2>1, <2>2, <2>3
<1>7. ASSUME NEW s \in Sources, Cancel(s)
      PROVE  Kept
  <2>1. PICK j \in OpenOf(s) :
         \/ job' = [job EXCEPT ![j].state = "cancelled", ![j].cancel = TRUE]
         \/ job' = [job EXCEPT ![j].cancel = TRUE]
    BY <1>7 DEF Cancel
  <2>2. j \in Jobs
    BY DEF OpenOf
  <2>3. /\ \/ job'[j] = [job[j] EXCEPT !.state = "cancelled", !.cancel = TRUE]
           \/ job'[j] = [job[j] EXCEPT !.cancel = TRUE]
        /\ \A k \in Jobs : k # j => job'[k] = job[k]
    BY <1>1, <2>1, <2>2
  <2>4. job'[j].source = job[j].source /\ (job'[j].state = job[j].state \/ job'[j].state = "cancelled")
    BY <1>1, <2>2, <2>3 DEF Job
  <2> QED
    BY <2>3, <2>4
<1>8. ASSUME NEW s \in Sources, Delete(s)
      PROVE  Kept
  <2>1. \A k \in Jobs : job'[k] = job[k] \/ job'[k] = [job[k] EXCEPT !.state = "deleted"]
    BY <1>8 DEF Delete
  <2>2. \A k \in Jobs : LET y == [job[k] EXCEPT !.state = "deleted"]
                      IN  y.state = "deleted" /\ y.source = job[k].source
    BY <1>1 DEF Job
  <2> QED
    BY <2>1, <2>2
<1>9. CASE Quiet /\ \A s \in Sources : ~Cancel(s)
  <2>1. UNCHANGED job
    BY <1>9 DEF Quiet, ListRead, ListRepair, Stop, Restart, Share, IntervalPasses, SetSchedule,
       Update, Publish, Remove, tables
  <2> QED
    BY <1>2, <2>1
<1>10. CASE \E s \in Sources : \/ PurgeDocuments(s) \/ WriteConfig(s)
                               \/ \E p \in Servers : ResetCheckpoint(p, s)
  <2>1. UNCHANGED job
    BY <1>10 DEF PurgeDocuments, WriteConfig, ResetCheckpoint, tables
  <2> QED
    BY <1>2, <2>1
<1>11. ASSUME NEW p \in Servers, Exit(p)
       PROVE  Kept
  BY <1>2, <1>11 DEF Exit, tables
<1>12. CASE UNCHANGED vars
  BY <1>2, <1>12 DEF vars, tables
<1> QED
  BY <1>4, <1>5, <1>6, <1>7, <1>8, <1>9, <1>10, <1>11, <1>12, NextCases DEF EditStep

LEMMA QuietWorkers ==
    ASSUME TypeOK, Quiet
    PROVE  \A k \in Jobs : /\ worker'[k].pc = worker[k].pc /\ worker'[k].server = worker[k].server
                           /\ worker'[k].outcome = worker[k].outcome
<1>1. worker \in [Jobs -> Worker]
  BY DEF TypeOK
<1>2. CASE \E s \in Sources, d \in Docs : Publish(s, d)
  <2>1. PICK s \in Sources, d \in Docs : Publish(s, d)
    BY <1>2
  <2>2. ASSUME NEW k \in Jobs
        PROVE  /\ worker'[k].pc = worker[k].pc /\ worker'[k].server = worker[k].server
               /\ worker'[k].outcome = worker[k].outcome
    <3>1. \/ worker'[k] = worker[k]
          \/ worker'[k] = [worker[k] EXCEPT !.started = @ \ {d}, !.seen = @ \ {d}]
      BY <2>1 DEF Publish
    <3> QED
      BY <1>1, <3>1 DEF Worker
  <2> QED
    BY <2>2
<1>3. CASE ~ \E s \in Sources, d \in Docs : Publish(s, d)
  <2>1. UNCHANGED worker
    BY <1>3 DEF Quiet, ListRead, ListRepair, Stop, Restart, Cancel, Share, IntervalPasses,
       SetSchedule, Update, Remove, threads
  <2> QED
    BY <2>1
<1> QED
  BY <1>2, <1>3

LEMMA LockStep ==
    ASSUME TypeOK, LockInv, JobInv, [Next]_vars
    PROVE  LockInv'
<1>1. /\ thread \in [Thread -> ThreadRec] /\ lock \in [Sources -> Holder \cup {NoOne}]
      /\ worker \in [Jobs -> Worker] /\ edit \in [Sources -> {"none", "purge", "write"}]
  BY DEF TypeOK
<1>2. /\ \A t \in Thread : thread[t].source \in Sources
      /\ \A j \in Jobs : job[j].source \in Sources
  BY DEF TypeOK, ThreadRec, Job
<1>3. \A j \in Jobs : worker[j].pc # "none" => job'[j].source = job[j].source
  BY RowsKept DEF JobInv, JobOfWorker
<1>4. ASSUME NEW p \in Servers, NEW t \in Thread, Asks(p, t)
      PROVE  LockInv'
  <2>1. UNCHANGED <<worker, edit>> /\ (Takes(t) \/ (Rests(t) /\ UNCHANGED lock))
    BY <1>4, AskEffect DEF Asks
  <2>2. CASE Rests(t) /\ UNCHANGED lock
    <3>1. LockOfThread'
      BY <2>2 DEF Rests, LockInv, LockOfThread, Holding, Loop
    <3>2. LockOfWorker'
      BY <1>3, <2>1, <2>2 DEF LockInv, LockOfWorker
    <3>3. LockOfEdit'
      BY <2>1, <2>2 DEF LockInv, LockOfEdit
    <3> QED
      BY <3>1, <3>2, <3>3 DEF LockInv
  <2>3. CASE Takes(t)
    <3> DEFINE s == thread'[t].source
    <3>1. s \in Sources /\ lock[s] = NoOne /\ lock' = [lock EXCEPT ![s] = t]
      BY <2>3 DEF Takes
    <3>2. lock'[s] = t /\ \A r \in Sources : r # s => lock'[r] = lock[r]
      BY <1>1, <3>1
    <3> HIDE DEF s
    <3>3. LockOfThread'
      BY <1>2, <2>3, <3>1, <3>2, Holders DEF s, Takes, LockInv, LockOfThread
    <3>4. LockOfWorker'
      BY <1>2, <1>3, <2>1, <3>1, <3>2, Holders DEF LockInv, LockOfWorker
    <3>5. LockOfEdit'
      BY <2>1, <3>1, <3>2, Holders DEF LockInv, LockOfEdit
    <3> QED
      BY <3>3, <3>4, <3>5 DEF LockInv
  <2> QED
    BY <2>1, <2>2, <2>3
<1>5. ASSUME NEW t \in Thread, StartStep(t)
      PROVE  LockInv'
  <2> DEFINE s == thread[t].source
  <2>1. UNCHANGED edit /\ s \in Sources
    BY <1>2, <1>5, StartEffect
  <2>2. CASE Gives(t)
    <3>1. lock[s] = t /\ UNCHANGED worker
      BY <2>2 DEF Gives, LockInv, LockOfThread, Holding
    <3>2. lock'[s] = NoOne /\ \A r \in Sources : r # s => lock'[r] = lock[r]
      BY <1>1, <2>1, <2>2 DEF Gives
    <3> HIDE DEF s
    <3>3. LockOfThread'
      BY <1>2, <2>2, <3>1, <3>2, Holders DEF Gives, Rests, LockInv, LockOfThread, Holding, Loop
    <3>4. LockOfWorker'
      <4> SUFFICES ASSUME NEW k \in Jobs, worker'[k].pc # "none"
                   PROVE  lock'[job'[k].source] = <<k, "worker">>
        BY DEF LockOfWorker
      <4>1. worker[k].pc # "none" /\ lock[job[k].source] = <<k, "worker">>
        BY <3>1 DEF LockInv, LockOfWorker, IdleWorker
      <4>2. job'[k].source = job[k].source /\ job[k].source \in Sources
        BY <1>2, <1>3, <4>1
      <4>3. job[k].source # s
        BY <4>1, <3>1, Holders
      <4> QED
        BY <4>1, <4>2, <4>3, <3>2
    <3>5. LockOfEdit'
      BY <2>1, <3>1, <3>2, Holders DEF LockInv, LockOfEdit
    <3> QED
      BY <3>3, <3>4, <3>5 DEF LockInv
  <2>3. CASE Acquires(t) \/ Creates(t) \/ Claims(t) \/ Answers(t)
    <3>1. UNCHANGED <<lock, worker>>
      BY <2>3 DEF Acquires, Creates, Claims, Answers
    <3>2. \/ thread'[t].pc \notin Holding
          \/ thread[t].pc \in Holding /\ thread'[t].source = s
      BY <2>3 DEF Acquires, Creates, Claims, Answers, Goes, Rests, Holding, Loop
    <3>3. \A u \in Thread : u # t => thread'[u] = thread[u]
      BY <2>3 DEF Acquires, Creates, Claims, Answers, Goes, Rests
    <3>4. LockOfThread'
      BY <3>1, <3>2, <3>3 DEF LockInv, LockOfThread
    <3>5. LockOfWorker'
      BY <1>3, <3>1 DEF LockInv, LockOfWorker
    <3>6. LockOfEdit'
      BY <2>1, <3>1 DEF LockInv, LockOfEdit
    <3> QED
      BY <3>4, <3>5, <3>6 DEF LockInv
  <2>4. CASE Launches(t)
    <3> DEFINE j == thread[t].job
    <3>1. j \in Jobs /\ job[j].source = s /\ lock[s] = t /\ UNCHANGED job
      BY <2>4 DEF Launches, LockInv, LockOfThread, Holding, JobInv, JobOfThread
    <3>2. lock'[s] = <<j, "worker">> /\ \A r \in Sources : r # s => lock'[r] = lock[r]
      BY <1>1, <2>1, <2>4 DEF Launches
    <3>3. \A k \in Jobs : k # j => worker'[k] = worker[k]
      BY <1>1, <2>4 DEF Launches
    <3>4. thread'[t].pc \notin Holding /\ \A u \in Thread : u # t => thread'[u] = thread[u]
      BY <2>4 DEF Launches, Goes, Holding
    <3> HIDE DEF s, j
    <3>5. LockOfThread'
      BY <1>2, <3>1, <3>2, <3>4, Holders DEF LockInv, LockOfThread
    <3>6. LockOfWorker'
      BY <1>2, <3>1, <3>2, <3>3, Holders DEF LockInv, LockOfWorker
    <3>7. LockOfEdit'
      BY <2>1, <3>1, <3>2, Holders DEF LockInv, LockOfEdit
    <3> QED
      BY <3>5, <3>6, <3>7 DEF LockInv
  <2> QED
    BY <1>5, <2>2, <2>3, <2>4, StartEffect
<1>6. ASSUME NEW j \in Jobs, WorkerStep(j)
      PROVE  LockInv'
  <2> DEFINE s == job[j].source
  <2>1. /\ worker[j].pc # "none" /\ UNCHANGED <<thread, edit>>
        /\ \A k \in Jobs : k # j => worker'[k] = worker[k]
        /\ lock[s] = <<j, "worker">> /\ s \in Sources
    BY <1>2, <1>6, WorkerEffect DEF LockInv, LockOfWorker
  <2>2. CASE UNCHANGED lock
    <3>1. LockOfWorker'
      BY <1>3, <2>1, <2>2 DEF LockInv, LockOfWorker
    <3> QED
      BY <2>1, <2>2, <3>1 DEF LockInv, LockOfThread, LockOfEdit
  <2>3. CASE worker'[j].pc = "none" /\ lock' = [lock EXCEPT ![s] = NoOne] /\ UNCHANGED job
    <3>1. lock'[s] = NoOne /\ \A r \in Sources : r # s => lock'[r] = lock[r]
      BY <1>1, <2>1, <2>3
    <3> HIDE DEF s
    <3>2. LockOfThread'
      BY <1>2, <2>1, <3>1, Holders DEF LockInv, LockOfThread
    <3>3. LockOfWorker'
      BY <1>2, <2>1, <2>3, <3>1, Holders DEF LockInv, LockOfWorker
    <3>4. LockOfEdit'
      BY <2>1, <3>1, Holders DEF LockInv, LockOfEdit
    <3> QED
      BY <3>2, <3>3, <3>4 DEF LockInv
  <2> QED
    BY <1>6, <2>2, <2>3, WorkerEffect
<1>7. ASSUME NEW s \in Sources, NEW p \in Servers, ResetCheckpoint(p, s)
      PROVE  LockInv'
  <2>1. lock[s] = NoOne /\ UNCHANGED <<thread, worker, job>>
    BY <1>7 DEF ResetCheckpoint, MayEdit, tables
  <2>2. lock'[s] = <<p, "edit">> /\ \A r \in Sources : r # s => lock'[r] = lock[r]
    BY <1>1, <1>7 DEF ResetCheckpoint
  <2>3. \A r \in Sources : r # s => edit'[r] = edit[r]
    BY <1>1, <1>7 DEF ResetCheckpoint
  <2>4. LockOfThread'
    BY <1>2, <2>1, <2>2, Holders DEF LockInv, LockOfThread
  <2>5. LockOfWorker'
    <3> SUFFICES ASSUME NEW k \in Jobs, worker'[k].pc # "none"
                 PROVE  lock'[job'[k].source] = <<k, "worker">>
      BY DEF LockOfWorker
    <3>1. worker[k].pc # "none" /\ lock[job[k].source] = <<k, "worker">>
      BY <2>1 DEF LockInv, LockOfWorker, IdleWorker
    <3>2. job'[k].source = job[k].source /\ job[k].source \in Sources
      BY <1>2, <1>3, <3>1
    <3>3. job[k].source # s
      BY <3>1, <2>1, Holders
    <3> QED
      BY <3>1, <3>2, <3>3, <2>2
  <2>6. LockOfEdit'
    BY <2>2, <2>3 DEF LockInv, LockOfEdit
  <2> QED
    BY <2>4, <2>5, <2>6 DEF LockInv
<1>8. ASSUME NEW s \in Sources, PurgeDocuments(s)
      PROVE  LockInv'
  <2>1. UNCHANGED <<lock, thread, worker, job>> /\ edit[s] # "none"
    BY <1>8 DEF PurgeDocuments, tables, threads
  <2>2. \A r \in Sources : r # s => edit'[r] = edit[r]
    BY <1>1, <1>8 DEF PurgeDocuments
  <2>3. LockOfEdit'
    BY <2>1, <2>2 DEF LockInv, LockOfEdit
  <2> QED
    BY <2>1, <2>3 DEF LockInv, LockOfThread, LockOfWorker
<1>9. ASSUME NEW s \in Sources, WriteConfig(s) \/ Delete(s)
      PROVE  LockInv'
  <2>1. PICK p \in Servers : lock[s] = <<p, "edit">>
    BY <1>9 DEF WriteConfig, Delete, LockInv, LockOfEdit
  <2>2. /\ UNCHANGED <<thread, worker>> /\ edit' = [edit EXCEPT ![s] = "none"]
        /\ lock' = [lock EXCEPT ![s] = NoOne]
    BY <1>9 DEF WriteConfig, Delete
  <2>3. /\ lock'[s] = NoOne /\ \A r \in Sources : r # s => lock'[r] = lock[r]
        /\ edit'[s] = "none" /\ \A r \in Sources : r # s => edit'[r] = edit[r]
    BY <1>1, <2>2
  <2>4. LockOfThread'
    BY <1>2, <2>1, <2>2, <2>3, Holders DEF LockInv, LockOfThread
  <2>5. LockOfWorker'
    <3> SUFFICES ASSUME NEW k \in Jobs, worker'[k].pc # "none"
                 PROVE  lock'[job'[k].source] = <<k, "worker">>
      BY DEF LockOfWorker
    <3>1. worker[k].pc # "none" /\ lock[job[k].source] = <<k, "worker">>
      BY <2>2 DEF LockInv, LockOfWorker, IdleWorker
    <3>2. job'[k].source = job[k].source /\ job[k].source \in Sources
      BY <1>2, <1>3, <3>1
    <3>3. job[k].source # s
      BY <3>1, <2>1, Holders
    <3> QED
      BY <3>1, <3>2, <3>3, <2>3
  <2>6. LockOfEdit'
    BY <2>3 DEF LockInv, LockOfEdit
  <2> QED
    BY <2>4, <2>5, <2>6 DEF LockInv
<1>10. ASSUME NEW p \in Servers, Exit(p)
       PROVE  LockInv'
  <2>1. /\ \A t \in Thread : thread'[t] = IF t[1] = p THEN IdleThread ELSE thread[t]
        /\ \A j \in Jobs : worker'[j] = IF worker[j].server = p THEN IdleWorker ELSE worker[j]
        /\ \A s \in Sources : lock'[s] = IF lock[s] \in HeldBy(p) THEN NoOne ELSE lock[s]
        /\ \A s \in Sources : edit'[s] = IF lock[s] = <<p, "edit">> THEN "none" ELSE edit[s]
    BY <1>10 DEF Exit
  <2>2. ASSUME NEW t \in Thread, t[1] # p
        PROVE  t \notin HeldBy(p)
    BY <2>2, Holders DEF HeldBy
  <2>3. ASSUME NEW j \in Jobs, worker[j].server # p
        PROVE  <<j, "worker">> \notin HeldBy(p)
    BY <2>3, Holders DEF HeldBy
  <2>4. ASSUME NEW q \in Servers, q # p
        PROVE  <<q, "edit">> \notin HeldBy(p)
    BY <2>4, Holders DEF HeldBy
  <2>5. LockOfThread'
    BY <1>2, <2>1, <2>2 DEF LockInv, LockOfThread, IdleThread, Holding
  <2>6. LockOfWorker'
    <3> SUFFICES ASSUME NEW k \in Jobs, worker'[k].pc # "none"
                 PROVE  lock'[job'[k].source] = <<k, "worker">>
      BY DEF LockOfWorker
    <3>1. worker[k].server # p /\ worker[k].pc # "none"
      BY <2>1 DEF IdleWorker
    <3>2. lock[job[k].source] = <<k, "worker">> /\ job'[k].source = job[k].source
      BY <1>3, <3>1 DEF LockInv, LockOfWorker
    <3>3. lock'[job[k].source] = lock[job[k].source]
      BY <1>2, <2>1, <2>3, <3>1, <3>2
    <3> QED
      BY <3>2, <3>3
  <2>7. LockOfEdit'
    <3> SUFFICES ASSUME NEW s \in Sources, edit'[s] # "none"
                 PROVE  \E q \in Servers : lock'[s] = <<q, "edit">>
      BY DEF LockOfEdit
    <3>1. edit[s] # "none" /\ lock[s] # <<p, "edit">>
      BY <2>1
    <3>2. PICK q \in Servers : lock[s] = <<q, "edit">>
      BY <3>1 DEF LockInv, LockOfEdit
    <3> QED
      BY <2>1, <2>4, <3>1, <3>2
  <2> QED
    BY <2>5, <2>6, <2>7 DEF LockInv
<1>11. CASE Quiet
  <2>1. UNCHANGED <<thread, lock, edit>> /\ \A k \in Jobs : worker'[k].pc = worker[k].pc
    BY <1>11, QuietEffect, QuietWorkers
  <2>2. LockOfWorker'
    BY <1>3, <2>1 DEF LockInv, LockOfWorker
  <2> QED
    BY <2>1, <2>2 DEF LockInv, LockOfThread, LockOfEdit
<1>12. CASE UNCHANGED vars
  BY <1>12 DEF vars, tables, threads, procs, LockInv, LockOfThread, LockOfWorker, LockOfEdit
<1> QED
  BY <1>4, <1>5, <1>6, <1>7, <1>8, <1>9, <1>10, <1>11, <1>12, NextCases DEF EditStep

LEMMA JobStep ==
    ASSUME TypeOK, JobInv, [Next]_vars
    PROVE  JobInv'
<1>1. /\ thread \in [Thread -> ThreadRec] /\ worker \in [Jobs -> Worker] /\ job \in [Jobs -> Job]
      /\ TypeOK'
  BY TypeStep DEF TypeOK, JobInv
<1>2. \A k \in Jobs : job[k].state # "absent"
        => job'[k].state # "absent" /\ job'[k].source = job[k].source
  BY RowsKept DEF JobInv
<1>3. ASSUME \A t \in Thread : \/ thread'[t].pc \notin {"slot", "claim", "launch"}
                               \/ thread'[t] = thread[t]
      PROVE  JobOfThread'
  BY <1>2, <1>3 DEF JobInv, JobOfThread
<1>4. ASSUME \A k \in Jobs : worker'[k].pc # "none" => worker[k].pc # "none"
      PROVE  JobOfWorker'
  BY <1>2, <1>4 DEF JobInv, JobOfWorker
<1>5. ASSUME NEW p \in Servers, NEW t \in Thread, Asks(p, t)
      PROVE  JobInv'
  <2>1. UNCHANGED worker /\ (Rests(t) \/ (Takes(t) /\ UNCHANGED job))
    BY <1>5, AskEffect DEF Asks
  <2>2. JobOfWorker'
    BY <1>4, <2>1
  <2>3. CASE Rests(t)
    BY <1>3, <2>2, <2>3 DEF Rests, Loop, JobInv
  <2>4. CASE Takes(t) /\ UNCHANGED job
    BY <2>2, <2>4 DEF Takes, RowOf, JobInv, JobOfThread
  <2> QED
    BY <2>1, <2>3, <2>4
<1>6. ASSUME NEW t \in Thread, StartStep(t)
      PROVE  JobInv'
  <2>1. CASE Gives(t) \/ Answers(t)
    BY <1>3, <1>4, <2>1 DEF Gives, Answers, Rests, Loop, JobInv
  <2>2. CASE Acquires(t)
    BY <1>4, <2>2 DEF Acquires, Goes, JobInv, JobOfThread
  <2>3. CASE Creates(t)
    <3>1. /\ thread'[t].job \in Jobs
          /\ job'[thread'[t].job] = [NoJobRow EXCEPT !.state = "queued",
                          !.source = thread[t].source, !.revision = thread[t].revision]
      BY <1>1, <2>3 DEF Creates
    <3>2. /\ job'[thread'[t].job].state = "queued"
          /\ job'[thread'[t].job].source = thread[t].source
      BY <3>1 DEF NoJobRow
    <3>3. JobOfThread'
      BY <1>2, <2>3, <3>1, <3>2 DEF Creates, Goes, JobInv, JobOfThread
    <3> QED
      BY <1>4, <2>3, <3>3 DEF Creates, JobInv
  <2>4. CASE Claims(t)
    BY <1>2, <1>4, <2>4 DEF Claims, Goes, JobInv, JobOfThread
  <2>5. CASE Launches(t)
    <3>1. JobOfThread'
      BY <1>3, <2>5 DEF Launches, Goes
    <3>2. /\ \A k \in Jobs : k # thread[t].job => worker'[k] = worker[k]
          /\ thread[t].job \in Jobs /\ job[thread[t].job].state # "absent"
      BY <1>1, <2>5 DEF Launches, JobInv, JobOfThread
    <3>3. JobOfWorker'
      BY <1>2, <3>2 DEF JobInv, JobOfWorker
    <3> QED
      BY <3>1, <3>3 DEF JobInv
  <2> QED
    BY <1>6, <2>1, <2>2, <2>3, <2>4, <2>5, StartEffect
<1>7. ASSUME NEW j \in Jobs, WorkerStep(j)
      PROVE  JobInv'
  BY <1>3, <1>4, <1>7, WorkerEffect DEF JobInv
<1>8. ASSUME NEW s \in Sources, EditStep(s) \/ \E p \in Servers : ResetCheckpoint(p, s)
      PROVE  JobInv'
  <2>1. UNCHANGED <<thread, worker>>
    BY <1>8 DEF EditStep, PurgeDocuments, WriteConfig, Delete, ResetCheckpoint, threads
  <2> QED
    BY <1>3, <1>4, <2>1 DEF JobInv
<1>9. ASSUME NEW p \in Servers, Exit(p)
      PROVE  JobInv'
  BY <1>3, <1>4, <1>9 DEF Exit, IdleThread, IdleWorker, JobInv
<1>10. CASE Quiet
  BY <1>3, <1>4, <1>10, QuietEffect, QuietWorkers DEF JobInv
<1>11. CASE UNCHANGED vars
  BY <1>3, <1>4, <1>11 DEF vars, threads, JobInv
<1> QED
  BY <1>5, <1>6, <1>7, <1>8, <1>9, <1>10, <1>11, NextCases

LEMMA InitLocks == Init => LockInv /\ JobInv
BY DEF Init, LockInv, LockOfThread, LockOfWorker, LockOfEdit, JobInv, JobOfThread, JobOfWorker,
   IdleThread, IdleWorker, Holding

\* Rows, locks, locals and documents are of the types SourceSync declares.
THEOREM TypeCorrect == Spec => []TypeOK
<1>1. TypeOK /\ LockInv /\ JobInv /\ [Next]_vars => (TypeOK /\ LockInv /\ JobInv)'
  BY TypeStep, LockStep, JobStep DEF JobInv
<1>2. Init => TypeOK /\ LockInv /\ JobInv
  BY InitTypes, InitLocks
<1> QED
  BY <1>1, <1>2, PTL DEF Spec

LEMMA Locked == Spec => [](TypeOK /\ LockInv /\ JobInv)
<1>1. TypeOK /\ LockInv /\ JobInv /\ [Next]_vars => (TypeOK /\ LockInv /\ JobInv)'
  BY TypeStep, LockStep, JobStep DEF JobInv
<1>2. Init => TypeOK /\ LockInv /\ JobInv
  BY InitTypes, InitLocks
<1> QED
  BY <1>1, <1>2, PTL DEF Spec

\* No two syncs, and no sync and update, migration or removal, write the
\* checkpoint and the documents of a source at once: whoever does holds its lock
\* (_locked), across processes, hand-overs to a worker and exits.
THEOREM OneWriterAtATime == Spec => []OneWriter
<1>1. TypeOK /\ LockInv => OneWriter
  <2> SUFFICES ASSUME TypeOK, LockInv, NEW s \in Sources, NEW j \in Writing(s)
               PROVE  Writing(s) = {j} /\ edit[s] = "none"
    BY DEF OneWriter
  <2>1. \A k \in Writing(s) : k \in Jobs /\ lock[s] = <<k, "worker">>
    BY DEF Writing, Sync, LockInv, LockOfWorker
  <2>2. Writing(s) = {j}
    BY <2>1, Holders
  <2>3. edit[s] = "none"
    BY <2>1, Holders DEF LockInv, LockOfEdit
  <2> QED
    BY <2>2, <2>3
<1> QED
  BY <1>1, Locked, PTL
=============================================================================
