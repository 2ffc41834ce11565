--------------------------- MODULE SourceSyncProofs ---------------------------
(***************************************************************************)
(* Proofs about SourceSync, for every set of servers, sources and documents, *)
(* on the locks of SourceSyncLocks: the rows of jobs, the commit protocol,    *)
(* the rows of sources, the documents, the table's bound, the slots and the   *)
(* life of a sync.                                                            *)
(***************************************************************************)
EXTENDS SourceSyncLocks

------------------------------------------------------------------------------
(* The row of a job.                                                         *)

\* What can happen to the rows of jobs.
LEMMA JobChange ==
    ASSUME TypeOK, [Next]_vars
    PROVE  \/ UNCHANGED job
           \/ Drops
           \/ \E t \in Thread : Gives(t) /\ thread[t].pc = "launch" /\ Finish(thread[t].job, "failed")
           \/ \E t \in Thread : Creates(t) \/ Claims(t)
           \/ \E j \in Jobs : WorkerBeginCommit(j) \/ WorkerFinish(j)
           \/ \E s \in Sources : Cancel(s) \/ Delete(s)
<1>1. CASE \E p \in Servers, t \in Thread : Asks(p, t)
  BY <1>1, AskEffect DEF Asks
<1>2. CASE \E t \in Thread : StartStep(t)
  BY <1>2, StartEffect DEF Gives, Acquires, Launches, Answers
<1>3. CASE \E j \in Jobs : WorkerStep(j)
  BY <1>3 DEF WorkerStep, WorkerBegin, WorkerIngest, WorkerCancelled, WorkerFails,
     WorkerReconcile, WorkerSave, WorkerConclude, WorkerRelease, End, tables
<1>4. CASE \E s \in Sources : EditStep(s) \/ \E p \in Servers : ResetCheckpoint(p, s)
  BY <1>4 DEF EditStep, PurgeDocuments, WriteConfig, ResetCheckpoint, tables
<1>5. CASE \E p \in Servers : Exit(p)
  BY <1>5 DEF Exit, tables
<1>6. CASE Quiet
  BY <1>6 DEF Quiet, ListRead, ListRepair, Stop, Restart, Share, IntervalPasses, SetSchedule,
     Update, Publish, Remove, tables
<1>7. CASE UNCHANGED vars
  BY <1>7 DEF vars, tables
<1> QED
  BY <1>1, <1>2, <1>3, <1>4, <1>5, <1>6, <1>7, NextCases

LEMMA ClaimRow ==
    ASSUME TypeOK, JobInv, NEW t \in Thread, Claims(t)
    PROVE  LET j == thread[t].job
           IN  /\ j \in Jobs /\ job[j].source = thread[t].source
               /\ job[j].state = "queued" /\ job'[j].state = "running"
               /\ ~job[j].cancel
               /\ job'[j].source = job[j].source
               /\ job'[j].cancel <=> job[j].cancel
               /\ job'[j].committing <=> job[j].committing
               /\ \A k \in Jobs : k # j => job'[k] = job[k]
<1> DEFINE j == thread[t].job
<1>1. /\ j \in Jobs /\ job[j].source = thread[t].source
      /\ job[j].state = "queued" /\ ~job[j].cancel
  BY DEF Claims, JobInv, JobOfThread, MayClaim
<1>2. job \in [Jobs -> Job] /\ job[j] \in Job
  BY <1>1 DEF TypeOK
<1>3. /\ job'[j] = [job[j] EXCEPT !.state = "running"]
      /\ \A k \in Jobs : k # j => job'[k] = job[k]
  BY <1>1, <1>2 DEF Claims
<1>4. /\ job'[j].state = "running" /\ job'[j].source = job[j].source
      /\ job'[j].cancel <=> job[j].cancel
      /\ job'[j].committing <=> job[j].committing
  BY <1>2, <1>3, RowChanges
<1> QED
  BY <1>1, <1>3, <1>4

LEMMA CreateRow ==
    ASSUME TypeOK, NEW t \in Thread, Creates(t)
    PROVE  LET j == thread'[t].job
           IN  /\ j \in Jobs /\ job[j].state = "absent" /\ job'[j].state = "queued"
               /\ job'[j].source = thread[t].source
               /\ ~job'[j].cancel /\ ~job'[j].committing
               /\ \A k \in Jobs : k # j => job'[k] = job[k]
<1> DEFINE j == thread'[t].job
<1>1. /\ j \in Jobs /\ job[j].state = "absent"
      /\ job' = [job EXCEPT ![j] = [NoJobRow EXCEPT !.state = "queued",
                 !.source = thread[t].source, !.revision = thread[t].revision]]
  BY DEF Creates
<1> HIDE DEF j
<1>2. /\ job'[j] = [NoJobRow EXCEPT !.state = "queued",
                 !.source = thread[t].source, !.revision = thread[t].revision]
      /\ \A k \in Jobs : k # j => job'[k] = job[k]
  BY <1>1 DEF TypeOK
<1>3. /\ job'[j].state = "queued" /\ job'[j].source = thread[t].source
      /\ ~job'[j].cancel /\ ~job'[j].committing
  BY <1>2 DEF NoJobRow
<1> QED
  BY <1>1, <1>2, <1>3 DEF j

LEMMA CommitRow ==
    ASSUME TypeOK, NEW j \in Jobs, WorkerBeginCommit(j)
    PROVE  /\ worker[j].pc = "read" /\ job[j].state = "running" /\ ~job[j].cancel
           /\ job'[j].state = "running" /\ job'[j].source = job[j].source
           /\ ~job'[j].cancel /\ job'[j].committing
           /\ \A k \in Jobs : k # j => job'[k] = job[k]
<1>1. job \in [Jobs -> Job] /\ job[j] \in Job
  BY DEF TypeOK
<1>2. worker[j].pc = "read" /\ job[j].state = "running" /\ ~job[j].cancel
  BY DEF WorkerBeginCommit, MayCommit, Step
<1>3. /\ job'[j] = [job[j] EXCEPT !.committing = TRUE]
      /\ \A k \in Jobs : k # j => job'[k] = job[k]
  BY <1>1 DEF WorkerBeginCommit
<1>4. /\ job'[j].state = job[j].state /\ job'[j].source = job[j].source
      /\ job'[j].cancel <=> job[j].cancel
      /\ job'[j].committing
  BY <1>1, <1>3 DEF Job
<1> QED
  BY <1>2, <1>3, <1>4

LEMMA CancelRow ==
    ASSUME TypeOK, NEW s \in Sources, Cancel(s)
    PROVE  \E j \in Jobs :
             /\ job[j].source = s /\ job[j].state \in Open /\ ~job[j].committing
             /\ job'[j].source = s /\ job'[j].cancel /\ ~job'[j].committing
             /\ \/ job[j].state = "running" /\ job'[j].state = "running" /\ UNCHANGED source
                \/ /\ job[j].state = "queued" /\ job'[j].state = "cancelled"
                   /\ source' = [source EXCEPT ![s].state = "cancelled"]
             /\ \A k \in Jobs : k # j => job'[k] = job[k]
<1>1. PICK j \in OpenOf(s) :
        /\ MayCancel(j)
        /\ \/ /\ job[j].state = "queued"
              /\ job' = [job EXCEPT ![j].state = "cancelled", ![j].cancel = TRUE]
              /\ source' = [source EXCEPT ![s].state = "cancelled"]
           \/ /\ job[j].state = "running"
              /\ job' = [job EXCEPT ![j].cancel = TRUE]
              /\ UNCHANGED source
  BY DEF Cancel
<1>2. j \in Jobs /\ job[j].source = s /\ job[j].state \in Open /\ ~job[j].committing
  BY <1>1 DEF OpenOf, MayCancel
<1>3. job \in [Jobs -> Job] /\ job[j] \in Job
  BY <1>2 DEF TypeOK
<1>4. CASE /\ job[j].state = "queued"
           /\ job' = [job EXCEPT ![j].state = "cancelled", ![j].cancel = TRUE]
           /\ source' = [source EXCEPT ![s].state = "cancelled"]
  <2>1. /\ job'[j] = [job[j] EXCEPT !.state = "cancelled", !.cancel = TRUE]
        /\ \A k \in Jobs : k # j => job'[k] = job[k]
    BY <1>2, <1>3, <1>4
  <2>2. /\ job'[j].state = "cancelled" /\ job'[j].source = job[j].source /\ job'[j].cancel
        /\ job'[j].committing <=> job[j].committing
    BY <1>3, <2>1 DEF Job
  <2> QED
    BY <1>2, <1>4, <2>1, <2>2
<1>5. CASE /\ job[j].state = "running"
           /\ job' = [job EXCEPT ![j].cancel = TRUE]
           /\ UNCHANGED source
  <2>1. /\ job'[j] = [job[j] EXCEPT !.cancel = TRUE]
        /\ \A k \in Jobs : k # j => job'[k] = job[k]
    BY <1>2, <1>3, <1>5
  <2>2. /\ job'[j].state = job[j].state /\ job'[j].source = job[j].source /\ job'[j].cancel
        /\ job'[j].committing <=> job[j].committing
    BY <1>3, <2>1 DEF Job
  <2> QED
    BY <1>2, <1>5, <2>1, <2>2
<1> QED
  BY <1>1, <1>4, <1>5

LEMMA DeleteRows ==
    ASSUME TypeOK, NEW s \in Sources, Delete(s)
    PROVE  \A k \in Jobs :
             /\ job'[k].source = job[k].source
             /\ job'[k].cancel <=> job[k].cancel
             /\ job'[k].committing <=> job[k].committing
             /\ job[k].source # s => job'[k] = job[k]
             /\ \/ job'[k].state = job[k].state
                \/ RowOf(k) /\ job'[k].state = "deleted"
<1> SUFFICES ASSUME NEW k \in Jobs
             PROVE  /\ job'[k].source = job[k].source
                    /\ job'[k].cancel <=> job[k].cancel
                    /\ job'[k].committing <=> job[k].committing
                    /\ job[k].source # s => job'[k] = job[k]
                    /\ \/ job'[k].state = job[k].state
                       \/ RowOf(k) /\ job'[k].state = "deleted"
  OBVIOUS
<1>1. job[k] \in Job
  BY DEF TypeOK
<1>2. job'[k] = IF RowOf(k) /\ job[k].source = s
                THEN [job[k] EXCEPT !.state = "deleted"] ELSE job[k]
  BY DEF Delete
<1>3. CASE RowOf(k) /\ job[k].source = s
  <2>1. job'[k] = [job[k] EXCEPT !.state = "deleted"]
    BY <1>2, <1>3
  <2> QED
    BY <1>1, <1>3, <2>1, RowChanges
<1>4. CASE ~(RowOf(k) /\ job[k].source = s)
  BY <1>2, <1>4
<1> QED
  BY <1>3, <1>4

\* A worker or a thread about to start one holds the lock for job k.
Minds(k) == \/ worker[k].pc # "none"
            \/ \E t \in Thread : thread[t].pc = "launch" /\ thread[t].job = k

LEMMA Minded ==
    ASSUME TypeOK, LockInv, JobInv, NEW k \in Jobs, Minds(k)
    PROVE  /\ lock[job[k].source] # NoOne
           /\ \A p \in Servers : lock[job[k].source] # <<p, "edit">>
           /\ edit[job[k].source] = "none"
<1>1. \/ lock[job[k].source] = <<k, "worker">>
      \/ \E t \in Thread : lock[job[k].source] = t
  BY DEF Minds, LockInv, LockOfThread, LockOfWorker, Holding, JobInv, JobOfThread
<1>2. /\ lock[job[k].source] # NoOne
      /\ \A p \in Servers : lock[job[k].source] # <<p, "edit">>
  BY <1>1, Holders
<1>3. job[k].source \in Sources
  BY DEF TypeOK, Job
<1> QED
  BY <1>2, <1>3 DEF LockInv, LockOfEdit

LEMMA RowStays ==
    ASSUME TypeOK, LockInv, JobInv, [Next]_vars, NEW k \in Jobs,
           job[k].state = "running", Minds(k), ~WorkerFinish(k),
           ~ \E t \in Thread : Gives(t) /\ thread[t].pc = "launch" /\ thread[t].job = k
    PROVE  /\ job'[k].state = "running" /\ job'[k].source = job[k].source
           /\ (job'[k].committing <=> job[k].committing) \/ WorkerBeginCommit(k)
           /\ (job'[k].cancel <=> job[k].cancel) \/ ~job'[k].committing
<1> DEFINE Stays == /\ job'[k].state = "running" /\ job'[k].source = job[k].source
                    /\ (job'[k].committing <=> job[k].committing) \/ WorkerBeginCommit(k)
                    /\ (job'[k].cancel <=> job[k].cancel) \/ ~job'[k].committing
<1>1. CASE job'[k] = job[k]
  BY <1>1
<1>2. ASSUME NEW j \in Jobs, NEW state \in Final, Finish(j, state), j # k
      PROVE  Stays
  BY <1>2, FinishEffect DEF Final
<1>3. CASE UNCHANGED job
  BY <1>1, <1>3
<1>4. CASE Drops
  BY <1>2, <1>4, Minded DEF Drops, Final
<1>5. ASSUME NEW t \in Thread, Gives(t), thread[t].pc = "launch", Finish(thread[t].job, "failed")
      PROVE  Stays
  BY <1>2, <1>5 DEF Final, JobInv, JobOfThread
<1>6. ASSUME NEW t \in Thread, Creates(t) \/ Claims(t)
      PROVE  Stays
  BY <1>1, <1>6, CreateRow, ClaimRow
<1>7. ASSUME NEW j \in Jobs, WorkerBeginCommit(j)
      PROVE  Stays
  BY <1>1, <1>7, CommitRow
<1>8. ASSUME NEW j \in Jobs, WorkerFinish(j)
      PROVE  Stays
  BY <1>2, <1>8 DEF WorkerFinish, TypeOK, Worker
<1>9. ASSUME NEW s \in Sources, Cancel(s)
      PROVE  Stays
  BY <1>1, <1>9, CancelRow
<1>10. ASSUME NEW s \in Sources, Delete(s)
       PROVE  Stays
  <2>1. job[k].source # s
    BY <1>10, Minded DEF Delete
  <2> QED
    BY <1>1, <1>10, <2>1, DeleteRows
<1> QED
  BY <1>3, <1>4, <1>5, <1>6, <1>7, <1>8, <1>9, <1>10, JobChange

LEMMA LaunchPc ==
    ASSUME TypeOK, [Next]_vars, NEW t \in Thread, thread'[t].pc = "launch"
    PROVE  \/ Claims(t)
           \/ thread'[t] = thread[t] /\ ~Gives(t) /\ ~Launches(t)
<1> DEFINE Goal == Claims(t) \/ (thread'[t] = thread[t] /\ ~Gives(t) /\ ~Launches(t))
<1>1. ~Gives(t) /\ ~Launches(t)
  BY DEF Gives, Rests, Loop, Launches, Goes
<1>2. CASE thread'[t] = thread[t]
  BY <1>1, <1>2
<1>3. ASSUME NEW p \in Servers, NEW u \in Thread, Asks(p, u)
      PROVE  Goal
  BY <1>2, <1>3, AskEffect DEF Asks, Rests, Takes, Loop
<1>4. ASSUME NEW u \in Thread, StartStep(u)
      PROVE  Goal
  BY <1>2, <1>4, StartEffect DEF Gives, Acquires, Creates, Claims, Launches, Answers, Goes, Rests, Loop
<1>5. ASSUME NEW j \in Jobs, WorkerStep(j)
      PROVE  Goal
  BY <1>2, <1>5, WorkerEffect
<1>6. CASE \E s \in Sources : EditStep(s) \/ \E p \in Servers : ResetCheckpoint(p, s)
  BY <1>2, <1>6 DEF EditStep, PurgeDocuments, WriteConfig, Delete, ResetCheckpoint, threads
<1>7. ASSUME NEW p \in Servers, Exit(p)
      PROVE  Goal
  BY <1>2, <1>7 DEF Exit, IdleThread
<1>8. CASE Quiet
  BY <1>2, <1>8, QuietEffect
<1>9. CASE UNCHANGED vars
  BY <1>2, <1>9 DEF vars, threads
<1> QED
  BY <1>3, <1>4, <1>5, <1>6, <1>7, <1>8, <1>9, NextCases

\* A worker starts, takes a step of its own, or keeps its place (what was at
\* the origin when it began may be superseded meanwhile).
LEMMA WorkerPc ==
    ASSUME TypeOK, JobInv, [Next]_vars, NEW k \in Jobs, worker'[k].pc # "none"
    PROVE  \/ \E t \in Thread : Launches(t) /\ thread[t].job = k /\ worker'[k].pc = "begin"
           \/ WorkerStep(k)
           \/ worker'[k].pc = worker[k].pc /\ worker'[k].outcome = worker[k].outcome
<1> DEFINE Same == worker'[k].pc = worker[k].pc /\ worker'[k].outcome = worker[k].outcome
<1>1. CASE worker'[k] = worker[k]
  BY <1>1
<1>2. ASSUME NEW p \in Servers, NEW u \in Thread, Asks(p, u)
      PROVE  Same
  BY <1>1, <1>2, AskEffect DEF Asks
<1>3. ASSUME NEW u \in Thread, StartStep(u), ~Launches(u)
      PROVE  Same
  BY <1>1, <1>3, StartEffect DEF Gives, Acquires, Creates, Claims, Answers
<1>4. ASSUME NEW u \in Thread, Launches(u)
      PROVE  \/ Same
             \/ thread[u].job = k /\ worker'[k].pc = "begin"
  <2>1. PICK p \in Servers : worker' = [worker EXCEPT ![thread[u].job] =
                                     [IdleWorker EXCEPT !.pc = "begin", !.server = p]]
    BY <1>4 DEF Launches
  <2>2. [IdleWorker EXCEPT !.pc = "begin", !.server = p].pc = "begin"
    BY DEF IdleWorker
  <2> QED
    BY <1>1, <2>1, <2>2 DEF TypeOK
<1>5. ASSUME NEW j \in Jobs, WorkerStep(j), j # k
      PROVE  Same
  BY <1>1, <1>5, WorkerEffect
<1>6. CASE \E s \in Sources : EditStep(s) \/ \E p \in Servers : ResetCheckpoint(p, s)
  BY <1>1, <1>6 DEF EditStep, PurgeDocuments, WriteConfig, Delete, ResetCheckpoint, threads
<1>7. ASSUME NEW p \in Servers, Exit(p)
      PROVE  Same
  BY <1>1, <1>7 DEF Exit, IdleWorker
<1>8. CASE Quiet
  BY <1>8, QuietWorkers
<1>9. CASE UNCHANGED vars
  BY <1>1, <1>9 DEF vars, threads
<1> QED
  BY <1>2, <1>3, <1>4, <1>5, <1>6, <1>7, <1>8, <1>9, NextCases

------------------------------------------------------------------------------
(* Jobs that run.                                                            *)

\* A source has one open job.
OneOpen == \A j, k \in Jobs :
    job[j].state \in Open /\ job[k].state \in Open /\ job[j].source = job[k].source => j = k

\* A claimed job stays as it is until its worker starts.
Launching == \A t \in Thread : thread[t].pc = "launch"
    => job[thread[t].job].state = "running" /\ ~job[thread[t].job].committing

\* Only a running job commits.
CommittingRuns == \A j \in Jobs : job[j].committing => job[j].state \in {"running", "deleted"}

RunInv == OneOpen /\ Launching /\ CommittingRuns /\ AliveIsRunning

LEMMA OpenStep ==
    ASSUME TypeOK, JobInv, OneOpen, [Next]_vars
    PROVE  OneOpen'
<1>1. ASSUME \A k \in Jobs : job'[k].state \in Open
               => job[k].state \in Open /\ job'[k].source = job[k].source
      PROVE  OneOpen'
  BY <1>1 DEF OneOpen
<1>2. \A k \in Jobs : job[k].state \in Open => job'[k].source = job[k].source
  BY RowsKept DEF JobInv, Open
<1>3. ASSUME NEW j \in Jobs, NEW state \in Final, Finish(j, state)
      PROVE  OneOpen'
  <2>1. \A k \in Jobs : job'[k].state \in Open => job[k].state \in Open
    BY <1>3, FinishEffect DEF Open, Final
  <2> QED
    BY <1>1, <1>2, <2>1
<1>4. CASE UNCHANGED job
  BY <1>1, <1>4
<1>5. CASE Drops
  BY <1>3, <1>5 DEF Drops, Final
<1>6. ASSUME NEW t \in Thread, Gives(t), thread[t].pc = "launch", Finish(thread[t].job, "failed")
      PROVE  OneOpen'
  BY <1>3, <1>6 DEF Final, JobInv, JobOfThread
<1>7. ASSUME NEW t \in Thread, Creates(t)
      PROVE  OneOpen'
  <2>1. \A k \in Jobs : ~(job[k].state \in Open /\ job[k].source = thread[t].source)
    BY <1>7 DEF Creates, OpenOf
  <2> QED
    BY <1>7, <2>1, CreateRow DEF OneOpen
<1>8. ASSUME NEW t \in Thread, Claims(t)
      PROVE  OneOpen'
  BY <1>1, <1>8, ClaimRow DEF Open
<1>9. ASSUME NEW j \in Jobs, WorkerBeginCommit(j)
      PROVE  OneOpen'
  BY <1>1, <1>9, CommitRow DEF Open
<1>10. ASSUME NEW j \in Jobs, WorkerFinish(j)
       PROVE  OneOpen'
  BY <1>3, <1>10 DEF WorkerFinish, TypeOK, Worker
<1>11. ASSUME NEW s \in Sources, Cancel(s)
       PROVE  OneOpen'
  BY <1>1, <1>11, CancelRow DEF Open
<1>12. ASSUME NEW s \in Sources, Delete(s)
       PROVE  OneOpen'
  BY <1>1, <1>12, DeleteRows DEF Open
<1> QED
  BY <1>4, <1>5, <1>6, <1>7, <1>8, <1>9, <1>10, <1>11, <1>12, JobChange

LEMMA CommittingStep ==
    ASSUME TypeOK, JobInv, CommittingRuns, [Next]_vars
    PROVE  CommittingRuns'
<1>1. ASSUME NEW k \in Jobs, job'[k] = job[k]
      PROVE  job'[k].committing => job'[k].state \in {"running", "deleted"}
  BY <1>1 DEF CommittingRuns
<1>2. ASSUME NEW j \in Jobs, NEW state \in Final, Finish(j, state)
      PROVE  CommittingRuns'
  BY <1>2, FinishEffect DEF CommittingRuns, Final
<1>3. CASE UNCHANGED job
  BY <1>3 DEF CommittingRuns
<1>4. CASE Drops
  BY <1>2, <1>4 DEF Drops, Final
<1>5. ASSUME NEW t \in Thread, Gives(t), thread[t].pc = "launch", Finish(thread[t].job, "failed")
      PROVE  CommittingRuns'
  BY <1>2, <1>5 DEF Final, JobInv, JobOfThread
<1>6. ASSUME NEW t \in Thread, Creates(t)
      PROVE  CommittingRuns'
  BY <1>1, <1>6, CreateRow DEF CommittingRuns
<1>7. ASSUME NEW t \in Thread, Claims(t)
      PROVE  CommittingRuns'
  BY <1>1, <1>7, ClaimRow DEF CommittingRuns
<1>8. ASSUME NEW j \in Jobs, WorkerBeginCommit(j)
      PROVE  CommittingRuns'
  BY <1>1, <1>8, CommitRow DEF CommittingRuns
<1>9. ASSUME NEW j \in Jobs, WorkerFinish(j)
      PROVE  CommittingRuns'
  BY <1>2, <1>9 DEF WorkerFinish, TypeOK, Worker
<1>10. ASSUME NEW s \in Sources, Cancel(s)
       PROVE  CommittingRuns'
  BY <1>1, <1>10, CancelRow DEF CommittingRuns
<1>11. ASSUME NEW s \in Sources, Delete(s)
       PROVE  CommittingRuns'
  BY <1>11, DeleteRows DEF CommittingRuns
<1> QED
  BY <1>3, <1>4, <1>5, <1>6, <1>7, <1>8, <1>9, <1>10, <1>11, JobChange

LEMMA LaunchingStep ==
    ASSUME TypeOK, LockInv, JobInv, Launching, CommittingRuns, [Next]_vars
    PROVE  Launching'
<1> SUFFICES ASSUME NEW t \in Thread, thread'[t].pc = "launch"
             PROVE  job'[thread'[t].job].state = "running" /\ ~job'[thread'[t].job].committing
  BY DEF Launching
<1>1. CASE Claims(t)
  BY <1>1, ClaimRow DEF Claims, CommittingRuns
<1>2. CASE thread'[t] = thread[t] /\ ~Gives(t)
  <2> DEFINE k == thread[t].job
  <2>1. /\ thread[t].pc = "launch" /\ k \in Jobs /\ job[k].state = "running" /\ ~job[k].committing
        /\ lock[thread[t].source] = t /\ job[k].source = thread[t].source
    BY <1>2 DEF Launching, JobInv, JobOfThread, LockInv, LockOfThread, Holding
  <2>2. Minds(k)
    BY <2>1 DEF Minds
  <2>3. worker[k].pc = "none"
    BY <2>1, Holders DEF LockInv, LockOfWorker
  <2>4. ~WorkerFinish(k) /\ ~WorkerBeginCommit(k)
    BY <2>3 DEF WorkerFinish, WorkerBeginCommit, Step
  <2>5. ASSUME NEW u \in Thread, Gives(u), thread[u].pc = "launch", thread[u].job = k
        PROVE  FALSE
    <3>1. lock[job[k].source] = u
      BY <2>5 DEF LockInv, LockOfThread, Holding, JobInv, JobOfThread
    <3> QED
      BY <1>2, <2>1, <2>5, <3>1
  <2> QED
    BY <1>2, <2>1, <2>2, <2>4, <2>5, RowStays
<1> QED
  BY <1>1, <1>2, LaunchPc

\* The thread of no start_sync ends a job whose worker lives.
LEMMA LiveRowStays ==
    ASSUME TypeOK, LockInv, JobInv, [Next]_vars, NEW k \in Jobs,
           job[k].state = "running", worker[k].pc # "none", ~WorkerFinish(k)
    PROVE  /\ job'[k].state = "running" /\ job'[k].source = job[k].source
           /\ (job'[k].committing <=> job[k].committing) \/ WorkerBeginCommit(k)
           /\ (job'[k].cancel <=> job[k].cancel) \/ ~job'[k].committing
<1>1. ASSUME NEW u \in Thread, Gives(u), thread[u].pc = "launch", thread[u].job = k
      PROVE  FALSE
  <2>1. lock[job[k].source] = u
    BY <1>1 DEF LockInv, LockOfThread, Holding, JobInv, JobOfThread
  <2>2. lock[job[k].source] = <<k, "worker">>
    BY DEF LockInv, LockOfWorker
  <2> QED
    BY <2>1, <2>2, Holders
<1> QED
  BY <1>1, RowStays DEF Minds

LEMMA AliveStep ==
    ASSUME TypeOK, LockInv, JobInv, Launching, AliveIsRunning, [Next]_vars
    PROVE  AliveIsRunning'
<1> SUFFICES ASSUME NEW k \in Jobs, worker'[k].pc \in Sync \cup {"finish"}
             PROVE  job'[k].state = "running"
  BY DEF AliveIsRunning
<1>1. ASSUME NEW t \in Thread, Launches(t), thread[t].job = k
      PROVE  job'[k].state = "running"
  BY <1>1 DEF Launches, Launching
<1>2. ASSUME worker[k].pc \in Sync \cup {"finish"}, ~WorkerFinish(k)
      PROVE  job'[k].state = "running"
  BY <1>2, LiveRowStays DEF AliveIsRunning, Sync
<1>3. WorkerFinish(k) => worker'[k].pc = "release"
  BY DEF WorkerFinish, Step, TypeOK, Worker
<1>4. CASE WorkerStep(k)
  <2>1. worker[k].pc \in Sync \cup {"finish"} \/ WorkerRelease(k)
    BY <1>4 DEF WorkerStep, WorkerBegin, WorkerIngest, WorkerCancelled, WorkerFails,
       WorkerBeginCommit, WorkerReconcile, WorkerSave, WorkerConclude, WorkerFinish, Step, Sync
  <2>2. ~WorkerRelease(k)
    BY DEF WorkerRelease, IdleWorker, Sync, TypeOK
  <2> QED
    BY <1>2, <1>3, <2>1, <2>2 DEF Sync
<1>5. CASE worker'[k].pc = worker[k].pc
  BY <1>2, <1>3, <1>5 DEF Sync
<1> QED
  BY <1>1, <1>4, <1>5, WorkerPc DEF Sync

\* Only begin_commit makes a job commit.
LEMMA OnlyBeginCommit ==
    ASSUME TypeOK, JobInv, [Next]_vars, NEW k \in Jobs,
           ~job[k].committing, ~WorkerBeginCommit(k)
    PROVE  ~job'[k].committing
<1>1. CASE job'[k] = job[k]
  BY <1>1
<1>2. ASSUME NEW j \in Jobs, NEW state \in Final, Finish(j, state)
      PROVE  ~job'[k].committing
  BY <1>2, FinishEffect
<1>3. CASE UNCHANGED job
  BY <1>3
<1>4. CASE Drops
  BY <1>2, <1>4 DEF Drops, Final
<1>5. ASSUME NEW t \in Thread, Gives(t), thread[t].pc = "launch", Finish(thread[t].job, "failed")
      PROVE  ~job'[k].committing
  BY <1>2, <1>5 DEF Final, JobInv, JobOfThread
<1>6. ASSUME NEW t \in Thread, Creates(t) \/ Claims(t)
      PROVE  ~job'[k].committing
  BY <1>1, <1>6, CreateRow, ClaimRow
<1>7. ASSUME NEW j \in Jobs, WorkerBeginCommit(j)
      PROVE  ~job'[k].committing
  BY <1>1, <1>7, CommitRow
<1>8. ASSUME NEW j \in Jobs, WorkerFinish(j)
      PROVE  ~job'[k].committing
  BY <1>2, <1>8 DEF WorkerFinish, TypeOK, Worker
<1>9. ASSUME NEW s \in Sources, Cancel(s)
      PROVE  ~job'[k].committing
  BY <1>1, <1>9, CancelRow
<1>10. ASSUME NEW s \in Sources, Delete(s)
       PROVE  ~job'[k].committing
  BY <1>10, DeleteRows
<1> QED
  BY <1>3, <1>4, <1>5, <1>6, <1>7, <1>8, <1>9, <1>10, JobChange

\* begin_commit and cancel look at one row: a sync commits before it changes
\* anything it cannot take back, and is not cancelled from then on.
Commits(k) ==
    /\ worker[k].pc \in {"begin", "read", "release"} => ~job[k].committing
    /\ worker[k].pc \in {"commit", "save", "conclude"} => job[k].committing /\ ~job[k].cancel
    /\ worker[k].pc = "finish" /\ worker[k].outcome = "succeeded"
         => job[k].committing /\ ~job[k].cancel
    /\ worker[k].pc = "finish" /\ worker[k].outcome = "cancelled" => ~job[k].committing
CommitInv == \A k \in Jobs : Commits(k)

LEMMA WorkerRow ==
    ASSUME TypeOK, NEW k \in Jobs, WorkerStep(k)
    PROVE  \/ worker[k].pc = "begin" /\ worker'[k].pc = "read" /\ UNCHANGED job
           \/ worker[k].pc = "read" /\ worker'[k].pc = "read" /\ UNCHANGED job
           \/ /\ worker[k].pc \in Sync /\ worker'[k].pc = "finish" /\ UNCHANGED job
              /\ \/ worker'[k].outcome = "failed"
                 \/ worker'[k].outcome = "cancelled" /\ job[k].cancel /\ worker[k].pc = "read"
                 \/ worker'[k].outcome = "cancelled" /\ job[k].cancel /\ worker[k].pc = "conclude"
                 \/ worker'[k].outcome = "succeeded" /\ worker[k].pc = "conclude"
           \/ WorkerBeginCommit(k) /\ worker'[k].pc = "commit"
           \/ worker[k].pc = "commit" /\ worker'[k].pc = "save" /\ UNCHANGED job
           \/ worker[k].pc = "save" /\ worker'[k].pc = "conclude" /\ UNCHANGED job
           \/ WorkerFinish(k) /\ worker[k].pc = "finish" /\ worker'[k].pc = "release"
           \/ worker[k].pc = "release" /\ worker'[k].pc = "none" /\ UNCHANGED job
<1>1. worker \in [Jobs -> Worker] /\ worker[k] \in Worker
  BY DEF TypeOK
<1>2. \A from, to : Step(k, from, to) => worker[k].pc = from /\ worker'[k].pc = to
  <2> SUFFICES ASSUME NEW from, NEW to, Step(k, from, to)
               PROVE  worker[k].pc = from /\ worker'[k].pc = to
    OBVIOUS
  <2>1. worker'[k] = [worker[k] EXCEPT !.pc = to]
    BY <1>1 DEF Step
  <2> QED
    BY <1>1, <2>1 DEF Step, Worker
<1>3. \A outcome : End(k, outcome)
        => worker'[k].pc = "finish" /\ worker'[k].outcome = outcome /\ UNCHANGED job
  <2> SUFFICES ASSUME NEW outcome, End(k, outcome)
               PROVE  worker'[k].pc = "finish" /\ worker'[k].outcome = outcome /\ UNCHANGED job
    OBVIOUS
  <2>1. worker'[k] = [worker[k] EXCEPT !.pc = "finish", !.outcome = outcome] /\ UNCHANGED job
    BY <1>1 DEF End
  <2> QED
    BY <1>1, <2>1 DEF Worker
<1>4. CASE WorkerBegin(k)
  <2>1. worker'[k] = [worker[k] EXCEPT !.pc = "read", !.started = remote[job[k].source],
                                       !.seen = {}]
    BY <1>1, <1>4 DEF WorkerBegin
  <2> QED
    BY <1>1, <1>4, <2>1 DEF WorkerBegin, Worker
<1>5. CASE WorkerIngest(k)
  <2>1. PICK batch : worker' = [worker EXCEPT ![k].seen = @ \cup batch]
    BY <1>5 DEF WorkerIngest
  <2>2. worker'[k] = [worker[k] EXCEPT !.seen = @ \cup batch]
    BY <1>1, <2>1
  <2> QED
    BY <1>1, <1>5, <2>2 DEF WorkerIngest, Worker, tables
<1>6. CASE WorkerCancelled(k) \/ WorkerFails(k) \/ WorkerConclude(k)
  BY <1>3, <1>6 DEF WorkerCancelled, WorkerFails, WorkerConclude, Sync
<1>7. CASE WorkerBeginCommit(k)
  BY <1>2, <1>7 DEF WorkerBeginCommit
<1>8. CASE WorkerReconcile(k) \/ WorkerSave(k)
  BY <1>2, <1>8 DEF WorkerReconcile, WorkerSave, tables
<1>9. CASE WorkerFinish(k)
  BY <1>2, <1>9 DEF WorkerFinish
<1>10. CASE WorkerRelease(k)
  BY <1>1, <1>10 DEF WorkerRelease, IdleWorker, tables
<1> QED
  BY <1>4, <1>5, <1>6, <1>7, <1>8, <1>9, <1>10 DEF WorkerStep

LEMMA CommitStep ==
    ASSUME TypeOK, LockInv, JobInv, RunInv, CommitInv, [Next]_vars
    PROVE  CommitInv'
<1> SUFFICES ASSUME NEW k \in Jobs
             PROVE  Commits(k)'
  BY DEF CommitInv
<1>0. Commits(k)
  BY DEF CommitInv
<1>1. CASE worker'[k].pc = "none"
  BY <1>1 DEF Commits
<1>2. ASSUME NEW t \in Thread, Launches(t), thread[t].job = k, worker'[k].pc = "begin"
      PROVE  Commits(k)'
  BY <1>2 DEF Commits, Launches, RunInv, Launching
<1>3. CASE WorkerStep(k)
  <2>1. CASE WorkerBeginCommit(k) /\ worker'[k].pc = "commit"
    BY <2>1, CommitRow DEF Commits
  <2>2. CASE WorkerFinish(k) /\ worker'[k].pc = "release"
    <3>1. worker[k].outcome \in Final /\ Finish(k, worker[k].outcome)
      BY <2>2 DEF WorkerFinish, TypeOK, Worker
    <3>2. ~job'[k].committing
      BY <3>1, FinishEffect
    <3> QED
      BY <2>2, <3>2 DEF Commits
  <2>3. CASE UNCHANGED job /\ ~WorkerBeginCommit(k) /\ ~WorkerFinish(k)
    BY <1>0, <1>3, <2>3, WorkerRow DEF Commits, Sync
  <2>4. WorkerBeginCommit(k) => worker'[k].pc = "commit"
    BY DEF WorkerBeginCommit, Step, TypeOK, Worker
  <2>5. WorkerFinish(k) => worker'[k].pc = "release"
    BY DEF WorkerFinish, Step, TypeOK, Worker
  <2> QED
    BY <1>3, <2>1, <2>2, <2>3, <2>4, <2>5, WorkerRow
<1>4. CASE /\ worker'[k].pc = worker[k].pc /\ worker'[k].outcome = worker[k].outcome
           /\ worker[k].pc # "none" /\ ~WorkerStep(k)
  <2>1. ~WorkerFinish(k) /\ ~WorkerBeginCommit(k)
    BY <1>4 DEF WorkerStep
  <2>2. ~job[k].committing => ~job'[k].committing
    BY <2>1, OnlyBeginCommit
  <2>3. CASE worker[k].pc \in Sync \cup {"finish"}
    <3>1. job[k].state = "running"
      BY <2>3 DEF RunInv, AliveIsRunning
    <3>2. /\ job'[k].committing <=> job[k].committing
          /\ (job'[k].cancel <=> job[k].cancel) \/ ~job'[k].committing
      BY <1>4, <2>1, <3>1, LiveRowStays
    <3> QED
      BY <1>0, <1>4, <3>2 DEF Commits
  <2>4. CASE worker[k].pc \notin Sync \cup {"finish"}
    BY <1>0, <1>4, <2>2, <2>4 DEF Commits, Sync
  <2> QED
    BY <2>3, <2>4
<1> QED
  BY <1>1, <1>2, <1>3, <1>4, WorkerPc DEF RunInv

\* What has ended stays so.
LEMMA EndedStays ==
    ASSUME TypeOK, JobInv, [Next]_vars, NEW k \in Jobs, job[k].state \in Final \cup {"deleted"}
    PROVE  job'[k].state \in Final \cup {"deleted"}
<1>1. CASE job'[k] = job[k]
  BY <1>1
<1>2. ASSUME NEW j \in Jobs, NEW state \in Final, Finish(j, state)
      PROVE  job'[k].state \in Final \cup {"deleted"}
  BY <1>2, FinishEffect
<1>3. CASE UNCHANGED job
  BY <1>3
<1>4. CASE Drops
  BY <1>2, <1>4 DEF Drops, Final
<1>5. ASSUME NEW t \in Thread, Gives(t), thread[t].pc = "launch", Finish(thread[t].job, "failed")
      PROVE  job'[k].state \in Final \cup {"deleted"}
  BY <1>2, <1>5 DEF Final, JobInv, JobOfThread
<1>6. ASSUME NEW t \in Thread, Creates(t) \/ Claims(t)
      PROVE  job'[k].state \in Final \cup {"deleted"}
  BY <1>1, <1>6, CreateRow, ClaimRow DEF Final
<1>7. ASSUME NEW j \in Jobs, WorkerBeginCommit(j)
      PROVE  job'[k].state \in Final \cup {"deleted"}
  BY <1>1, <1>7, CommitRow DEF Final
<1>8. ASSUME NEW j \in Jobs, WorkerFinish(j)
      PROVE  job'[k].state \in Final \cup {"deleted"}
  BY <1>2, <1>8 DEF WorkerFinish, TypeOK, Worker
<1>9. ASSUME NEW s \in Sources, Cancel(s)
      PROVE  job'[k].state \in Final \cup {"deleted"}
  BY <1>1, <1>9, CancelRow DEF Open, Final
<1>10. ASSUME NEW s \in Sources, Delete(s)
       PROVE  job'[k].state \in Final \cup {"deleted"}
  BY <1>10, DeleteRows
<1> QED
  BY <1>3, <1>4, <1>5, <1>6, <1>7, <1>8, <1>9, <1>10, JobChange

LEMMA CancelledStep ==
    ASSUME TypeOK, LockInv, JobInv, CommitInv, CancelledNeverSucceeds, [Next]_vars
    PROVE  CancelledNeverSucceeds'
<1> SUFFICES ASSUME NEW k \in Jobs, job'[k].cancel
             PROVE  job'[k].state # "succeeded"
  BY DEF CancelledNeverSucceeds
<1>1. CASE job'[k] = job[k]
  BY <1>1 DEF CancelledNeverSucceeds
<1>2. ASSUME NEW j \in Jobs, NEW state \in Final, Finish(j, state), state = "succeeded" => ~job[j].cancel
      PROVE  job'[k].state # "succeeded"
  <2>1. /\ job[k].cancel
        /\ \/ k = j
           \/ job'[k].state = job[k].state
           \/ job'[k].state = "deleted"
        /\ job'[j].state \in {state, "deleted"}
    BY <1>2, FinishEffect
  <2> QED
    BY <1>2, <2>1 DEF CancelledNeverSucceeds
<1>3. CASE UNCHANGED job
  BY <1>1, <1>3
<1>4. CASE Drops
  BY <1>2, <1>4 DEF Drops, Final
<1>5. ASSUME NEW t \in Thread, Gives(t), thread[t].pc = "launch", Finish(thread[t].job, "failed")
      PROVE  job'[k].state # "succeeded"
  BY <1>2, <1>5 DEF Final, JobInv, JobOfThread
<1>6. ASSUME NEW t \in Thread, Creates(t) \/ Claims(t)
      PROVE  job'[k].state # "succeeded"
  BY <1>1, <1>6, CreateRow, ClaimRow
<1>7. ASSUME NEW j \in Jobs, WorkerBeginCommit(j)
      PROVE  job'[k].state # "succeeded"
  BY <1>1, <1>7, CommitRow
<1>8. ASSUME NEW j \in Jobs, WorkerFinish(j)
      PROVE  job'[k].state # "succeeded"
  <2>1. /\ worker[j].pc = "finish" /\ worker[j].outcome \in Final
        /\ Finish(j, worker[j].outcome)
    BY <1>8 DEF WorkerFinish, Step, TypeOK, Worker
  <2>2. worker[j].outcome = "succeeded" => ~job[j].cancel
    BY <2>1 DEF CommitInv, Commits
  <2> QED
    BY <1>2, <2>1, <2>2
<1>9. ASSUME NEW s \in Sources, Cancel(s)
      PROVE  job'[k].state # "succeeded"
  BY <1>1, <1>9, CancelRow
<1>10. ASSUME NEW s \in Sources, Delete(s)
       PROVE  job'[k].state # "succeeded"
  BY <1>10, DeleteRows DEF CancelledNeverSucceeds
<1> QED
  BY <1>3, <1>4, <1>5, <1>6, <1>7, <1>8, <1>9, <1>10, JobChange

JobsInv == TypeOK /\ LockInv /\ JobInv /\ RunInv /\ CommitInv /\ CancelledNeverSucceeds

LEMMA JobsInvStep == JobsInv /\ [Next]_vars => JobsInv'
BY TypeStep, LockStep, JobStep, OpenStep, LaunchingStep, CommittingStep, AliveStep, CommitStep,
   CancelledStep DEF JobsInv, JobInv, RunInv

LEMMA InitJobs == Init => JobsInv
<1> SUFFICES ASSUME Init
             PROVE  JobsInv
  OBVIOUS
<1>1. TypeOK /\ LockInv /\ JobInv
  BY InitTypes, InitLocks
<1>2. /\ \A j \in Jobs : job[j] = NoJobRow /\ worker[j] = IdleWorker
      /\ \A t \in Thread : thread[t] = IdleThread
  BY DEF Init
<1>3. RunInv
  BY <1>2 DEF RunInv, OneOpen, Launching, CommittingRuns, AliveIsRunning, NoJobRow, IdleWorker,
     IdleThread, Open, Sync
<1>4. CommitInv /\ CancelledNeverSucceeds
  BY <1>2 DEF CommitInv, Commits, CancelledNeverSucceeds, NoJobRow, IdleWorker
<1> QED
  BY <1>1, <1>3, <1>4 DEF JobsInv

LEMMA JobsInvariant == Spec => []JobsInv
BY JobsInvStep, InitJobs, PTL DEF Spec

\* While a worker lives its job is running: the probe of tick and start_sync of a
\* queued job find a lock held, and finish() of another job prunes ended rows only.
THEOREM AliveRuns == Spec => []AliveIsRunning
<1>1. JobsInv => AliveIsRunning
  BY DEF JobsInv, RunInv
<1> QED
  BY <1>1, JobsInvariant, PTL

\* A sync whose cancellation was accepted never ends as succeeded: cancel refuses
\* a committing job, and begin_commit a cancelled one.
THEOREM CancellationWins == Spec => []CancelledNeverSucceeds
<1>1. JobsInv => CancelledNeverSucceeds
  BY DEF JobsInv
<1> QED
  BY <1>1, JobsInvariant, PTL

\* A job that commits is never reported cancelled while its worker lives, by
\* stop_jobs, by tick or by the end of the sync.
THEOREM CommitWins == Spec => CommittingNeverCancelled
<1>1. ASSUME JobsInv, [Next]_vars, NEW k \in Jobs, job[k].committing, worker[k].pc # "none"
      PROVE  job'[k].state # "cancelled"
  <2>1. Commits(k) /\ worker[k].pc \in Sync \cup {"finish", "release"}
    BY <1>1 DEF JobsInv, CommitInv, TypeOK, Worker
  <2>2. worker[k].pc \in Sync \cup {"finish"} /\ job[k].state = "running"
    BY <1>1, <2>1 DEF Commits, JobsInv, RunInv, AliveIsRunning
  <2>3. CASE WorkerFinish(k)
    <3>1. /\ worker[k].pc = "finish" /\ worker[k].outcome \in Final
          /\ Finish(k, worker[k].outcome)
      BY <1>1, <2>3 DEF WorkerFinish, Step, JobsInv, TypeOK, Worker
    <3>2. worker[k].outcome # "cancelled"
      BY <1>1, <2>1, <3>1 DEF Commits
    <3> QED
      BY <1>1, <3>1, <3>2, FinishEffect DEF JobsInv
  <2>4. CASE ~WorkerFinish(k)
    BY <1>1, <2>2, <2>4, LiveRowStays DEF JobsInv
  <2> QED
    BY <2>3, <2>4
<1>2. JobsInv /\ [Next]_vars =>
        [\A j \in Jobs : job[j].committing /\ worker[j].pc # "none" => job'[j].state # "cancelled"]_vars
  BY <1>1
<1> QED
  BY <1>2, JobsInvariant, PTL DEF Spec, CommittingNeverCancelled

\* A job that has ended, or whose row is gone, never runs again: finish() writes by
\* id alone, but only by whoever holds the job or finds it dead under the lock.
THEOREM EndedForGood == Spec => NeverReopens
<1>1. ASSUME JobsInv, [Next]_vars, NEW k \in Jobs, job[k].state \in Final \cup {"deleted"}
      PROVE  /\ job'[k].state \in Final \cup {"deleted"}
             /\ worker[k].pc = "none" => worker'[k].pc = "none"
  <2>1. job'[k].state \in Final \cup {"deleted"}
    BY <1>1, EndedStays DEF JobsInv
  <2>2. ASSUME worker[k].pc = "none", worker'[k].pc # "none"
        PROVE  FALSE
    <3>1. ~WorkerStep(k)
      BY <1>1, <2>2, WorkerEffect DEF JobsInv
    <3>2. PICK t \in Thread : Launches(t) /\ thread[t].job = k
      BY <1>1, <2>2, <3>1, WorkerPc DEF JobsInv
    <3>3. job[k].state = "running"
      BY <1>1, <3>2 DEF Launches, JobsInv, RunInv, Launching
    <3> QED
      BY <1>1, <3>3 DEF Final
  <2> QED
    BY <2>1, <2>2
<1>2. JobsInv /\ [Next]_vars =>
        [\A j \in Jobs : job[j].state \in Final \cup {"deleted"}
          => job'[j].state \in Final \cup {"deleted"}
             /\ (worker[j].pc = "none" => worker'[j].pc = "none")]_vars
  BY <1>1
<1> QED
  BY <1>2, JobsInvariant, PTL DEF Spec, NeverReopens

------------------------------------------------------------------------------
(* The row of a source.                                                      *)

\* A step that shows another state of one source.
Shows(s, state) == source' = [source EXCEPT ![s].state = state]

LEMMA ShowsEffect ==
    ASSUME TypeOK, NEW r \in Sources, NEW state, Shows(r, state)
    PROVE  \A s \in Sources :
             /\ source'[s].present <=> source[s].present
             /\ source'[s].enabled <=> source[s].enabled
             /\ source'[s].snapshot <=> source[s].snapshot
             /\ s = r => source'[s].state = state
             /\ s # r => source'[s] = source[s]
<1> SUFFICES ASSUME NEW s \in Sources
             PROVE  /\ source'[s].present <=> source[s].present
                    /\ source'[s].enabled <=> source[s].enabled
                    /\ source'[s].snapshot <=> source[s].snapshot
                    /\ s = r => source'[s].state = state
                    /\ s # r => source'[s] = source[s]
  OBVIOUS
<1>1. source \in [Sources -> Source] /\ source[s] \in Source
  BY DEF TypeOK
<1>2. CASE s = r
  <2>1. source'[s] = [source[s] EXCEPT !.state = state]
    BY <1>1, <1>2 DEF Shows
  <2>2. source'[s].state = state
    BY <1>1, <2>1 DEF Source
  <2>3. /\ source'[s].present <=> source[s].present
        /\ source'[s].enabled <=> source[s].enabled
        /\ source'[s].snapshot <=> source[s].snapshot
    BY <1>1, <2>1, RowChanges
  <2> QED
    BY <1>2, <2>2, <2>3
<1>3. CASE s # r
  <2>1. source'[s] = source[s]
    BY <1>1, <1>3 DEF Shows
  <2> QED
    BY <1>3, <2>1
<1> QED
  BY <1>2, <1>3

LEMMA SourceChange ==
    ASSUME TypeOK, [Next]_vars
    PROVE  \/ UNCHANGED source
           \/ Drops
           \/ \E t \in Thread : Gives(t) /\ thread[t].pc = "launch" /\ Finish(thread[t].job, "failed")
           \/ \E t \in Thread : /\ thread[t].pc \in Holding
                                /\ \E state : Shows(thread[t].source, state)
           \/ \E j \in Jobs : WorkerStep(j) /\ \E state : Shows(job[j].source, state)
           \/ \E s \in Sources : Cancel(s) \/ Share(s) \/ WriteConfig(s) \/ Delete(s)
           \/ \E s \in Sources, on \in BOOLEAN : Update(s, on)
           \/ \E s \in Sources : lock[s] = NoOne /\ Shows(s, "error")
<1>1. CASE \E p \in Servers, t \in Thread : Asks(p, t)
  BY <1>1, AskEffect DEF Asks
<1>2. ASSUME NEW t \in Thread, StartStep(t)
      PROVE  \/ UNCHANGED source
             \/ Gives(t) /\ thread[t].pc = "launch" /\ Finish(thread[t].job, "failed")
             \/ /\ thread[t].pc \in Holding
                /\ \E state : Shows(thread[t].source, state)
  BY <1>2, StartEffect DEF Gives, Acquires, Creates, Claims, Launches, Answers, Shows, Holding
<1>3. ASSUME NEW j \in Jobs, WorkerStep(j)
      PROVE  UNCHANGED source \/ \E state : Shows(job[j].source, state)
  <2>1. CASE WorkerFinish(j)
    BY <2>1 DEF WorkerFinish, Finish, Shows
  <2>2. \A outcome : End(j, outcome) => \E state : Shows(job[j].source, state)
    BY DEF End, Shows
  <2>3. CASE WorkerCancelled(j) \/ WorkerFails(j) \/ WorkerConclude(j)
    BY <2>2, <2>3 DEF WorkerCancelled, WorkerFails, WorkerConclude
  <2>4. CASE WorkerBegin(j)
    BY <2>4 DEF WorkerBegin, Shows
  <2>5. CASE \/ WorkerIngest(j) \/ WorkerBeginCommit(j) \/ WorkerReconcile(j)
             \/ WorkerSave(j) \/ WorkerRelease(j)
    BY <2>5 DEF WorkerIngest, WorkerBeginCommit, WorkerReconcile, WorkerSave, WorkerRelease, tables
  <2> QED
    BY <1>3, <2>1, <2>3, <2>4, <2>5 DEF WorkerStep
<1>4. CASE \E s \in Sources : EditStep(s) \/ \E p \in Servers : ResetCheckpoint(p, s)
  BY <1>4 DEF EditStep, PurgeDocuments, ResetCheckpoint, tables
<1>5. CASE \E p \in Servers : Exit(p)
  BY <1>5 DEF Exit, tables
<1>6. CASE Quiet
  <2>1. CASE \E p \in Servers : ListRepair(p)
    BY <2>1 DEF ListRepair, Interrupted, Shows
  <2>2. CASE \E p \in Servers : ListRead(p) \/ Stop(p) \/ Restart(p)
    BY <2>2 DEF ListRead, Stop, Restart, tables
  <2>3. CASE \E s \in Sources : Cancel(s) \/ Share(s)
    BY <2>3
  <2>4. CASE \E s \in Sources : IntervalPasses(s) \/ \E on \in BOOLEAN : SetSchedule(s, on)
    BY <2>4 DEF IntervalPasses, SetSchedule
  <2>5. CASE \E s \in Sources : \E on \in BOOLEAN : Update(s, on)
    BY <2>5
  <2>6. CASE \E s \in Sources, d \in Docs : Publish(s, d) \/ Remove(s, d)
    BY <2>6 DEF Publish, Remove, tables
  <2> QED
    BY <1>6, <2>1, <2>2, <2>3, <2>4, <2>5, <2>6 DEF Quiet
<1>7. CASE UNCHANGED vars
  BY <1>7 DEF vars, tables
<1> QED
  BY <1>1, <1>2, <1>3, <1>4, <1>5, <1>6, <1>7, NextCases

\* Share, Update, WriteConfig and Delete change one row.
LEMMA RowOfSource ==
    ASSUME TypeOK, NEW r \in Sources,
           Share(r) \/ WriteConfig(r) \/ Delete(r) \/ \E on \in BOOLEAN : Update(r, on)
    PROVE  /\ \A s \in Sources : s # r => source'[s] = source[s]
           /\ Share(r) => /\ source'[r].present <=> source[r].present
                          /\ source'[r].enabled <=> source[r].enabled
                          /\ source'[r].snapshot <=> source[r].snapshot
                          /\ source'[r].state = source[r].state
<1>1. source \in [Sources -> Source] /\ source[r] \in Source
  BY DEF TypeOK
<1>2. \A s \in Sources : s # r => source'[s] = source[s]
  BY <1>1 DEF Share, WriteConfig, Delete, Update
<1>3. ASSUME Share(r)
      PROVE  /\ source'[r].present <=> source[r].present
             /\ source'[r].enabled <=> source[r].enabled
             /\ source'[r].snapshot <=> source[r].snapshot
             /\ source'[r].state = source[r].state
  <2>1. source'[r] = [source[r] EXCEPT !.revision = @ + 1]
    BY <1>1, <1>3 DEF Share
  <2> QED
    BY <1>1, <2>1 DEF Source
<1> QED
  BY <1>2, <1>3

\* What a sync has checked of its source stays true while it holds the lock.
LEMMA SourceStays ==
    ASSUME TypeOK, LockInv, JobInv, [Next]_vars, NEW s \in Sources,
           lock[s] # NoOne, \A p \in Servers : lock[s] # <<p, "edit">>
    PROVE  /\ source'[s].present <=> source[s].present
           /\ source'[s].enabled <=> source[s].enabled
           /\ source'[s].snapshot <=> source[s].snapshot
<1> DEFINE Stays == /\ source'[s].present <=> source[s].present
                    /\ source'[s].enabled <=> source[s].enabled
                    /\ source'[s].snapshot <=> source[s].snapshot
<1>1. CASE source'[s] = source[s]
  BY <1>1
<1>2. ASSUME NEW j \in Jobs, NEW state \in Final, Finish(j, state)
      PROVE  Stays
  BY <1>2, FinishEffect
<1>3. ASSUME NEW r \in Sources, NEW state, Shows(r, state)
      PROVE  Stays
  BY <1>3, ShowsEffect
<1>4. CASE UNCHANGED source
  BY <1>1, <1>4
<1>5. CASE Drops
  BY <1>2, <1>5 DEF Drops, Final
<1>6. ASSUME NEW t \in Thread, Gives(t), thread[t].pc = "launch", Finish(thread[t].job, "failed")
      PROVE  Stays
  BY <1>2, <1>6 DEF Final, JobInv, JobOfThread
<1>7. ASSUME NEW t \in Thread, NEW state, Shows(thread[t].source, state)
      PROVE  Stays
  BY <1>3, <1>7 DEF TypeOK, ThreadRec
<1>8. ASSUME NEW j \in Jobs, NEW state, Shows(job[j].source, state)
      PROVE  Stays
  BY <1>3, <1>8 DEF TypeOK, Job
<1>9. ASSUME NEW r \in Sources, Cancel(r)
      PROVE  Stays
  BY <1>1, <1>3, <1>9, CancelRow DEF Shows
<1>10. ASSUME NEW r \in Sources,
              Share(r) \/ WriteConfig(r) \/ Delete(r) \/ \E on \in BOOLEAN : Update(r, on)
       PROVE  Stays
  <2>1. CASE r # s
    BY <1>1, <1>10, <2>1, RowOfSource
  <2>2. CASE r = s /\ Share(s)
    BY <2>2, RowOfSource
  <2>3. CASE r = s /\ (WriteConfig(s) \/ Delete(s))
    BY <2>3 DEF WriteConfig, Delete, LockInv, LockOfEdit
  <2>4. CASE r = s /\ \E on \in BOOLEAN : Update(s, on)
    BY <2>4 DEF Update, MayEdit
  <2> QED
    BY <1>10, <2>1, <2>2, <2>3, <2>4
<1> QED
  BY <1>3, <1>4, <1>5, <1>6, <1>7, <1>8, <1>9, <1>10, SourceChange

\* Who goes to hold a source has just locked it or held it before.
LEMMA HoldingPc ==
    ASSUME TypeOK, [Next]_vars, NEW t \in Thread, thread'[t].pc \in Holding
    PROVE  \/ Takes(t) /\ UNCHANGED source
           \/ thread[t].pc \in Holding /\ thread'[t].source = thread[t].source
<1> DEFINE Goal == \/ Takes(t) /\ UNCHANGED source
                   \/ thread[t].pc \in Holding /\ thread'[t].source = thread[t].source
<1>1. CASE thread'[t] = thread[t]
  BY <1>1
<1>2. ASSUME NEW p \in Servers, NEW u \in Thread, Asks(p, u)
      PROVE  Goal
  BY <1>1, <1>2, AskEffect DEF Asks, Rests, Takes, Loop, Holding
<1>3. ASSUME NEW u \in Thread, StartStep(u)
      PROVE  Goal
  BY <1>1, <1>3, StartEffect DEF Gives, Acquires, Creates, Claims, Launches, Answers, Goes,
     Rests, Loop, Holding
<1>4. ASSUME NEW j \in Jobs, WorkerStep(j)
      PROVE  Goal
  BY <1>1, <1>4, WorkerEffect
<1>5. CASE \E s \in Sources : EditStep(s) \/ \E p \in Servers : ResetCheckpoint(p, s)
  BY <1>1, <1>5 DEF EditStep, PurgeDocuments, WriteConfig, Delete, ResetCheckpoint, threads
<1>6. ASSUME NEW p \in Servers, Exit(p)
      PROVE  Goal
  BY <1>1, <1>6 DEF Exit, IdleThread, Holding
<1>7. CASE Quiet
  BY <1>1, <1>7, QuietEffect
<1>8. CASE UNCHANGED vars
  BY <1>1, <1>8 DEF vars, threads
<1> QED
  BY <1>2, <1>3, <1>4, <1>5, <1>6, <1>7, <1>8, NextCases

\* Only an enabled source is locked for a sync.
Enabled(s) == source[s].present /\ source[s].enabled
EnabledInv ==
    /\ \A t \in Thread : thread[t].pc \in Holding => Enabled(thread[t].source)
    /\ \A j \in Jobs : worker[j].pc # "none" => Enabled(job[j].source)

LEMMA EnabledStep ==
    ASSUME TypeOK, LockInv, JobInv, EnabledInv, [Next]_vars
    PROVE  EnabledInv'
<1>1. ASSUME NEW t \in Thread, thread'[t].pc \in Holding
      PROVE  source'[thread'[t].source].present /\ source'[thread'[t].source].enabled
  <2>1. CASE Takes(t) /\ UNCHANGED source
    BY <2>1 DEF Takes
  <2>2. CASE thread[t].pc \in Holding /\ thread'[t].source = thread[t].source
    <3>1. lock[thread[t].source] = t /\ thread[t].source \in Sources /\ Enabled(thread[t].source)
      BY <2>2 DEF LockInv, LockOfThread, EnabledInv, TypeOK, ThreadRec
    <3>2. /\ lock[thread[t].source] # NoOne
          /\ \A p \in Servers : lock[thread[t].source] # <<p, "edit">>
      BY <3>1, Holders
    <3> QED
      BY <2>2, <3>1, <3>2, SourceStays DEF Enabled
  <2> QED
    BY <1>1, <2>1, <2>2, HoldingPc
<1>2. ASSUME NEW k \in Jobs, Minds(k), Enabled(job[k].source)
      PROVE  source'[job'[k].source].present /\ source'[job'[k].source].enabled
  <2>1. job'[k].source = job[k].source /\ job[k].source \in Sources
    BY <1>2, RowsKept DEF Minds, JobInv, JobOfThread, JobOfWorker, TypeOK, Job
  <2>2. /\ lock[job[k].source] # NoOne
        /\ \A p \in Servers : lock[job[k].source] # <<p, "edit">>
    BY <1>2, Minded
  <2> QED
    BY <1>2, <2>1, <2>2, SourceStays DEF Enabled
<1>3. ASSUME NEW k \in Jobs, worker'[k].pc # "none"
      PROVE  source'[job'[k].source].present /\ source'[job'[k].source].enabled
  <2>1. CASE worker[k].pc # "none"
    BY <1>2, <2>1 DEF Minds, EnabledInv
  <2>2. CASE \E t \in Thread : Launches(t) /\ thread[t].job = k
    <3>1. PICK t \in Thread : Launches(t) /\ thread[t].job = k
      BY <2>2
    <3>2. /\ thread[t].pc = "launch" /\ Enabled(thread[t].source)
          /\ job[k].source = thread[t].source
      BY <3>1 DEF Launches, Holding, EnabledInv, JobInv, JobOfThread
    <3> QED
      BY <1>2, <3>1, <3>2 DEF Minds
  <2>3. worker[k].pc # "none" \/ \E t \in Thread : Launches(t) /\ thread[t].job = k
    BY <1>3, WorkerPc, WorkerEffect
  <2> QED
    BY <2>1, <2>2, <2>3
<1> QED
  BY <1>1, <1>3 DEF EnabledInv, Enabled

LEMMA ShownStep ==
    ASSUME TypeOK, LockInv, JobInv, RunInv, ShownSyncing, [Next]_vars
    PROVE  ShownSyncing'
<1> SUFFICES ASSUME NEW k \in Jobs, worker'[k].pc \in Sync
             PROVE  source'[job'[k].source].state = "syncing"
  BY DEF ShownSyncing
<1> DEFINE s == job[k].source
<1>1. s \in Sources /\ source \in [Sources -> Source]
  BY DEF TypeOK, Job
<1>2. job[k].state # "absent" => job'[k].source = s
  BY RowsKept DEF JobInv
<1>3. ASSUME NEW t \in Thread, Launches(t), thread[t].job = k
      PROVE  source'[job'[k].source].state = "syncing"
  <2>1. s = thread[t].source /\ UNCHANGED job /\ Shows(s, "syncing")
    BY <1>3 DEF Launches, JobInv, JobOfThread, Shows
  <2> QED
    BY <1>1, <2>1, ShowsEffect
<1>4. CASE worker[k].pc \in Sync /\ WorkerStep(k)
  <2>1. job'[k].source = s /\ source[s].state = "syncing"
    BY <1>2, <1>4 DEF JobInv, JobOfWorker, ShownSyncing, Sync
  <2>2. ~WorkerFinish(k) /\ ~WorkerRelease(k)
    BY <1>4 DEF WorkerFinish, WorkerRelease, Step, Sync
  <2>3. \A outcome : ~End(k, outcome)
    <3> SUFFICES ASSUME NEW outcome, End(k, outcome)
                 PROVE  FALSE
      OBVIOUS
    <3>1. worker'[k] = [worker[k] EXCEPT !.pc = "finish", !.outcome = outcome]
      BY DEF End, TypeOK
    <3> QED
      BY <3>1 DEF TypeOK, Worker, Sync
  <2>4. UNCHANGED source \/ Shows(s, "syncing")
    BY <1>4, <2>2, <2>3 DEF WorkerStep, WorkerCancelled, WorkerFails, WorkerConclude, WorkerBegin,
       Shows, WorkerIngest, WorkerBeginCommit, WorkerReconcile, WorkerSave, tables
  <2> QED
    BY <1>1, <2>1, <2>4, ShowsEffect
<1>5. CASE worker[k].pc \in Sync /\ ~WorkerStep(k)
  <2>1. /\ job'[k].source = s /\ source[s].state = "syncing" /\ lock[s] = <<k, "worker">>
        /\ job[k].state = "running"
    BY <1>2, <1>5 DEF JobInv, JobOfWorker, ShownSyncing, Sync, LockInv, LockOfWorker, RunInv,
       AliveIsRunning
  <2>2. lock[s] # NoOne /\ (\A p \in Servers : lock[s] # <<p, "edit">>)
        /\ (\A t \in Thread : lock[s] # t) /\ \A j \in Jobs : j # k => lock[s] # <<j, "worker">>
    BY <2>1, Holders
  <2>3. CASE source'[s] = source[s]
    BY <2>1, <2>3
  <2>4. ASSUME NEW j \in Jobs, NEW state \in Final, Finish(j, state), job[j].source # s
        PROVE  source'[s] = source[s]
    BY <1>1, <2>4, FinishEffect
  <2>5. ASSUME NEW r \in Sources, NEW state, Shows(r, state), r # s
        PROVE  source'[s] = source[s]
    BY <1>1, <2>5, ShowsEffect
  <2>6. CASE Drops
    BY <2>2, <2>3, <2>4, <2>6 DEF Drops, Final
  <2>7. ASSUME NEW t \in Thread, Gives(t), thread[t].pc = "launch", Finish(thread[t].job, "failed")
        PROVE  source'[s] = source[s]
    <3>1. thread[t].job \in Jobs /\ lock[job[thread[t].job].source] = t
      BY <2>7 DEF JobInv, JobOfThread, LockInv, LockOfThread, Holding
    <3> QED
      BY <2>2, <2>4, <2>7, <3>1 DEF Final
  <2>8. ASSUME NEW t \in Thread, thread[t].pc \in Holding, NEW state, Shows(thread[t].source, state)
        PROVE  source'[s] = source[s]
    <3>1. thread[t].source \in Sources /\ lock[thread[t].source] = t
      BY <2>8 DEF LockInv, LockOfThread, TypeOK, ThreadRec
    <3> QED
      BY <2>2, <2>5, <2>8, <3>1
  <2>9. ASSUME NEW j \in Jobs, WorkerStep(j), NEW state, Shows(job[j].source, state)
        PROVE  source'[s] = source[s]
    <3>1. j # k /\ job[j].source \in Sources /\ lock[job[j].source] = <<j, "worker">>
      BY <1>5, <2>9, WorkerEffect DEF LockInv, LockOfWorker, TypeOK, Job
    <3> QED
      BY <2>2, <2>5, <2>9, <3>1
  <2>10. ASSUME NEW r \in Sources, Cancel(r)
         PROVE  source'[s] = source[s]
    <3>1. PICK j \in Jobs :
            /\ job[j].source = r /\ job[j].state \in Open
            /\ \/ UNCHANGED source
               \/ job[j].state = "queued" /\ Shows(r, "cancelled")
      BY <2>10, CancelRow DEF Shows
    <3>2. CASE UNCHANGED source
      BY <3>2
    <3>3. CASE job[j].state = "queued" /\ Shows(r, "cancelled")
      <4>1. r # s
        BY <2>1, <3>1, <3>3 DEF RunInv, OneOpen, Open
      <4> QED
        BY <2>5, <3>3, <4>1
    <3> QED
      BY <3>1, <3>2, <3>3
  <2>11. ASSUME NEW r \in Sources,
              Share(r) \/ WriteConfig(r) \/ Delete(r) \/ \E on \in BOOLEAN : Update(r, on)
         PROVE  source'[s].state = source[s].state
    <3>1. CASE r # s
      BY <1>1, <2>11, <3>1, RowOfSource
    <3>2. CASE r = s /\ Share(s)
      BY <3>2, RowOfSource
    <3>3. CASE r = s /\ (WriteConfig(s) \/ Delete(s))
      BY <1>1, <2>2, <3>3 DEF WriteConfig, Delete, LockInv, LockOfEdit
    <3>4. CASE r = s /\ \E on \in BOOLEAN : Update(s, on)
      BY <2>2, <3>4 DEF Update, MayEdit
    <3> QED
      BY <2>11, <3>1, <3>2, <3>3, <3>4
  <2>12. ASSUME NEW r \in Sources, lock[r] = NoOne, Shows(r, "error")
         PROVE  source'[s] = source[s]
    BY <2>2, <2>5, <2>12
  <2> QED
    BY <2>1, <2>3, <2>6, <2>7, <2>8, <2>9, <2>10, <2>11, <2>12, SourceChange
<1>6. CASE worker[k].pc \notin Sync
  <2>1. ~WorkerStep(k)
    BY <1>6, WorkerRow, CommitRow DEF Sync
  <2> QED
    BY <1>3, <1>6, <2>1, WorkerPc DEF Sync
<1> QED
  BY <1>4, <1>5, <1>6

------------------------------------------------------------------------------
(* The documents.                                                            *)

\* The steps that touch the origin, the index or the checkpoint.
LEMMA DataChange ==
    ASSUME [Next]_vars
    PROVE  \/ UNCHANGED <<remote, index, covered>>
           \/ \E j \in Jobs : WorkerIngest(j) \/ WorkerReconcile(j) \/ WorkerSave(j)
           \/ \E s \in Sources : \/ PurgeDocuments(s) \/ WriteConfig(s)
                                 \/ \E p \in Servers : ResetCheckpoint(p, s)
                                 \/ \E d \in Docs : Publish(s, d) \/ Remove(s, d)
<1>1. CASE \E p \in Servers, t \in Thread : Asks(p, t)
  BY <1>1 DEF Asks, TickStep, TickBegin, TickProbe, TickListQueued, TickStart, TickListDue,
     TickStartDue, TickEnd, HttpStart, data
<1>2. CASE \E t \in Thread : StartStep(t)
  BY <1>2 DEF StartStep, StartSlot, StartCreate, StartClaim, StartLaunch, StartFailed,
     StartAnswer, data
<1>3. CASE \E j \in Jobs : WorkerStep(j)
  BY <1>3 DEF WorkerStep, WorkerBegin, WorkerCancelled, WorkerFails, WorkerBeginCommit,
     WorkerConclude, WorkerFinish, WorkerRelease, End, data
<1>4. CASE \E s \in Sources : EditStep(s) \/ \E p \in Servers : ResetCheckpoint(p, s)
  BY <1>4 DEF EditStep, Delete, data
<1>5. CASE \E p \in Servers : Exit(p)
  BY <1>5 DEF Exit, data
<1>6. CASE Quiet
  BY <1>6 DEF Quiet, ListRead, ListRepair, Stop, Restart, Cancel, Share, IntervalPasses,
     SetSchedule, Update, data
<1>7. CASE UNCHANGED vars
  BY <1>7 DEF vars, data
<1> QED
  BY <1>1, <1>2, <1>3, <1>4, <1>5, <1>6, <1>7, NextCases

\* What a worker has read changes by its own steps, or because a document does.
LEMMA WorkerSame ==
    ASSUME TypeOK, JobInv, [Next]_vars, NEW k \in Jobs, worker'[k].pc # "none", ~WorkerStep(k),
           ~ \E t \in Thread : Launches(t) /\ thread[t].job = k
    PROVE  worker'[k] = worker[k] \/ \E s \in Sources, d \in Docs : Publish(s, d)
<1>1. ASSUME NEW p \in Servers, NEW u \in Thread, Asks(p, u)
      PROVE  worker'[k] = worker[k]
  BY <1>1, AskEffect DEF Asks
<1>2. ASSUME NEW u \in Thread, StartStep(u), ~Launches(u)
      PROVE  worker'[k] = worker[k]
  BY <1>2, StartEffect DEF Gives, Acquires, Creates, Claims, Answers
<1>3. ASSUME NEW u \in Thread, Launches(u)
      PROVE  worker'[k] = worker[k]
  BY <1>3 DEF Launches, TypeOK
<1>4. ASSUME NEW j \in Jobs, WorkerStep(j)
      PROVE  worker'[k] = worker[k]
  BY <1>4, WorkerEffect
<1>5. CASE \E s \in Sources : EditStep(s) \/ \E p \in Servers : ResetCheckpoint(p, s)
  BY <1>5 DEF EditStep, PurgeDocuments, WriteConfig, Delete, ResetCheckpoint, threads
<1>6. ASSUME NEW p \in Servers, Exit(p)
      PROVE  worker'[k] = worker[k]
  BY <1>6 DEF Exit, IdleWorker
<1>7. CASE Quiet
  BY <1>7 DEF Quiet, ListRead, ListRepair, Stop, Restart, Cancel, Share, IntervalPasses,
     SetSchedule, Update, Remove, threads
<1>8. CASE UNCHANGED vars
  BY <1>8 DEF vars, threads
<1> QED
  BY <1>1, <1>2, <1>3, <1>4, <1>5, <1>6, <1>7, <1>8, NextCases

\* What a sync has read is in the index; what it has not read was not at the
\* origin when it began, or is not skipped; once it commits it has read all.
Reads(k) ==
    LET s == job[k].source
        w == worker[k]
    IN  w.pc \in {"read", "commit", "save"} =>
          /\ w.seen \subseteq index[s]
          /\ covered[s] \cap remote[s] \subseteq w.started
          /\ index[s] \cap remote[s] \subseteq w.started \cup w.seen
          /\ w.pc \in {"commit", "save"} => (w.started \cap remote[s]) \ Skipped(s) \subseteq w.seen

\* An edit empties the checkpoint before the index, and both before the row.
Edits(s) == /\ edit[s] # "none" => covered[s] = {}
            /\ edit[s] = "write" => index[s] = {}

DataInv == (\A k \in Jobs : Reads(k)) /\ (\A s \in Sources : Edits(s)) /\ NothingSkipped

\* A step on another source.
LEMMA OtherSource ==
    ASSUME TypeOK, LockInv, JobInv, [Next]_vars, NEW s \in Sources,
           \A j \in Jobs : WorkerStep(j) => job[j].source # s,
           ~PurgeDocuments(s), ~WriteConfig(s), \A p \in Servers : ~ResetCheckpoint(p, s),
           \A d \in Docs : ~Publish(s, d) /\ ~Remove(s, d)
    PROVE  remote'[s] = remote[s] /\ index'[s] = index[s] /\ covered'[s] = covered[s]
<1> DEFINE Same == remote'[s] = remote[s] /\ index'[s] = index[s] /\ covered'[s] = covered[s]
<1>1. /\ remote \in [Sources -> SUBSET Docs] /\ index \in [Sources -> SUBSET Docs]
      /\ covered \in [Sources -> SUBSET Docs]
  BY DEF TypeOK
<1>2. ASSUME NEW j \in Jobs, WorkerIngest(j) \/ WorkerReconcile(j) \/ WorkerSave(j)
      PROVE  Same
  <2>1. job[j].source # s
    BY <1>2 DEF WorkerStep
  <2> QED
    BY <1>1, <1>2, <2>1 DEF WorkerIngest, WorkerReconcile, WorkerSave
<1>3. ASSUME NEW r \in Sources,
             \/ PurgeDocuments(r) \/ WriteConfig(r)
             \/ \E p \in Servers : ResetCheckpoint(p, r)
             \/ \E d \in Docs : Publish(r, d) \/ Remove(r, d)
      PROVE  Same
  <2>1. CASE r # s
    BY <1>1, <1>3, <2>1 DEF PurgeDocuments, WriteConfig, ResetCheckpoint, Publish, Remove
  <2>2. CASE r = s
    BY <1>3, <2>2
  <2> QED
    BY <2>1, <2>2
<1> QED
  BY <1>2, <1>3, DataChange

\* No one else touches the documents of a source that is read or about to be,
\* except that they change at the origin.
LEMMA OtherWork ==
    ASSUME TypeOK, LockInv, JobInv, [Next]_vars, NEW k \in Jobs, Minds(k), ~WorkerStep(k),
           \A d \in Docs : ~Publish(job[k].source, d) /\ ~Remove(job[k].source, d)
    PROVE  /\ remote'[job[k].source] = remote[job[k].source]
           /\ index'[job[k].source] = index[job[k].source]
           /\ covered'[job[k].source] = covered[job[k].source]
<1> DEFINE s == job[k].source
<1>1. s \in Sources
  BY DEF TypeOK, Job
<1>2. lock[s] # NoOne /\ edit[s] = "none"
  BY Minded
<1>3. lock[s] = <<k, "worker">> \/ \E t \in Thread : lock[s] = t
  BY DEF Minds, LockInv, LockOfThread, LockOfWorker, Holding, JobInv, JobOfThread
<1>4. \A j \in Jobs : WorkerStep(j) => job[j].source # s
  <2> SUFFICES ASSUME NEW j \in Jobs, WorkerStep(j), job[j].source = s
               PROVE  FALSE
    OBVIOUS
  <2>1. lock[s] = <<j, "worker">> /\ j # k
    BY WorkerEffect DEF LockInv, LockOfWorker
  <2> QED
    BY <1>3, <2>1, Holders
<1>5. ~PurgeDocuments(s) /\ ~WriteConfig(s)
  BY <1>2 DEF PurgeDocuments, WriteConfig
<1>6. \A p \in Servers : ~ResetCheckpoint(p, s)
  BY <1>2 DEF ResetCheckpoint, MayEdit
<1> HIDE DEF s
<1> QED
  BY <1>1, <1>4, <1>5, <1>6, OtherSource DEF s

\* The steps of the worker itself.
LEMMA ReadsOwn ==
    ASSUME TypeOK, JobInv, NEW k \in Jobs, Reads(k), WorkerStep(k), [Next]_vars
    PROVE  Reads(k)'
<1> DEFINE s == job[k].source
<1>1. /\ worker \in [Jobs -> Worker] /\ worker[k] \in Worker /\ s \in Sources
      /\ remote \in [Sources -> SUBSET Docs] /\ index \in [Sources -> SUBSET Docs]
      /\ covered \in [Sources -> SUBSET Docs]
  BY DEF TypeOK, Job
<1>2. worker[k].pc # "none" /\ job'[k].source = s
  BY WorkerEffect, RowsKept DEF JobInv, JobOfWorker
<1>3. CASE WorkerBegin(k)
  <2>1. worker'[k] = [worker[k] EXCEPT !.pc = "read", !.started = remote[s], !.seen = {}]
    BY <1>1, <1>3 DEF WorkerBegin
  <2>2. worker'[k].pc = "read" /\ worker'[k].started = remote[s] /\ worker'[k].seen = {}
    BY <1>1, <2>1 DEF Worker
  <2>3. UNCHANGED <<remote, index, covered>>
    BY <1>3 DEF WorkerBegin, data
  <2> QED
    BY <1>2, <2>2, <2>3 DEF Reads
<1>4. CASE WorkerIngest(k)
  <2>1. PICK batch \in SUBSET Docs :
          /\ index' = [index EXCEPT ![s] = @ \cup batch]
          /\ worker' = [worker EXCEPT ![k].seen = @ \cup batch]
    BY <1>1, <1>4 DEF WorkerIngest
  <2>2. worker'[k] = [worker[k] EXCEPT !.seen = @ \cup batch]
    BY <1>1, <2>1
  <2>3. /\ worker'[k].pc = "read" /\ worker'[k].started = worker[k].started
        /\ worker'[k].seen = worker[k].seen \cup batch
    BY <1>1, <1>4, <2>2 DEF Worker, WorkerIngest
  <2>4. index'[s] = index[s] \cup batch
    BY <1>1, <2>1
  <2>5. UNCHANGED <<remote, covered>> /\ worker[k].pc = "read"
    BY <1>4 DEF WorkerIngest
  <2> QED
    BY <1>2, <2>3, <2>4, <2>5 DEF Reads
<1>5. CASE WorkerBeginCommit(k)
  <2>1. worker'[k] = [worker[k] EXCEPT !.pc = "commit"] /\ worker[k].pc = "read"
    BY <1>1, <1>5 DEF WorkerBeginCommit, Step
  <2>2. /\ worker'[k].pc = "commit" /\ worker'[k].started = worker[k].started
        /\ worker'[k].seen = worker[k].seen
    BY <1>1, <2>1 DEF Worker
  <2>3. UNCHANGED <<remote, index, covered, source>>
    BY <1>5 DEF WorkerBeginCommit, data
  <2>4. (worker[k].started \cap remote[s]) \ Skipped(s) \subseteq worker[k].seen
    BY <1>5 DEF WorkerBeginCommit, AllRead
  <2> QED
    BY <1>2, <2>1, <2>2, <2>3, <2>4 DEF Reads, Skipped
<1>6. CASE WorkerReconcile(k)
  <2>1. worker'[k] = [worker[k] EXCEPT !.pc = "save"] /\ worker[k].pc = "commit"
    BY <1>1, <1>6 DEF WorkerReconcile, Step
  <2>2. /\ worker'[k].pc = "save" /\ worker'[k].started = worker[k].started
        /\ worker'[k].seen = worker[k].seen
    BY <1>1, <2>1 DEF Worker
  <2>3. UNCHANGED <<remote, covered, source>>
    BY <1>6 DEF WorkerReconcile, tables
  <2>4. PICK gone \in Gone(k) : index' = [index EXCEPT ![s] = @ \ gone]
    BY <1>6 DEF WorkerReconcile
  <2>5. gone \cap worker[k].seen = {}
    BY DEF Gone
  <2>6. index'[s] = index[s] \ gone
    BY <1>1, <2>4
  <2> QED
    BY <1>2, <2>1, <2>2, <2>3, <2>5, <2>6 DEF Reads, Skipped
<1>7. CASE ~(WorkerBegin(k) \/ WorkerIngest(k) \/ WorkerBeginCommit(k) \/ WorkerReconcile(k))
  <2>1. worker'[k].pc \notin {"read", "commit", "save"}
    <3>1. \A outcome : End(k, outcome) => worker'[k].pc = "finish"
      <4> SUFFICES ASSUME NEW outcome, End(k, outcome)
                   PROVE  worker'[k].pc = "finish"
        OBVIOUS
      <4>1. worker'[k] = [worker[k] EXCEPT !.pc = "finish", !.outcome = outcome]
        BY <1>1 DEF End
      <4> QED
        BY <1>1, <4>1 DEF Worker
    <3>2. CASE WorkerCancelled(k) \/ WorkerFails(k) \/ WorkerConclude(k)
      BY <3>1, <3>2 DEF WorkerCancelled, WorkerFails, WorkerConclude
    <3>3. CASE WorkerSave(k)
      <4>1. worker'[k] = [worker[k] EXCEPT !.pc = "conclude"]
        BY <1>1, <3>3 DEF WorkerSave, Step
      <4> QED
        BY <1>1, <4>1 DEF Worker
    <3>4. CASE WorkerFinish(k)
      <4>1. worker'[k] = [worker[k] EXCEPT !.pc = "release"]
        BY <1>1, <3>4 DEF WorkerFinish, Step
      <4> QED
        BY <1>1, <4>1 DEF Worker
    <3>5. CASE WorkerRelease(k)
      BY <1>1, <3>5 DEF WorkerRelease, IdleWorker
    <3> QED
      BY <1>7, <3>2, <3>3, <3>4, <3>5 DEF WorkerStep
  <2> QED
    BY <2>1 DEF Reads
<1> QED
  BY <1>3, <1>4, <1>5, <1>6, <1>7

\* A document that appears or changes is not read, not indexed and not skipped.
LEMMA PublishEffect ==
    ASSUME TypeOK, NEW s \in Sources, NEW d \in Docs, Publish(s, d)
    PROVE  /\ UNCHANGED <<source, job>>
           /\ remote'[s] = remote[s] \cup {d} /\ index'[s] = index[s] \ {d}
           /\ covered'[s] = covered[s] \ {d}
           /\ \A r \in Sources : r # s => /\ remote'[r] = remote[r] /\ index'[r] = index[r]
                                          /\ covered'[r] = covered[r]
           /\ \A k \in Jobs : job[k].source = s =>
                /\ worker'[k].pc = worker[k].pc
                /\ worker'[k].started = worker[k].started \ {d}
                /\ worker'[k].seen = worker[k].seen \ {d}
           /\ \A k \in Jobs : job[k].source # s => worker'[k] = worker[k]
<1>1. /\ worker \in [Jobs -> Worker]
      /\ remote \in [Sources -> SUBSET Docs] /\ index \in [Sources -> SUBSET Docs]
      /\ covered \in [Sources -> SUBSET Docs]
  BY DEF TypeOK
<1>2. UNCHANGED <<source, job>>
  BY DEF Publish, tables
<1>3. /\ remote'[s] = remote[s] \cup {d} /\ index'[s] = index[s] \ {d}
      /\ covered'[s] = covered[s] \ {d}
      /\ \A r \in Sources : r # s => /\ remote'[r] = remote[r] /\ index'[r] = index[r]
                                     /\ covered'[r] = covered[r]
  BY <1>1 DEF Publish
<1>4. \A k \in Jobs : job[k].source # s => worker'[k] = worker[k]
  BY DEF Publish
<1>5. ASSUME NEW k \in Jobs, job[k].source = s
      PROVE  /\ worker'[k].pc = worker[k].pc
             /\ worker'[k].started = worker[k].started \ {d}
             /\ worker'[k].seen = worker[k].seen \ {d}
  <2>1. worker'[k] = [worker[k] EXCEPT !.started = @ \ {d}, !.seen = @ \ {d}]
    BY <1>5 DEF Publish
  <2> QED
    BY <1>1, <2>1 DEF Worker
<1> QED
  BY <1>2, <1>3, <1>4, <1>5

LEMMA RemoveEffect ==
    ASSUME TypeOK, NEW s \in Sources, NEW d \in Docs, Remove(s, d)
    PROVE  /\ UNCHANGED <<source, job, worker, edit, index, covered>>
           /\ d \in remote[s] /\ remote'[s] = remote[s] \ {d}
           /\ \A r \in Sources : r # s => remote'[r] = remote[r]
BY DEF TypeOK, Remove, tables, threads, procs

\* The steps of the others.
LEMMA ReadsOther ==
    ASSUME TypeOK, LockInv, JobInv, NEW k \in Jobs, Reads(k), ~WorkerStep(k), [Next]_vars
    PROVE  Reads(k)'
<1> SUFFICES ASSUME worker'[k].pc \in {"read", "commit", "save"}
             PROVE  Reads(k)'
  BY DEF Reads
<1> PICK s \in Sources : s = job[k].source
  BY DEF TypeOK, Job
<1>1. ~ \E t \in Thread : Launches(t) /\ thread[t].job = k
  <2> SUFFICES ASSUME NEW t \in Thread, Launches(t), thread[t].job = k
               PROVE  FALSE
    OBVIOUS
  <2>1. PICK p \in Servers : worker' = [worker EXCEPT ![k] = [IdleWorker EXCEPT !.pc = "begin", !.server = p]]
    BY DEF Launches
  <2>2. worker'[k].pc = "begin"
    BY <2>1 DEF TypeOK, IdleWorker
  <2> QED
    BY <2>2
<1>2. worker'[k].pc = worker[k].pc
  BY <1>1, WorkerPc
<1>3. s \in Sources /\ job'[k].source = s /\ Minds(k)
  BY <1>2, RowsKept DEF JobInv, JobOfWorker, TypeOK, Job, Minds
<1>4. source'[s].snapshot <=> source[s].snapshot
  BY <1>3, Minded, SourceStays
<1>5. CASE \E d \in Docs : Publish(s, d)
  <2>1. PICK d \in Docs : Publish(s, d)
    BY <1>5
  <2>2. /\ remote'[s] = remote[s] \cup {d} /\ index'[s] = index[s] \ {d}
        /\ covered'[s] = covered[s] \ {d} /\ UNCHANGED source
    BY <1>3, <2>1, PublishEffect
  <2>3. /\ worker'[k].started = worker[k].started \ {d}
        /\ worker'[k].seen = worker[k].seen \ {d}
    BY <1>3, <2>1, PublishEffect
  <2>4. Skipped(s)' = Skipped(s) \ {d}
    BY <2>2 DEF Skipped
  <2> QED
    BY <1>2, <1>3, <2>2, <2>3, <2>4 DEF Reads
<1>6. CASE ~ \E d \in Docs : Publish(s, d)
  <2>1. worker'[k] = worker[k]
    <3>1. CASE \E r \in Sources, d \in Docs : Publish(r, d)
      BY <1>6, <3>1, PublishEffect
    <3> QED
      BY <1>1, <3>1, WorkerSame
  <2>2. /\ remote'[s] \subseteq remote[s]
        /\ index'[s] = index[s] /\ covered'[s] = covered[s]
    <3>1. CASE \E d \in Docs : Remove(s, d)
      BY <1>3, <3>1, RemoveEffect
    <3>2. CASE ~ \E d \in Docs : Remove(s, d)
      BY <1>3, <1>6, <3>2, OtherWork
    <3> QED
      BY <3>1, <3>2
  <2>3. Skipped(s)' = Skipped(s)
    BY <1>4, <2>2 DEF Skipped
  <2> QED
    BY <1>3, <2>1, <2>2, <2>3 DEF Reads
<1> QED
  BY <1>5, <1>6

\* Who edits a source has begun to, or goes on.
LEMMA EditSame ==
    ASSUME [Next]_vars, TypeOK, NEW s \in Sources, edit'[s] # "none"
    PROVE  \/ edit'[s] = edit[s]
           \/ \E p \in Servers : ResetCheckpoint(p, s)
           \/ PurgeDocuments(s)
<1>1. edit \in [Sources -> {"none", "purge", "write"}]
  BY DEF TypeOK
<1>2. CASE \E p \in Servers, t \in Thread : Asks(p, t)
  BY <1>2, AskEffect DEF Asks
<1>3. CASE \E t \in Thread : StartStep(t)
  BY <1>3, StartEffect
<1>4. CASE \E j \in Jobs : WorkerStep(j)
  BY <1>4, WorkerEffect
<1>5. ASSUME NEW r \in Sources, EditStep(r) \/ \E p \in Servers : ResetCheckpoint(p, r)
      PROVE  \/ edit'[s] = edit[s]
             \/ \E p \in Servers : ResetCheckpoint(p, s)
             \/ PurgeDocuments(s)
  BY <1>1, <1>5 DEF EditStep, PurgeDocuments, WriteConfig, Delete, ResetCheckpoint
<1>6. CASE \E p \in Servers : Exit(p)
  BY <1>6 DEF Exit
<1>7. CASE Quiet
  BY <1>7, QuietEffect
<1>8. CASE UNCHANGED vars
  BY <1>8 DEF vars, procs
<1> QED
  BY <1>2, <1>3, <1>4, <1>5, <1>6, <1>7, <1>8, NextCases

LEMMA EditsStep ==
    ASSUME TypeOK, LockInv, JobInv, NEW s \in Sources, Edits(s), [Next]_vars
    PROVE  Edits(s)'
<1> SUFFICES ASSUME edit'[s] # "none"
             PROVE  Edits(s)'
  BY DEF Edits
<1>0. /\ edit \in [Sources -> {"none", "purge", "write"}]
      /\ index \in [Sources -> SUBSET Docs] /\ covered \in [Sources -> SUBSET Docs]
  BY DEF TypeOK
<1>1. CASE \E p \in Servers : ResetCheckpoint(p, s)
  BY <1>0, <1>1 DEF ResetCheckpoint, Edits
<1>2. CASE PurgeDocuments(s)
  BY <1>0, <1>2 DEF PurgeDocuments, Edits
<1>3. CASE edit'[s] = edit[s] /\ ~PurgeDocuments(s) /\ \A p \in Servers : ~ResetCheckpoint(p, s)
  <2>1. PICK p \in Servers : lock[s] = <<p, "edit">>
    BY <1>3 DEF LockInv, LockOfEdit
  <2>2. \A j \in Jobs : WorkerStep(j) => job[j].source # s
    BY <2>1, Holders, WorkerEffect DEF LockInv, LockOfWorker
  <2>3. ~WriteConfig(s)
    BY <1>0 DEF WriteConfig
  <2>4. CASE \E d \in Docs : Publish(s, d)
    BY <1>3, <2>4, PublishEffect DEF Edits
  <2>5. CASE \E d \in Docs : Remove(s, d)
    BY <1>3, <2>5, RemoveEffect DEF Edits
  <2>6. CASE \A d \in Docs : ~Publish(s, d) /\ ~Remove(s, d)
    BY <1>3, <2>2, <2>3, <2>6, OtherSource DEF Edits
  <2> QED
    BY <2>4, <2>5, <2>6
<1> QED
  BY <1>1, <1>2, <1>3, EditSame

LEMMA SkippedStep ==
    ASSUME JobsInv, DataInv, [Next]_vars
    PROVE  NothingSkipped'
<1> SUFFICES ASSUME NEW s \in Sources
             PROVE  covered'[s] \cap remote'[s] \subseteq index'[s]
  BY DEF NothingSkipped
<1>0. /\ TypeOK /\ covered[s] \cap remote[s] \subseteq index[s]
      /\ remote \in [Sources -> SUBSET Docs] /\ index \in [Sources -> SUBSET Docs]
      /\ covered \in [Sources -> SUBSET Docs] /\ worker \in [Jobs -> Worker] /\ job \in [Jobs -> Job]
  BY DEF JobsInv, TypeOK, DataInv, NothingSkipped
<1>1. CASE UNCHANGED <<remote, index, covered>>
  BY <1>0, <1>1
<1>2. ASSUME NEW j \in Jobs, WorkerIngest(j)
      PROVE  covered'[s] \cap remote'[s] \subseteq index'[s]
  <2>1. index[s] \subseteq index'[s] /\ UNCHANGED <<remote, covered>>
    BY <1>0, <1>2 DEF WorkerIngest, Job
  <2> QED
    BY <1>0, <2>1
<1>3. ASSUME NEW j \in Jobs, WorkerReconcile(j)
      PROVE  covered'[s] \cap remote'[s] \subseteq index'[s]
  <2>1. /\ UNCHANGED <<remote, covered>>
        /\ \E gone \in Gone(j) : index' = [index EXCEPT ![job[j].source] = @ \ gone]
    BY <1>3 DEF WorkerReconcile
  <2>2. CASE job[j].source # s
    BY <1>0, <2>1, <2>2
  <2>3. CASE job[j].source = s
    <3>1. /\ covered[s] \cap remote[s] \subseteq worker[j].started
          /\ (worker[j].started \cap remote[s]) \ Skipped(s) \subseteq worker[j].seen
      BY <1>3, <2>3 DEF WorkerReconcile, Step, DataInv, Reads
    <3>2. \A gone \in Gone(j) : gone \cap covered[s] \cap remote[s] = {}
      BY <2>3, <3>1 DEF Gone, Skipped
    <3> QED
      BY <1>0, <2>1, <2>3, <3>2
  <2> QED
    BY <2>2, <2>3
<1>4. ASSUME NEW j \in Jobs, WorkerSave(j)
      PROVE  covered'[s] \cap remote'[s] \subseteq index'[s]
  <2>1. /\ UNCHANGED <<remote, index>> /\ worker[j].pc = "save"
        /\ covered' = [covered EXCEPT ![job[j].source] = Watermark(j)]
    BY <1>4 DEF WorkerSave, Step
  <2>2. Watermark(j) = worker[j].started
    BY <2>1 DEF Watermark, JobsInv, CommitInv, Commits
  <2>3. CASE job[j].source # s
    BY <1>0, <2>1, <2>3
  <2>4. CASE job[j].source = s
    <3>1. /\ worker[j].seen \subseteq index[s]
          /\ (worker[j].started \cap remote[s]) \ Skipped(s) \subseteq worker[j].seen
      BY <2>1, <2>4 DEF DataInv, Reads
    <3>2. worker[j].started \cap remote[s] \subseteq index[s]
      BY <1>0, <3>1 DEF Skipped
    <3>3. covered'[s] = worker[j].started
      BY <1>0, <2>1, <2>2, <2>4
    <3> QED
      BY <2>1, <3>2, <3>3
  <2> QED
    BY <2>3, <2>4
<1>5. ASSUME NEW r \in Sources, PurgeDocuments(r)
      PROVE  covered'[s] \cap remote'[s] \subseteq index'[s]
  <2>1. covered[r] = {}
    BY <1>5 DEF PurgeDocuments, DataInv, Edits
  <2> QED
    BY <1>0, <1>5, <2>1 DEF PurgeDocuments
<1>6. ASSUME NEW r \in Sources, WriteConfig(r)
      PROVE  covered'[s] \cap remote'[s] \subseteq index'[s]
  <2>1. covered[r] = {}
    BY <1>6 DEF WriteConfig, DataInv, Edits
  <2> QED
    BY <1>0, <1>6, <2>1 DEF WriteConfig
<1>7. ASSUME NEW p \in Servers, NEW r \in Sources, ResetCheckpoint(p, r)
      PROVE  covered'[s] \cap remote'[s] \subseteq index'[s]
  BY <1>0, <1>7 DEF ResetCheckpoint
<1>8. ASSUME NEW r \in Sources, NEW d \in Docs, Publish(r, d)
      PROVE  covered'[s] \cap remote'[s] \subseteq index'[s]
  BY <1>0, <1>8 DEF Publish
<1>9. ASSUME NEW r \in Sources, NEW d \in Docs, Remove(r, d)
      PROVE  covered'[s] \cap remote'[s] \subseteq index'[s]
  BY <1>0, <1>9 DEF Remove
<1> QED
  BY <1>1, <1>2, <1>3, <1>4, <1>5, <1>6, <1>7, <1>8, <1>9, DataChange

LEMMA DataStep ==
    ASSUME JobsInv, DataInv, [Next]_vars
    PROVE  DataInv'
<1>1. ASSUME NEW k \in Jobs
      PROVE  Reads(k)'
  BY ReadsOwn, ReadsOther DEF JobsInv, DataInv
<1>2. ASSUME NEW s \in Sources
      PROVE  Edits(s)'
  BY EditsStep DEF JobsInv, DataInv
<1> QED
  BY <1>1, <1>2, SkippedStep DEF DataInv

------------------------------------------------------------------------------
(* The whole invariant, and what follows from it.                            *)

FullInv == JobsInv /\ EnabledInv /\ ShownSyncing /\ DataInv

LEMMA InitFull == Init => FullInv
<1> SUFFICES ASSUME Init
             PROVE  FullInv
  OBVIOUS
<1>1. /\ \A j \in Jobs : worker[j].pc = "none"
      /\ \A t \in Thread : thread[t].pc = "idle"
      /\ \A s \in Sources : edit[s] = "none" /\ covered[s] = {} /\ index[s] = {}
  BY DEF Init, IdleWorker, IdleThread
<1>2. EnabledInv /\ ShownSyncing
  BY <1>1 DEF EnabledInv, ShownSyncing, Holding, Sync
<1>3. DataInv
  BY <1>1 DEF DataInv, Reads, Edits, NothingSkipped
<1> QED
  BY <1>2, <1>3, InitJobs DEF FullInv

LEMMA FullStep == FullInv /\ [Next]_vars => FullInv'
<1> SUFFICES ASSUME FullInv, [Next]_vars
             PROVE  FullInv'
  OBVIOUS
<1>1. JobsInv'
  BY JobsInvStep DEF FullInv
<1>2. EnabledInv' /\ ShownSyncing'
  BY EnabledStep, ShownStep DEF FullInv, JobsInv
<1>3. DataInv'
  BY DataStep DEF FullInv
<1> QED
  BY <1>1, <1>2, <1>3 DEF FullInv

LEMMA FullInvariant == Spec => []FullInv
BY FullStep, InitFull, PTL DEF Spec

\* Only a source that exists and is enabled is read: update, migrate and
\* delete wait for its lock, and start_sync looks at the row under it.
THEOREM EnabledAreRead == Spec => []ReadsEnabledOnly
<1>1. FullInv => ReadsEnabledOnly
  BY DEF FullInv, EnabledInv, Enabled, ReadsEnabledOnly, Sync
<1> QED
  BY <1>1, FullInvariant, PTL

\* A source shows 'syncing' while a sync of it lives: list() and finish() write
\* its state only when nobody holds its lock or in the sync itself.
THEOREM SyncingIsShown == Spec => []ShownSyncing
<1>1. FullInv => ShownSyncing
  BY DEF FullInv
<1> QED
  BY <1>1, FullInvariant, PTL

\* The watermark never passes a document that is at the origin and not in the
\* index, whatever is published, removed, cancelled, killed or reconfigured
\* between two steps of a sync.
THEOREM NothingIsSkipped == Spec => []NothingSkipped
<1>1. FullInv => NothingSkipped
  BY DEF FullInv, DataInv
<1> QED
  BY <1>1, FullInvariant, PTL

\* The documents have the history that SourceIndex promises.
LEMMA IndexStep ==
    ASSUME FullInv, [Next]_vars
    PROVE  [Promise!Next]_(Promise!vars)
<1>0. /\ remote \in [Sources -> SUBSET Docs] /\ index \in [Sources -> SUBSET Docs]
      /\ covered \in [Sources -> SUBSET Docs] /\ worker \in [Jobs -> Worker] /\ job \in [Jobs -> Job]
  BY DEF FullInv, JobsInv, TypeOK
<1>1. CASE UNCHANGED <<remote, index, covered>>
  BY <1>1 DEF Promise!vars
<1>2. ASSUME NEW j \in Jobs, WorkerIngest(j)
      PROVE  Promise!Ingest(job[j].source)
  BY <1>2 DEF WorkerIngest, Promise!Ingest
<1>3. ASSUME NEW j \in Jobs, WorkerReconcile(j)
      PROVE  Promise!Drop(job[j].source)
  <2> DEFINE s == job[j].source
  <2>1. /\ UNCHANGED <<remote, covered>> /\ worker[j].pc = "commit"
        /\ \E gone \in Gone(j) : index' = [index EXCEPT ![s] = @ \ gone]
    BY <1>3 DEF WorkerReconcile, Step
  <2>2. /\ (worker[j].started \cap remote[s]) \ Skipped(s) \subseteq worker[j].seen
        /\ index[s] \cap remote[s] \subseteq worker[j].started \cup worker[j].seen
    BY <2>1 DEF FullInv, DataInv, Reads
  <2>3. ASSUME NEW gone \in Gone(j)
        PROVE  gone \in SUBSET (index[s] \ remote[s])
    BY <2>2 DEF Gone, Skipped
  <2> QED
    BY <2>1, <2>3 DEF Promise!Drop
<1>4. ASSUME NEW j \in Jobs, WorkerSave(j)
      PROVE  Promise!Advance(job[j].source)
  <2> DEFINE s == job[j].source
  <2>1. /\ UNCHANGED <<remote, index>> /\ worker[j].pc = "save"
        /\ covered' = [covered EXCEPT ![s] = Watermark(j)]
    BY <1>4 DEF WorkerSave, Step
  <2>2. Watermark(j) = worker[j].started
    BY <2>1 DEF Watermark, FullInv, JobsInv, CommitInv, Commits
  <2>3. /\ worker[j].seen \subseteq index[s] /\ covered[s] \cap remote[s] \subseteq worker[j].started
        /\ (worker[j].started \cap remote[s]) \ Skipped(s) \subseteq worker[j].seen
        /\ covered[s] \cap remote[s] \subseteq index[s]
    BY <1>0, <2>1 DEF FullInv, DataInv, Reads, NothingSkipped, Job
  <2>4. worker[j].started \cap remote[s] \subseteq index[s] /\ worker[j].started \in SUBSET Docs
    BY <1>0, <2>3 DEF Skipped, Worker
  <2> QED
    BY <2>1, <2>2, <2>3, <2>4 DEF Promise!Advance
<1>5. ASSUME NEW s \in Sources, PurgeDocuments(s)
      PROVE  Promise!Purge(s)
  <2>1. covered[s] = {}
    BY <1>5 DEF PurgeDocuments, FullInv, DataInv, Edits
  <2> QED
    BY <1>5, <2>1 DEF PurgeDocuments, Promise!Purge
<1>6. ASSUME NEW s \in Sources, WriteConfig(s)
      PROVE  Promise!Repoint(s)
  <2>1. covered[s] = {} /\ index[s] = {}
    BY <1>6 DEF WriteConfig, FullInv, DataInv, Edits
  <2> QED
    BY <1>6, <2>1 DEF WriteConfig, Promise!Repoint
<1>7. ASSUME NEW p \in Servers, NEW s \in Sources, ResetCheckpoint(p, s)
      PROVE  Promise!Reset(s)
  BY <1>7 DEF ResetCheckpoint, Promise!Reset
<1>8. ASSUME NEW s \in Sources, NEW d \in Docs, Publish(s, d)
      PROVE  Promise!Publish(s, d)
  BY <1>8 DEF Publish, Promise!Publish
<1>9. ASSUME NEW s \in Sources, NEW d \in Docs, Remove(s, d)
      PROVE  Promise!Remove(s, d)
  BY <1>9 DEF Remove, Promise!Remove
<1>10. \A j \in Jobs : job[j].source \in Sources
  BY <1>0 DEF Job
<1> QED
  BY <1>1, <1>2, <1>3, <1>4, <1>5, <1>6, <1>7, <1>8, <1>9, <1>10, DataChange DEF Promise!Next

\* SourceSync implements SourceIndex: a document that is still at the origin
\* leaves the index only with a new version or a reset of its source.
THEOREM IndexKept == Spec => IndexPromise
<1>1. Init => Promise!Init
  BY DEF Init, Promise!Init
<1>2. FullInv /\ [Next]_vars => [Promise!Next]_(Promise!vars)
  BY IndexStep
<1> QED
  BY <1>1, <1>2, FullInvariant, PTL DEF Spec, IndexPromise, Promise!Spec

------------------------------------------------------------------------------
(* How many syncs run.                                                       *)

LEMMA RunningChange ==
    ASSUME JobsInv, [Next]_vars
    PROVE  \/ Running' \subseteq Running
           \/ \E j \in Jobs : Cardinality(Running) < Limit /\ Running' = Running \cup {j}
<1> DEFINE Goal(k) == job'[k].state = "running" => job[k].state = "running"
<1>0. TypeOK /\ JobInv
  BY DEF JobsInv
<1>1. ASSUME NEW j \in Jobs, NEW state \in Final, Finish(j, state), NEW k \in Jobs
      PROVE  Goal(k)
  BY <1>0, <1>1, FinishEffect DEF Final
<1>2. CASE \E t \in Thread : Claims(t)
  <2>1. PICK t \in Thread : Claims(t)
    BY <1>2
  <2>2. PICK j \in Jobs : /\ job'[j].state = "running"
                          /\ \A k \in Jobs : k # j => job'[k] = job[k]
    BY <1>0, <2>1, ClaimRow
  <2>3. Running' = Running \cup {j}
    BY <2>2 DEF Running
  <2>4. Cardinality(Running) < Limit
    BY <2>1 DEF Claims, MayClaim
  <2> QED
    BY <2>3, <2>4
<1>3. CASE ~ \E t \in Thread : Claims(t)
  <2> SUFFICES ASSUME NEW k \in Jobs
               PROVE  Goal(k)
    BY DEF Running
  <2>1. CASE UNCHANGED job
    BY <2>1
  <2>2. CASE Drops
    BY <1>1, <2>2 DEF Drops, Final
  <2>3. CASE \E t \in Thread : /\ Gives(t) /\ thread[t].pc = "launch"
                               /\ Finish(thread[t].job, "failed")
    BY <1>0, <1>1, <2>3 DEF Final, JobInv, JobOfThread
  <2>4. CASE \E t \in Thread : Creates(t)
    BY <1>0, <2>4, CreateRow
  <2>5. CASE \E j \in Jobs : WorkerBeginCommit(j)
    BY <1>0, <2>5, CommitRow
  <2>6. CASE \E j \in Jobs : WorkerFinish(j)
    BY <1>0, <1>1, <2>6 DEF WorkerFinish, TypeOK, Worker
  <2>7. CASE \E s \in Sources : Cancel(s)
    <3>1. PICK j \in Jobs : /\ job[j].state = "running" \/ job'[j].state = "cancelled"
                            /\ \A i \in Jobs : i # j => job'[i] = job[i]
      BY <1>0, <2>7, CancelRow
    <3> QED
      BY <3>1
  <2>8. CASE \E s \in Sources : Delete(s)
    BY <1>0, <2>8, DeleteRows
  <2> QED
    BY <1>0, <1>3, <2>1, <2>2, <2>3, <2>4, <2>5, <2>6, <2>7, <2>8, JobChange
<1> QED
  BY <1>2, <1>3

\* No more than Limit syncs run, however many processes share the table: claim
\* counts the running rows in the transaction that adds one.
THEOREM RunningIsBounded == Spec => []RunningBounded
<1>1. ASSUME NEW S \in SUBSET Jobs
      PROVE  IsFiniteSet(S) /\ Cardinality(S) \in Nat
  <2>1. IsFiniteSet(Jobs)
    BY FS_Interval, BoundsAssumption DEF Jobs
  <2>2. IsFiniteSet(S)
    BY <2>1, FS_Subset
  <2> QED
    BY <2>2, FS_CardinalityType
<1>2. Limit \in Nat
  BY BoundsAssumption
<1>3. Init => RunningBounded
  <2> SUFFICES ASSUME Init
               PROVE  RunningBounded
    OBVIOUS
  <2>1. Running = {}
    BY DEF Init, Running, NoJobRow
  <2> QED
    BY <1>2, <2>1, FS_EmptySet DEF RunningBounded
<1>4. FullInv /\ RunningBounded /\ [Next]_vars => RunningBounded'
  <2> SUFFICES ASSUME FullInv, RunningBounded, [Next]_vars
               PROVE  Cardinality(Running') <= Limit
    BY DEF RunningBounded
  <2>0. Running \subseteq Jobs /\ Cardinality(Running) <= Limit
    BY DEF Running, RunningBounded
  <2>1. CASE Running' \subseteq Running
    <3>1. Cardinality(Running') <= Cardinality(Running) /\ Cardinality(Running') \in Nat
      BY <1>1, <2>0, <2>1, FS_Subset
    <3> QED
      BY <1>1, <1>2, <2>0, <3>1
  <2>2. ASSUME NEW j \in Jobs, Cardinality(Running) < Limit, Running' = Running \cup {j}
        PROVE  Cardinality(Running') <= Limit
    <3>1. Cardinality(Running') <= Cardinality(Running) + 1
      BY <1>1, <2>0, <2>2, FS_AddElement
    <3>2. Cardinality(Running') \in Nat /\ Cardinality(Running) \in Nat
      BY <1>1, <2>0, <2>2
    <3> QED
      BY <1>2, <2>2, <3>1, <3>2
  <2> QED
    BY <2>1, <2>2, RunningChange DEF FullInv
<1> QED
  BY <1>3, <1>4, FullInvariant, PTL DEF Spec

------------------------------------------------------------------------------
(* Slots.                                                                    *)

\* Worker k keeps its slot.
Keeps(k) == worker[k].pc # "none" => worker'[k].pc # "none" /\ worker'[k].server = worker[k].server

LEMMA WorkerKeeps ==
    ASSUME TypeOK, NEW j \in Jobs, WorkerStep(j), ~WorkerRelease(j)
    PROVE  UNCHANGED slots /\ UNCHANGED thread /\ \A k \in Jobs : Keeps(k)
<1>1. worker \in [Jobs -> Worker] /\ worker[j] \in Worker
  BY DEF TypeOK
<1>2. UNCHANGED slots
  BY DEF WorkerStep, WorkerBegin, WorkerIngest, WorkerCancelled, WorkerFails, WorkerBeginCommit,
     WorkerReconcile, WorkerSave, WorkerConclude, WorkerFinish, End
<1>3. ASSUME NEW from, NEW to, Step(j, from, to)
      PROVE  worker'[j].server = worker[j].server
  <2>1. worker'[j] = [worker[j] EXCEPT !.pc = to]
    BY <1>1, <1>3 DEF Step
  <2> QED
    BY <1>1, <2>1 DEF Worker
<1>4. ASSUME NEW outcome, End(j, outcome)
      PROVE  worker'[j].server = worker[j].server
  <2>1. worker'[j] = [worker[j] EXCEPT !.pc = "finish", !.outcome = outcome]
    BY <1>1, <1>4 DEF End
  <2> QED
    BY <1>1, <2>1 DEF Worker
<1>5. ASSUME WorkerBegin(j)
      PROVE  worker'[j].server = worker[j].server
  <2>1. worker'[j] = [worker[j] EXCEPT !.pc = "read", !.started = remote[job[j].source],
                                       !.seen = {}]
    BY <1>1, <1>5 DEF WorkerBegin
  <2>2. worker'[j].server = worker[j].server
    BY <1>1, <2>1 DEF Worker
  <2> QED
    BY <2>2
<1>6. ASSUME WorkerIngest(j)
      PROVE  worker'[j].server = worker[j].server
  <2>1. PICK batch : worker' = [worker EXCEPT ![j].seen = @ \cup batch]
    BY <1>6 DEF WorkerIngest
  <2>2. worker'[j] = [worker[j] EXCEPT !.seen = @ \cup batch]
    BY <1>1, <2>1
  <2>3. worker'[j].server = worker[j].server
    BY <1>1, <2>2 DEF Worker
  <2> QED
    BY <2>3
<1>7. worker'[j].server = worker[j].server
  BY <1>3, <1>4, <1>5, <1>6 DEF WorkerStep, WorkerCancelled, WorkerFails, WorkerBeginCommit,
     WorkerReconcile, WorkerSave, WorkerConclude, WorkerFinish
<1>8. worker'[j].pc # "none"
  <2>1. worker[j].pc # "release"
    BY DEF WorkerStep, WorkerBegin, WorkerIngest, WorkerCancelled, WorkerFails, WorkerBeginCommit,
       WorkerReconcile, WorkerSave, WorkerConclude, WorkerFinish, Step, Sync
  <2> QED
    BY <2>1, WorkerEffect
<1> QED
  BY <1>2, <1>7, <1>8, WorkerEffect DEF Keeps

LEMMA SlotChange ==
    ASSUME JobsInv, [Next]_vars, NEW p \in Servers
    PROVE  \/ /\ slots'[p] = slots[p]
              /\ Starting(p) \subseteq Starting(p)' /\ SyncingOn(p) \subseteq SyncingOn(p)'
           \/ slots'[p] = Limit
           \/ \E t \in Thread :
                /\ slots[p] # 0 /\ slots'[p] = slots[p] - 1 /\ t \notin Starting(p)
                /\ Starting(p) \cup {t} \subseteq Starting(p)'
                /\ SyncingOn(p) \subseteq SyncingOn(p)'
           \/ \E t \in Thread :
                /\ slots'[p] = Released(slots[p]) /\ Starting(p) \subseteq Starting(p)' \cup {t}
                /\ SyncingOn(p) \subseteq SyncingOn(p)'
           \/ \E j \in Jobs :
                /\ slots'[p] = Released(slots[p]) /\ Starting(p) \subseteq Starting(p)'
                /\ SyncingOn(p) \subseteq SyncingOn(p)' \cup {j}
           \/ \E t \in Thread, j \in Jobs :
                /\ slots'[p] = slots[p] /\ Starting(p) \subseteq Starting(p)' \cup {t}
                /\ j \notin SyncingOn(p) /\ SyncingOn(p) \cup {j} \subseteq SyncingOn(p)'
<1> DEFINE Same == /\ slots'[p] = slots[p]
                   /\ Starting(p) \subseteq Starting(p)' /\ SyncingOn(p) \subseteq SyncingOn(p)'
           Gains(t) == /\ slots[p] # 0 /\ slots'[p] = slots[p] - 1 /\ t \notin Starting(p)
                       /\ Starting(p) \cup {t} \subseteq Starting(p)'
                       /\ SyncingOn(p) \subseteq SyncingOn(p)'
           Returns(t) == /\ slots'[p] = Released(slots[p])
                         /\ Starting(p) \subseteq Starting(p)' \cup {t}
                         /\ SyncingOn(p) \subseteq SyncingOn(p)'
           Ends(j) == /\ slots'[p] = Released(slots[p]) /\ Starting(p) \subseteq Starting(p)'
                      /\ SyncingOn(p) \subseteq SyncingOn(p)' \cup {j}
           Hands(t, j) == /\ slots'[p] = slots[p] /\ Starting(p) \subseteq Starting(p)' \cup {t}
                          /\ j \notin SyncingOn(p) /\ SyncingOn(p) \cup {j} \subseteq SyncingOn(p)'
<1>0. TypeOK /\ LockInv /\ JobInv /\ slots \in [Servers -> 0..Limit]
      /\ thread \in [Thread -> ThreadRec] /\ worker \in [Jobs -> Worker]
  BY DEF JobsInv, TypeOK
<1>1. ASSUME UNCHANGED worker
      PROVE  SyncingOn(p) \subseteq SyncingOn(p)'
  BY <1>1 DEF SyncingOn
<1>2. ASSUME NEW t \in Thread, \A u \in Thread : u # t => thread'[u] = thread[u]
      PROVE  Starting(p) \subseteq Starting(p)' \cup {t}
  BY <1>2 DEF Starting
<1>3. ASSUME NEW t \in Thread, \A u \in Thread : u # t => thread'[u] = thread[u],
             t \notin Starting(p)
      PROVE  Starting(p) \subseteq Starting(p)'
  BY <1>3 DEF Starting
<1>4. ASSUME NEW q \in Servers, NEW t \in Thread, Asks(q, t)
      PROVE  Same
  <2>1. thread[t].pc \in {"idle"} \cup Loop /\ UNCHANGED worker
        /\ \A u \in Thread : u # t => thread'[u] = thread[u]
    BY <1>0, <1>4, AskEffect DEF Asks, Rests, Takes
  <2>2. UNCHANGED slots
    BY <1>4 DEF Asks, TickStep, TickBegin, TickProbe, TickListQueued, TickStart, TickListDue,
       TickStartDue, TickEnd, HttpStart
  <2>3. t \notin Starting(p)
    BY <2>1 DEF Starting, Loop
  <2> QED
    BY <1>1, <1>3, <2>1, <2>2, <2>3
<1>5. ASSUME NEW t \in Thread, StartStep(t)
      PROVE  Same \/ Gains(t) \/ Returns(t) \/ \E j \in Jobs : Hands(t, j)
  <2>0. t[1] \in Servers /\ \A u \in Thread : u # t => thread'[u] = thread[u]
    BY <1>0, <1>5, StartEffect, Holders
       DEF Gives, Acquires, Creates, Claims, Launches, Answers, Goes, Rests
  <2>1. CASE StartLaunch(t)
    <3>1. PICK j \in Jobs : j = thread[t].job /\ job[j].source = thread[t].source
      BY <1>0, <2>1 DEF StartLaunch, At, JobInv, JobOfThread
    <3>2. worker' = [worker EXCEPT ![j] = [IdleWorker EXCEPT !.pc = "begin", !.server = t[1]]]
          /\ UNCHANGED slots /\ thread[t].pc = "launch"
      BY <2>1, <3>1 DEF StartLaunch, At
    <3>3. worker[j].pc = "none"
      BY <1>0, <3>1, <3>2, Holders DEF LockInv, LockOfThread, LockOfWorker, Holding
    <3>4. /\ worker'[j].pc = "begin" /\ worker'[j].server = t[1]
          /\ \A k \in Jobs : k # j => worker'[k] = worker[k]
      BY <1>0, <3>2 DEF IdleWorker
    <3>5. Starting(p) \subseteq Starting(p)' \cup {t} /\ SyncingOn(p) \subseteq SyncingOn(p)'
      BY <1>2, <2>0, <3>3, <3>4 DEF SyncingOn
    <3>6. CASE t[1] = p
      <4>1. j \notin SyncingOn(p) /\ j \in SyncingOn(p)'
        BY <3>3, <3>4, <3>6 DEF SyncingOn
      <4> QED
        BY <3>2, <3>5, <4>1
    <3>7. CASE t[1] # p
      <4>1. t \notin Starting(p)
        BY <3>7 DEF Starting
      <4> QED
        BY <1>3, <2>0, <3>2, <3>5, <4>1
    <3> QED
      BY <3>6, <3>7
  <2>2. CASE ~StartLaunch(t)
    <3>0. UNCHANGED worker
      BY <1>5, <2>2 DEF StartStep, StartSlot, StartCreate, StartClaim, StartFailed, StartAnswer
    <3>1. CASE t[1] # p
      <4>1. t \notin Starting(p)
        BY <3>1 DEF Starting
      <4>2. slots'[p] = slots[p]
        BY <1>0, <1>5, <2>2, <3>1 DEF StartStep, StartSlot, StartCreate, StartClaim, StartFailed,
           StartAnswer, Abandon
      <4> QED
        BY <1>1, <1>3, <2>0, <3>0, <4>1, <4>2
    <3>2. CASE t[1] = p /\ slots'[p] = Released(slots[p])
      BY <1>1, <1>2, <2>0, <3>0, <3>2
    <3>3. ASSUME t[1] = p, StartSlot(t), slots[p] # 0
          PROVE  Gains(t)
      <4>1. /\ slots'[p] = slots[p] - 1 /\ thread[t].pc = "slot"
            /\ \/ thread' = [thread EXCEPT ![t].pc = "create"]
               \/ thread' = [thread EXCEPT ![t].pc = "claim"]
        BY <1>0, <3>3 DEF StartSlot, At
      <4>2. thread'[t].pc \in {"create", "claim"}
        BY <1>0, <4>1 DEF ThreadRec
      <4>3. t \notin Starting(p) /\ t \in Starting(p)'
        BY <3>3, <4>1, <4>2 DEF Starting
      <4> QED
        BY <1>1, <1>3, <2>0, <3>0, <3>3, <4>1, <4>3
    <3>4. ASSUME t[1] = p, StartSlot(t), slots[p] = 0
          PROVE  Same
      <4>1. UNCHANGED slots /\ thread[t].pc = "slot"
        BY <3>4 DEF StartSlot, At
      <4>2. t \notin Starting(p)
        BY <4>1 DEF Starting
      <4> QED
        BY <1>1, <1>3, <2>0, <3>0, <4>1, <4>2
    <3>5. ASSUME t[1] = p, StartCreate(t) \/ StartClaim(t), UNCHANGED slots
          PROVE  Same \/ slots'[p] = Released(slots[p])
      <4>1. CASE Abandon(t)
        BY <1>0, <3>5, <4>1 DEF Abandon
      <4>2. CASE ~Abandon(t)
        <5>1. thread'[t].pc \in {"claim", "launch"}
          <6>1. CASE StartCreate(t)
            <7>1. PICK k : thread' = [thread EXCEPT ![t].pc = "claim", ![t].job = k]
              BY <4>2, <6>1 DEF StartCreate
            <7>2. thread'[t] = [thread[t] EXCEPT !.pc = "claim", !.job = k]
              BY <1>0, <7>1
            <7> QED
              BY <1>0, <7>2 DEF ThreadRec
          <6>2. CASE StartClaim(t)
            <7>1. thread' = [thread EXCEPT ![t].pc = "launch"]
              BY <4>2, <6>2 DEF StartClaim
            <7>2. thread'[t] = [thread[t] EXCEPT !.pc = "launch"]
              BY <1>0, <7>1
            <7> QED
              BY <1>0, <7>2 DEF ThreadRec
          <6> QED
            BY <3>5, <6>1, <6>2
        <5>2. Starting(p) \subseteq Starting(p)'
          BY <2>0, <5>1 DEF Starting
        <5> QED
          BY <1>1, <3>0, <3>5, <5>2
      <4> QED
        BY <4>1, <4>2
    <3>6. CASE t[1] = p /\ StartAnswer(t) /\ UNCHANGED slots
      <4>1. t \notin Starting(p)
        BY <3>6 DEF Starting, StartAnswer, At
      <4> QED
        BY <1>1, <1>3, <2>0, <3>0, <3>6, <4>1
    <3>7. ASSUME t[1] = p, ~StartSlot(t)
          PROVE  UNCHANGED slots \/ slots'[p] = Released(slots[p])
      BY <1>0, <1>5, <2>2, <3>7 DEF StartStep, StartCreate, StartClaim, StartFailed, StartAnswer, Abandon
    <3>8. StartFailed(t) /\ t[1] = p => slots'[p] = Released(slots[p])
      BY <1>0 DEF StartFailed, Abandon
    <3> QED
      BY <1>5, <2>2, <3>1, <3>2, <3>3, <3>4, <3>5, <3>6, <3>7, <3>8 DEF StartStep
  <2> QED
    BY <2>1, <2>2
<1>6. ASSUME NEW j \in Jobs, WorkerStep(j)
      PROVE  Same \/ Ends(j)
  <2>1. CASE WorkerRelease(j)
    <3>1. /\ UNCHANGED thread
          /\ \A k \in Jobs : k # j => worker'[k] = worker[k]
      BY <1>0, <1>6, WorkerEffect
    <3>2. slots'[p] = Released(slots[p]) \/ (worker[j].server # p /\ slots'[p] = slots[p])
      BY <1>0, <2>1 DEF WorkerRelease
    <3>3. Starting(p) \subseteq Starting(p)'
      BY <3>1 DEF Starting
    <3>4. SyncingOn(p) \subseteq SyncingOn(p)' \cup {j}
      BY <3>1 DEF SyncingOn
    <3>5. worker[j].server # p => SyncingOn(p) \subseteq SyncingOn(p)'
      BY <3>1 DEF SyncingOn
    <3> QED
      BY <3>2, <3>3, <3>4, <3>5
  <2>2. CASE ~WorkerRelease(j)
    BY <1>0, <1>6, <2>2, WorkerKeeps DEF Keeps, Starting, SyncingOn
  <2> QED
    BY <2>1, <2>2
<1>7. CASE \E s \in Sources : EditStep(s) \/ \E q \in Servers : ResetCheckpoint(q, s)
  <2>1. UNCHANGED <<slots, thread, worker>>
    BY <1>7 DEF EditStep, PurgeDocuments, WriteConfig, Delete, ResetCheckpoint, threads
  <2> QED
    BY <2>1 DEF Starting, SyncingOn
<1>8. ASSUME NEW q \in Servers, Exit(q)
      PROVE  Same \/ slots'[p] = Limit
  <2>1. CASE q = p
    BY <1>0, <1>8, <2>1 DEF Exit
  <2>2. CASE q # p
    <3>1. /\ slots'[p] = slots[p]
          /\ \A u \in Thread : u[1] = p => thread'[u] = thread[u]
          /\ \A k \in Jobs : worker[k].server = p => worker'[k] = worker[k]
      BY <1>0, <1>8, <2>2 DEF Exit
    <3> QED
      BY <3>1 DEF Starting, SyncingOn
  <2> QED
    BY <2>1, <2>2
<1>9. CASE Quiet
  <2>1. UNCHANGED slots
    BY <1>9 DEF Quiet, ListRead, ListRepair, Stop, Restart, Cancel, Share, IntervalPasses,
       SetSchedule, Update, Publish, Remove, threads
  <2> QED
    BY <1>0, <1>9, <2>1, QuietEffect, QuietWorkers DEF Starting, SyncingOn
<1>10. CASE UNCHANGED vars
  BY <1>10 DEF vars, threads, Starting, SyncingOn
<1> QED
  BY <1>4, <1>5, <1>6, <1>7, <1>8, <1>9, <1>10, NextCases

\* No exit of start_sync or of a worker keeps a slot: an exception, a refused
\* claim and a failed thread start give it back once or twice, never not at all.
THEOREM SlotsAreReturned == Spec => []NoSlotLost
<1>1. ASSUME NEW S, S \subseteq Thread \/ S \subseteq Jobs
      PROVE  IsFiniteSet(S) /\ Cardinality(S) \in Nat
  <2>1. IsFiniteSet(Jobs)
    BY FS_Interval, BoundsAssumption DEF Jobs
  <2>2. IsFiniteSet(Roles)
    <3>1. Roles = {"tick"} \cup {"http"}
      BY DEF Roles
    <3> QED
      BY <3>1, FS_Singleton, FS_AddElement
  <2>3. IsFiniteSet(Thread)
    BY <2>2, FS_Product, SetsAssumption DEF Thread
  <2>4. IsFiniteSet(S)
    BY <1>1, <2>1, <2>3, FS_Subset
  <2> QED
    BY <2>4, FS_CardinalityType
<1>2. ASSUME NEW S, NEW T, S \subseteq T, T \subseteq Thread \/ T \subseteq Jobs
      PROVE  Cardinality(S) <= Cardinality(T)
  BY <1>1, <1>2, FS_Subset
<1>3. ASSUME NEW S, NEW x, S \subseteq Thread \/ S \subseteq Jobs
      PROVE  Cardinality(S \cup {x}) = IF x \in S THEN Cardinality(S) ELSE Cardinality(S) + 1
  BY <1>1, <1>3, FS_AddElement
<1>4. Limit \in Nat \ {0}
  BY BoundsAssumption
<1>5. Init => NoSlotLost
  <2> SUFFICES ASSUME Init, NEW p \in Servers
               PROVE  slots[p] + Cardinality(Starting(p)) + Cardinality(SyncingOn(p)) >= Limit
    BY DEF NoSlotLost
  <2>1. Cardinality(Starting(p)) \in Nat /\ Cardinality(SyncingOn(p)) \in Nat
    BY <1>1 DEF Starting, SyncingOn
  <2> QED
    BY <1>4, <2>1 DEF Init
<1>6. FullInv /\ NoSlotLost /\ [Next]_vars => NoSlotLost'
  <2> SUFFICES ASSUME FullInv, NoSlotLost, [Next]_vars, NEW p \in Servers
               PROVE  slots'[p] + Cardinality(Starting(p)') + Cardinality(SyncingOn(p)') >= Limit
    BY DEF NoSlotLost
  <2> DEFINE a == Starting(p)
             b == SyncingOn(p)
             c == Starting(p)'
             d == SyncingOn(p)'
  <2>0. /\ a \subseteq Thread /\ b \subseteq Jobs /\ c \subseteq Thread /\ d \subseteq Jobs
        /\ slots[p] + Cardinality(a) + Cardinality(b) >= Limit
        /\ slots[p] \in 0..Limit /\ slots'[p] \in Nat
    <3>1. TypeOK /\ TypeOK'
      BY FullStep DEF FullInv, JobsInv
    <3> QED
      BY <1>4, <3>1 DEF TypeOK, Starting, SyncingOn, NoSlotLost
  <2>1. /\ Cardinality(a) \in Nat /\ Cardinality(b) \in Nat
        /\ Cardinality(c) \in Nat /\ Cardinality(d) \in Nat
    BY <1>1, <2>0
  <2>s. /\ a \subseteq c => Cardinality(a) <= Cardinality(c)
        /\ b \subseteq d => Cardinality(b) <= Cardinality(d)
    BY <1>2, <2>0
  <2>t. ASSUME NEW t \in Thread, a \subseteq c \cup {t}
        PROVE  Cardinality(a) <= Cardinality(c) + 1
    <3>1. Cardinality(a) <= Cardinality(c \cup {t})
      BY <1>2, <2>0, <2>t
    <3>2. Cardinality(c \cup {t}) <= Cardinality(c) + 1
      BY <1>3, <2>0, <2>1
    <3>3. Cardinality(c \cup {t}) \in Nat
      BY <1>1, <2>0
    <3> QED
      BY <2>1, <3>1, <3>2, <3>3
  <2>j. ASSUME NEW j \in Jobs, b \subseteq d \cup {j}
        PROVE  Cardinality(b) <= Cardinality(d) + 1
    <3>1. Cardinality(b) <= Cardinality(d \cup {j})
      BY <1>2, <2>0, <2>j
    <3>2. Cardinality(d \cup {j}) <= Cardinality(d) + 1
      BY <1>3, <2>0, <2>1
    <3>3. Cardinality(d \cup {j}) \in Nat
      BY <1>1, <2>0
    <3> QED
      BY <2>1, <3>1, <3>2, <3>3
  <2>2. CASE slots'[p] = slots[p] /\ a \subseteq c /\ b \subseteq d
    <3> HIDE DEF a, b, c, d
    <3>1. slots'[p] + Cardinality(c) + Cardinality(d) >= Limit
      BY <1>4, <2>0, <2>1, <2>2, <2>s
    <3> QED
      BY <3>1 DEF c, d
  <2>3. CASE slots'[p] = Limit
    <3> HIDE DEF a, b, c, d
    <3>1. slots'[p] + Cardinality(c) + Cardinality(d) >= Limit
      BY <1>4, <2>0, <2>1, <2>3
    <3> QED
      BY <3>1 DEF c, d
  <2>4. ASSUME NEW t \in Thread, slots[p] # 0, slots'[p] = slots[p] - 1, t \notin a,
               a \cup {t} \subseteq c, b \subseteq d
        PROVE  slots'[p] + Cardinality(c) + Cardinality(d) >= Limit
    <3>1. Cardinality(a \cup {t}) <= Cardinality(c)
      BY <1>2, <2>0, <2>4
    <3>2. Cardinality(a \cup {t}) = Cardinality(a) + 1
      BY <1>3, <2>0, <2>4
    <3> HIDE DEF a, b, c, d
    <3> QED
      BY <1>4, <2>0, <2>1, <2>4, <2>s, <3>1, <3>2
  <2>5. ASSUME slots'[p] = Released(slots[p]), NEW x \in Nat, NEW y \in Nat,
               x + y + 1 >= Cardinality(a) + Cardinality(b)
        PROVE  slots'[p] + x + y >= Limit
    <3> HIDE DEF a, b, c, d
    <3> QED
      BY <1>4, <2>0, <2>1, <2>5 DEF Released
  <2>6. ASSUME NEW t \in Thread, slots'[p] = Released(slots[p]), a \subseteq c \cup {t},
               b \subseteq d
        PROVE  slots'[p] + Cardinality(c) + Cardinality(d) >= Limit
    <3>1. Cardinality(a) <= Cardinality(c) + 1 /\ Cardinality(b) <= Cardinality(d)
      BY <2>6, <2>s, <2>t
    <3> HIDE DEF a, b, c, d
    <3>2. Cardinality(c) + Cardinality(d) + 1 >= Cardinality(a) + Cardinality(b)
      BY <2>1, <3>1
    <3> QED
      BY <2>1, <2>5, <2>6, <3>2
  <2>7. ASSUME NEW j \in Jobs, slots'[p] = Released(slots[p]), a \subseteq c, b \subseteq d \cup {j}
        PROVE  slots'[p] + Cardinality(c) + Cardinality(d) >= Limit
    <3>1. Cardinality(a) <= Cardinality(c) /\ Cardinality(b) <= Cardinality(d) + 1
      BY <2>7, <2>s, <2>j
    <3> HIDE DEF a, b, c, d
    <3>2. Cardinality(c) + Cardinality(d) + 1 >= Cardinality(a) + Cardinality(b)
      BY <2>1, <3>1
    <3> QED
      BY <2>1, <2>5, <2>7, <3>2
  <2>8. ASSUME NEW t \in Thread, NEW j \in Jobs, slots'[p] = slots[p], a \subseteq c \cup {t},
               j \notin b, b \cup {j} \subseteq d
        PROVE  slots'[p] + Cardinality(c) + Cardinality(d) >= Limit
    <3>1. Cardinality(a) <= Cardinality(c) + 1
      BY <2>8, <2>t
    <3>2. Cardinality(b \cup {j}) <= Cardinality(d)
      BY <1>2, <2>0, <2>8
    <3>3. Cardinality(b \cup {j}) = Cardinality(b) + 1
      BY <1>3, <2>0, <2>8
    <3> HIDE DEF a, b, c, d
    <3> QED
      BY <1>4, <2>0, <2>1, <2>8, <3>1, <3>2, <3>3
  <2> QED
    BY <2>2, <2>3, <2>4, <2>6, <2>7, <2>8, SlotChange DEF FullInv
<1> QED
  BY <1>5, <1>6, FullInvariant, PTL DEF Spec
------------------------------------------------------------------------------
(* The life of a sync.                                                       *)

\* A cancellation is asked of a job that exists, and a worker that ends as
\* cancelled was asked to.
AskedInv ==
    \A k \in Jobs :
        /\ job[k].state = "absent" => ~job[k].cancel
        /\ worker[k].pc = "finish" => worker[k].outcome # "interrupted"
        /\ worker[k].pc = "finish" /\ worker[k].outcome = "cancelled" => job[k].cancel

\* A cancellation is not taken back, and no row becomes absent.
LEMMA CancelStays ==
    ASSUME JobsInv, [Next]_vars, NEW k \in Jobs
    PROVE  /\ job[k].state # "absent" => (job[k].cancel => job'[k].cancel)
           /\ job'[k].state = "absent" => job[k].state = "absent" /\ (job'[k].cancel <=> job[k].cancel)
<1> DEFINE Goal == /\ job[k].state # "absent" => (job[k].cancel => job'[k].cancel)
                   /\ job'[k].state = "absent" => (job'[k].cancel <=> job[k].cancel)
<1>0. TypeOK /\ JobInv
  BY DEF JobsInv
<1>1. job'[k].state = "absent" => job[k].state = "absent"
  BY <1>0, RowsKept DEF JobInv
<1>2. CASE job'[k] = job[k]
  BY <1>2
<1>3. ASSUME NEW j \in Jobs, NEW state \in Final, Finish(j, state)
      PROVE  Goal
  BY <1>0, <1>3, FinishEffect
<1>4. CASE UNCHANGED job
  BY <1>2, <1>4
<1>5. CASE Drops
  <2>1. PICK j \in Jobs : Finish(j, "interrupted") \/ Finish(j, "cancelled")
    BY <1>5 DEF Drops
  <2>2. Goal
    BY <1>3, <2>1 DEF Final
  <2> QED
    BY <1>1, <2>2
<1>6. ASSUME NEW t \in Thread, Gives(t), thread[t].pc = "launch", Finish(thread[t].job, "failed")
      PROVE  Goal
  BY <1>0, <1>3, <1>6 DEF Final, JobInv, JobOfThread
<1>7. ASSUME NEW t \in Thread, Creates(t) \/ Claims(t)
      PROVE  Goal
  BY <1>0, <1>2, <1>7, CreateRow, ClaimRow
<1>8. ASSUME NEW j \in Jobs, WorkerBeginCommit(j)
      PROVE  Goal
  BY <1>0, <1>2, <1>8, CommitRow
<1>9. ASSUME NEW j \in Jobs, WorkerFinish(j)
      PROVE  Goal
  BY <1>0, <1>3, <1>9 DEF WorkerFinish, TypeOK, Worker
<1>10. ASSUME NEW s \in Sources, Cancel(s)
       PROVE  Goal
  <2>1. PICK j \in Jobs : /\ job[j].state \in Open /\ job'[j].cancel
                          /\ \A i \in Jobs : i # j => job'[i] = job[i]
    BY <1>0, <1>10, CancelRow
  <2> QED
    BY <1>1, <1>2, <2>1 DEF Open
<1>11. ASSUME NEW s \in Sources, Delete(s)
       PROVE  Goal
  BY <1>0, <1>11, DeleteRows
<1> QED
  BY <1>0, <1>1, <1>4, <1>5, <1>6, <1>7, <1>8, <1>9, <1>10, <1>11, JobChange

LEMMA AskedStep ==
    ASSUME JobsInv, AskedInv, [Next]_vars
    PROVE  AskedInv'
<1> SUFFICES ASSUME NEW k \in Jobs
             PROVE  /\ job'[k].state = "absent" => ~job'[k].cancel
                    /\ worker'[k].pc = "finish" =>
                         /\ worker'[k].outcome # "interrupted"
                         /\ worker'[k].outcome = "cancelled" => job'[k].cancel
  BY DEF AskedInv
<1>0. TypeOK /\ JobInv
  BY DEF JobsInv
<1>1. job'[k].state = "absent" => ~job'[k].cancel
  BY CancelStays DEF AskedInv
<1>2. CASE WorkerStep(k) /\ worker'[k].pc = "finish"
  <2>1. /\ UNCHANGED job /\ worker'[k].outcome # "interrupted"
        /\ worker'[k].outcome = "cancelled" => job[k].cancel
    BY <1>0, <1>2, WorkerRow
  <2> QED
    BY <1>1, <2>1
<1>3. CASE /\ worker'[k].pc = worker[k].pc /\ worker'[k].outcome = worker[k].outcome
           /\ worker[k].pc = "finish"
  <2>1. job[k].state # "absent" /\ (job[k].cancel => job'[k].cancel)
    BY <1>3, CancelStays DEF JobsInv, JobInv, JobOfWorker
  <2> QED
    BY <1>1, <1>3, <2>1 DEF AskedInv
<1> QED
  BY <1>0, <1>1, <1>2, <1>3, WorkerPc

LEMMA AskedInvariant == Spec => []AskedInv
<1>1. Init => AskedInv
  BY DEF Init, AskedInv, NoJobRow, IdleWorker
<1> QED
  BY <1>1, AskedStep, JobsInvariant, PTL DEF Spec

\* What the table says of a job in hand.
LEMMA TendedRow ==
    ASSUME JobsInv, NEW k \in Jobs, Tended(k)
    PROVE  /\ Minds(k) /\ job[k].state = "running"
           /\ lock[job[k].source] # NoOne /\ edit[job[k].source] = "none"
<1>1. Minds(k)
  BY DEF Tended, Minds, Sync, At
<1>2. job[k].state = "running"
  BY DEF Tended, JobsInv, RunInv, AliveIsRunning, Launching, At
<1> QED
  BY <1>1, <1>2, Minded DEF JobsInv

------------------------------------------------------------------------------
(* Steps of one job, seen from SyncLifecycle.                                *)

LEMMA LifeSame ==
    ASSUME \A k \in Jobs : /\ job'[k].state = job[k].state /\ job'[k].source = job[k].source
                           /\ job'[k].cancel <=> job[k].cancel
                           /\ job'[k].committing <=> job[k].committing
    PROVE  /\ [k \in Jobs |-> LifeOf(k)]' = [k \in Jobs |-> LifeOf(k)]
           /\ [k \in Jobs |-> job[k].source]' = [k \in Jobs |-> job[k].source]
           /\ {k \in Jobs : job[k].cancel}' = {k \in Jobs : job[k].cancel}
BY DEF LifeOf

\* One job moves.
LEMMA LifeMoves ==
    ASSUME NEW j \in Jobs, NEW from, NEW to, LifeOf(j) = from, LifeOf(j)' = to,
           \A k \in Jobs : k # j => job'[k] = job[k]
    PROVE  Lifecycle!Move(j, from, to)
<1>1. \A k \in Jobs : k # j => LifeOf(k)' = LifeOf(k)
  BY DEF LifeOf
<1> QED
  BY <1>1 DEF Lifecycle!Move

\* Only the history of the same source is pruned.
LEMMA PrunesOwn ==
    ASSUME TypeOK, NEW j \in Jobs, NEW state \in Final, Finish(j, state), NEW k \in Jobs,
           k # j, job'[k].state # job[k].state
    PROVE  job[k].source = job[j].source
<1> DEFINE r == [job EXCEPT ![j].state = state, ![j].committing = FALSE]
<1>1. r[k] = job[k]
  BY DEF TypeOK
<1>2. job'[k] = IF k \in Pruned(r, job[j].source) THEN [r[k] EXCEPT !.state = "deleted"] ELSE r[k]
  BY DEF Finish
<1> HIDE DEF r
<1> QED
  BY <1>1, <1>2 DEF Pruned

\* finish() is the end of a job and of what leaves its source's history.
LEMMA FinishLife ==
    ASSUME TypeOK, NEW j \in Jobs, NEW state \in Final, Finish(j, state)
    PROVE  /\ Lifecycle!EndAs(j, state)
           /\ [k \in Jobs |-> job[k].source]' = [k \in Jobs |-> job[k].source]
           /\ {k \in Jobs : job[k].cancel}' = {k \in Jobs : job[k].cancel}
<1> DEFINE life == [k \in Jobs |-> LifeOf(k)]
           of == [k \in Jobs |-> job[k].source]
           forgotten == {k \in Jobs : /\ job'[k].state = "deleted"
                                      /\ k = j \/ job'[k].state # job[k].state}
<1>1. \A k \in Jobs :
        /\ job'[k].source = job[k].source
        /\ job'[k].cancel <=> job[k].cancel
        /\ k # j => (job'[k].committing <=> job[k].committing)
        /\ \/ k = j
           \/ job'[k].state = job[k].state
           \/ job[k].state \in Final /\ job'[k].state = "deleted"
  BY FinishEffect
<1>2. job'[j].state \in {state, "deleted"}
  BY FinishEffect
<1>3. forgotten \in SUBSET {k \in Lifecycle!InLife(Lifecycle!Ended) \cup {j} : of[k] = of[j]}
  <2> SUFFICES ASSUME NEW k \in forgotten, k # j
               PROVE  k \in Jobs /\ life[k] \in Lifecycle!Ended /\ of[k] = of[j]
    BY DEF Lifecycle!InLife
  <2>1. job[k].state \in Final /\ job[k].source = job[j].source
    BY <1>1, PrunesOwn
  <2>2. LifeOf(k) = job[k].state
    BY <2>1 DEF LifeOf, Final
  <2> QED
    BY <2>1, <2>2 DEF Final, Lifecycle!Ended
<1>4. ASSUME NEW k \in Jobs
      PROVE  LifeOf(k)' = CASE k \in forgotten -> "deleted"
                            [] k = j /\ k \notin forgotten -> state
                            [] OTHER -> LifeOf(k)
  <2>1. CASE k \in forgotten
    BY <2>1 DEF LifeOf
  <2>2. CASE k = j /\ k \notin forgotten
    <3>1. job'[k].state = state /\ state # "running"
      BY <1>2, <2>2 DEF Final
    <3> QED
      BY <2>2, <3>1 DEF LifeOf
  <2>3. CASE k # j /\ k \notin forgotten
    <3>1. job'[k].state = job[k].state /\ (job'[k].committing <=> job[k].committing)
      BY <1>1, <2>3
    <3> QED
      BY <2>3, <3>1 DEF LifeOf
  <2> QED
    BY <2>1, <2>2, <2>3
<1>5. life' = [k \in Jobs |-> CASE k \in forgotten -> "deleted"
                                [] k = j /\ k \notin forgotten -> state
                                [] OTHER -> life[k]]
  BY <1>4
<1>6. Lifecycle!EndAs(j, state)
  BY <1>3, <1>5 DEF Lifecycle!EndAs
<1> QED
  BY <1>1, <1>6

\* Nobody's hand moves.
LEMMA TendedSame ==
    ASSUME UNCHANGED thread,
           \A k \in Jobs : worker'[k].pc \in Sync \cup {"finish"} <=> worker[k].pc \in Sync \cup {"finish"}
    PROVE  /\ \A k \in Jobs : Tended(k)' <=> Tended(k)
           /\ {k \in Jobs : Tended(k)}' = {k \in Jobs : Tended(k)}
BY DEF Tended, At

\* The threads that launch, and the workers, are the same.
LEMMA LaunchersSame ==
    ASSUME NEW t \in Thread, thread[t].pc # "launch", thread'[t].pc # "launch",
           \A u \in Thread : u # t => thread'[u] = thread[u], UNCHANGED worker
    PROVE  {k \in Jobs : Tended(k)}' = {k \in Jobs : Tended(k)}
<1>1. ASSUME NEW k \in Jobs, NEW u \in Thread
      PROVE  At(u, "launch")' /\ thread'[u].job = k <=> At(u, "launch") /\ thread[u].job = k
  BY DEF At
<1> QED
  BY <1>1 DEF Tended

\* A job nobody minds ends: found dead by the probe, or dropped by start_sync.
LEMMA DropsLife ==
    ASSUME JobsInv, Drops, {k \in Jobs : Tended(k)}' = {k \in Jobs : Tended(k)}
    PROVE  \E j \in Jobs : Lifecycle!Interrupt(j) \/ Lifecycle!Drop(j)
<1>0. TypeOK
  BY DEF JobsInv
<1>1. PICK j \in Jobs :
        /\ lock[job[j].source] = NoOne /\ RowOf(j)
        /\ \/ job[j].state = "running" /\ Finish(j, "interrupted")
           \/ Finish(j, "cancelled")
  BY DEF Drops
<1>2. j \notin {k \in Jobs : Tended(k)}
  BY <1>1, TendedRow
<1>3. job[j].state \in JobState \ {"absent", "deleted"}
  BY <1>0, <1>1 DEF RowOf, TypeOK, Job
<1>4. CASE job[j].state = "running" /\ Finish(j, "interrupted")
  <2>1. LifeOf(j) \in Lifecycle!AtWork
    BY <1>4 DEF LifeOf, Lifecycle!AtWork
  <2>2. Lifecycle!Interrupt(j)
    BY <1>0, <1>2, <1>4, <2>1, FinishLife DEF Lifecycle!Interrupt, Final
  <2> QED
    BY <2>2
<1>5. CASE Finish(j, "cancelled")
  <2>1. LifeOf(j) \in Lifecycle!Unended \cup Lifecycle!Ended
    BY <1>3 DEF LifeOf, Lifecycle!AtWork, Lifecycle!Unended, Lifecycle!Ended, JobState, Open, Final
  <2>2. Lifecycle!Drop(j)
    BY <1>0, <1>2, <1>5, <2>1, FinishLife DEF Lifecycle!Drop, Final
  <2> QED
    BY <2>2
<1> QED
  BY <1>1, <1>4, <1>5

LEMMA AskLife ==
    ASSUME JobsInv, NEW p \in Servers, NEW t \in Thread, Asks(p, t)
    PROVE  [Lifecycle!Next]_(Lifecycle!vars)
<1>1. /\ thread[t].pc \in {"idle"} \cup Loop /\ UNCHANGED worker
      /\ \/ Rests(t) /\ (UNCHANGED job \/ Drops)
         \/ Takes(t) /\ UNCHANGED job
  BY AskEffect DEF Asks, JobsInv
<1>2. {k \in Jobs : Tended(k)}' = {k \in Jobs : Tended(k)}
  BY <1>1, LaunchersSame DEF Rests, Takes, Loop
<1>3. CASE UNCHANGED job
  BY <1>2, <1>3, LifeSame DEF Lifecycle!vars
<1>4. CASE Drops
  BY <1>2, <1>4, DropsLife DEF Lifecycle!Next, Lifecycle!SyncStep
<1> QED
  BY <1>1, <1>3, <1>4

\* The job that a launching thread answers for is in no other hand.
LEMMA LaunchAlone ==
    ASSUME JobsInv, NEW t \in Thread, thread[t].pc \in {"claim", "launch"}
    PROVE  /\ thread[t].job \in Jobs
           /\ \A u \in Thread : thread[u].pc = "launch" /\ thread[u].job = thread[t].job => u = t
           /\ worker[thread[t].job].pc = "none"
<1> DEFINE j == thread[t].job
<1>1. j \in Jobs /\ job[j].source = thread[t].source
  BY DEF JobsInv, JobInv, JobOfThread
<1>2. lock[job[j].source] = t
  BY <1>1 DEF JobsInv, LockInv, LockOfThread, Holding
<1>3. ASSUME NEW u \in Thread, thread[u].pc = "launch", thread[u].job = j
      PROVE  u = t
  <2>1. job[j].source = thread[u].source
    BY <1>1, <1>3 DEF JobsInv, JobInv, JobOfThread
  <2> QED
    BY <1>2, <1>3, <2>1 DEF JobsInv, LockInv, LockOfThread, Holding
<1>4. worker[j].pc = "none"
  BY <1>1, <1>2, Holders DEF JobsInv, LockInv, LockOfWorker
<1> QED
  BY <1>1, <1>3, <1>4

LEMMA GivesLife ==
    ASSUME JobsInv, NEW t \in Thread, Gives(t)
    PROVE  [Lifecycle!Next]_(Lifecycle!vars)
<1>0. TypeOK
  BY DEF JobsInv
<1>1. /\ thread'[t].pc # "launch" /\ UNCHANGED worker
      /\ \A u \in Thread : u # t => thread'[u] = thread[u]
  BY DEF Gives, Rests, Loop
<1>2. CASE UNCHANGED job
  <2>1. {k \in Jobs : Tended(k)}' \subseteq {k \in Jobs : Tended(k)}
    <3>1. \A k \in Jobs, u \in Thread : At(u, "launch")' /\ thread'[u].job = k
             => At(u, "launch") /\ thread[u].job = k
      BY <1>1 DEF At
    <3> QED
      BY <1>1, <3>1 DEF Tended
  <2> QED
    BY <1>2, <2>1, LifeSame DEF Lifecycle!Next, Lifecycle!Abandon
<1>3. CASE thread[t].pc = "launch" /\ Finish(thread[t].job, "failed")
  <2>1. PICK j \in Jobs :
          /\ j = thread[t].job /\ worker[j].pc = "none"
          /\ \A u \in Thread : thread[u].pc = "launch" /\ thread[u].job = j => u = t
    BY <1>3, LaunchAlone
  <2>2. Tended(j) /\ ~Tended(j)'
    BY <1>1, <1>3, <2>1 DEF Tended, At, Sync
  <2>3. \A k \in Jobs : k # j => (Tended(k)' <=> Tended(k))
    <3>1. ASSUME NEW k \in Jobs, k # j, NEW u \in Thread
          PROVE  At(u, "launch")' /\ thread'[u].job = k <=> At(u, "launch") /\ thread[u].job = k
      BY <1>1, <2>1, <3>1 DEF At
    <3> QED
      BY <1>1, <3>1 DEF Tended
  <2>4. {k \in Jobs : Tended(k)}' = {k \in Jobs : Tended(k)} \ {j}
    BY <2>1, <2>2, <2>3
  <2>5. "failed" \in Lifecycle!Outcomes(j)
    BY DEF Lifecycle!Outcomes
  <2>6. Lifecycle!Conclude(j)
    BY <1>0, <1>3, <2>1, <2>2, <2>4, <2>5, FinishLife DEF Lifecycle!Conclude, Final
  <2> QED
    BY <2>1, <2>6 DEF Lifecycle!Next, Lifecycle!SyncStep
<1> QED
  BY <1>2, <1>3 DEF Gives

LEMMA CreatesLife ==
    ASSUME JobsInv, AskedInv, NEW t \in Thread, Creates(t)
    PROVE  [Lifecycle!Next]_(Lifecycle!vars)
<1>0. TypeOK
  BY DEF JobsInv
<1>1. PICK j \in Jobs, s \in Sources :
        /\ s = thread[t].source
        /\ job[j].state = "absent" /\ job'[j].state = "queued" /\ job'[j].source = s
        /\ ~job'[j].cancel
        /\ \A k \in Jobs : k # j => job'[k] = job[k]
  BY <1>0, CreateRow DEF TypeOK, ThreadRec
<1>2. {k \in Jobs : Tended(k)}' = {k \in Jobs : Tended(k)}
  BY LaunchersSame DEF Creates, Goes
<1>3. {k \in Jobs : job[k].cancel}' = {k \in Jobs : job[k].cancel}
  BY <1>1 DEF AskedInv
<1>4. [k \in Jobs |-> job[k].source]' = [[k \in Jobs |-> job[k].source] EXCEPT ![j] = s]
  BY <1>1
<1>5. Lifecycle!Move(j, "absent", "queued")
  BY <1>1, LifeMoves DEF LifeOf
<1>6. ASSUME NEW k \in Lifecycle!InLife(Lifecycle!Unended)
      PROVE  k \in Jobs /\ job[k].source # s
  <2>1. k \in Jobs /\ LifeOf(k) \in {"queued", "running", "committing"}
    BY <1>6 DEF Lifecycle!InLife, Lifecycle!Unended, Lifecycle!AtWork
  <2>2. job[k].state \in {"queued", "running"}
    BY <1>0, <2>1 DEF LifeOf, TypeOK, Job, JobState, Open, Final
  <2>3. OpenOf(thread[t].source) = {}
    BY DEF Creates
  <2>4. k \notin OpenOf(s)
    BY <1>1, <2>3
  <2> QED
    BY <2>1, <2>2, <2>4 DEF OpenOf, Open
<1>7. Lifecycle!Accept(j, s)
  BY <1>2, <1>3, <1>4, <1>5, <1>6 DEF Lifecycle!Accept
<1> QED
  BY <1>7 DEF Lifecycle!Next, Lifecycle!SyncStep

LEMMA ClaimsLife ==
    ASSUME JobsInv, NEW t \in Thread, Claims(t)
    PROVE  [Lifecycle!Next]_(Lifecycle!vars)
<1>0. TypeOK /\ JobInv
  BY DEF JobsInv
<1>1. PICK j \in Jobs :
        /\ j = thread[t].job
        /\ job[j].state = "queued" /\ job'[j].state = "running" /\ ~job[j].cancel
        /\ job'[j].source = job[j].source /\ ~job'[j].cancel
        /\ job'[j].committing <=> job[j].committing
        /\ \A k \in Jobs : k # j => job'[k] = job[k]
  BY <1>0, ClaimRow
<1>2. ~job[j].committing
  BY <1>1 DEF JobsInv, RunInv, CommittingRuns
<1>3. Lifecycle!Move(j, "queued", "running")
  BY <1>1, <1>2, LifeMoves DEF LifeOf
<1>4. /\ [k \in Jobs |-> job[k].source]' = [k \in Jobs |-> job[k].source]
      /\ {k \in Jobs : job[k].cancel}' = {k \in Jobs : job[k].cancel}
  BY <1>1
<1>5. /\ UNCHANGED worker /\ thread[t].pc = "claim" /\ thread'[t].pc = "launch"
      /\ thread'[t].job = j /\ \A u \in Thread : u # t => thread'[u] = thread[u]
  BY <1>1 DEF Claims, Goes
<1>6. {k \in Jobs : Tended(k)}' = {k \in Jobs : Tended(k)} \cup {j}
  <2>1. ASSUME NEW k \in Jobs, k # j, NEW u \in Thread
        PROVE  At(u, "launch")' /\ thread'[u].job = k <=> At(u, "launch") /\ thread[u].job = k
    BY <1>1, <1>5, <2>1 DEF At
  <2>2. \A k \in Jobs : k # j => (Tended(k)' <=> Tended(k))
    BY <1>5, <2>1 DEF Tended
  <2>3. Tended(j)'
    BY <1>5 DEF Tended, At
  <2> QED
    BY <2>2, <2>3
<1>7. Lifecycle!InLife(Lifecycle!AtWork) = Running
  <2>1. \A k \in Jobs : LifeOf(k) \in {"running", "committing"} <=> job[k].state = "running"
    BY <1>0 DEF LifeOf, TypeOK, Job, JobState, Open, Final
  <2> QED
    BY <2>1 DEF Lifecycle!InLife, Lifecycle!AtWork, Running
<1>8. Lifecycle!Cardinality(Lifecycle!InLife(Lifecycle!AtWork)) < Limit
  <2>1. Cardinality(Running) < Limit
    BY DEF Claims, MayClaim
  <2>2. Lifecycle!Cardinality(Running) = Cardinality(Running)
    BY DEF Lifecycle!Cardinality, Cardinality
  <2> QED
    BY <1>7, <2>1, <2>2
<1>9. Lifecycle!Start(j)
  BY <1>1, <1>3, <1>4, <1>6, <1>8 DEF Lifecycle!Start
<1> QED
  BY <1>9 DEF Lifecycle!Next, Lifecycle!SyncStep

LEMMA StartLife ==
    ASSUME JobsInv, AskedInv, NEW t \in Thread, StartStep(t)
    PROVE  [Lifecycle!Next]_(Lifecycle!vars)
<1>0. TypeOK
  BY DEF JobsInv
<1>1. CASE Acquires(t) \/ Answers(t)
  <2>1. {k \in Jobs : Tended(k)}' = {k \in Jobs : Tended(k)}
    BY <1>1, LaunchersSame DEF Acquires, Answers, Goes, Rests, Loop
  <2> QED
    BY <1>1, <2>1, LifeSame DEF Acquires, Answers, Lifecycle!vars
<1>2. CASE Launches(t)
  <2>1. PICK j \in Jobs : j = thread[t].job
    BY <1>2, LaunchAlone DEF Launches
  <2>2. /\ thread[t].pc = "launch" /\ thread'[t].pc = "answer" /\ UNCHANGED job
        /\ \A u \in Thread : u # t => thread'[u] = thread[u]
    BY <1>2 DEF Launches, Goes
  <2>3. worker'[j].pc = "begin" /\ \A k \in Jobs : k # j => worker'[k] = worker[k]
    <3>1. PICK p \in Servers : worker' = [worker EXCEPT ![j] =
                                            [IdleWorker EXCEPT !.pc = "begin", !.server = p]]
      BY <1>2, <2>1 DEF Launches
    <3>2. [IdleWorker EXCEPT !.pc = "begin", !.server = p].pc = "begin"
      BY DEF IdleWorker
    <3> QED
      BY <1>0, <3>1, <3>2 DEF TypeOK
  <2>4. Tended(j) /\ Tended(j)'
    BY <2>1, <2>2, <2>3 DEF Tended, At, Sync
  <2>5. ASSUME NEW k \in Jobs, k # j
        PROVE  Tended(k)' <=> Tended(k)
    <3>1. \A u \in Thread : At(u, "launch")' /\ thread'[u].job = k <=> At(u, "launch") /\ thread[u].job = k
      BY <2>1, <2>2, <2>5 DEF At
    <3> QED
      BY <2>3, <2>5, <3>1 DEF Tended
  <2>6. {k \in Jobs : Tended(k)}' = {k \in Jobs : Tended(k)}
    BY <2>4, <2>5
  <2> QED
    BY <2>2, <2>6, LifeSame DEF Lifecycle!vars
<1> QED
  BY <1>0, <1>1, <1>2, GivesLife, CreatesLife, ClaimsLife, StartEffect

LEMMA WorkerLife ==
    ASSUME JobsInv, AskedInv, NEW j \in Jobs, WorkerStep(j)
    PROVE  [Lifecycle!Next]_(Lifecycle!vars)
<1>0. TypeOK
  BY DEF JobsInv
<1>1. UNCHANGED thread /\ \A k \in Jobs : k # j => worker'[k] = worker[k]
  BY <1>0, WorkerEffect
<1>2. CASE WorkerBeginCommit(j) /\ worker'[j].pc = "commit"
  <2>1. /\ worker[j].pc = "read" /\ job[j].state = "running" /\ ~job[j].cancel
        /\ job'[j].state = "running" /\ job'[j].source = job[j].source
        /\ ~job'[j].cancel /\ job'[j].committing
        /\ \A k \in Jobs : k # j => job'[k] = job[k]
    BY <1>0, <1>2, CommitRow
  <2>2. ~job[j].committing
    BY <2>1 DEF JobsInv, CommitInv, Commits
  <2>3. Lifecycle!Move(j, "running", "committing")
    BY <2>1, <2>2, LifeMoves DEF LifeOf
  <2>4. {k \in Jobs : Tended(k)}' = {k \in Jobs : Tended(k)} /\ Tended(j)
    BY <1>1, <1>2, <2>1, TendedSame DEF Tended, Sync
  <2>5. /\ [k \in Jobs |-> job[k].source]' = [k \in Jobs |-> job[k].source]
        /\ {k \in Jobs : job[k].cancel}' = {k \in Jobs : job[k].cancel}
    BY <2>1
  <2>6. Lifecycle!Commit(j)
    BY <2>1, <2>3, <2>4, <2>5 DEF Lifecycle!Commit
  <2> QED
    BY <2>6 DEF Lifecycle!Next, Lifecycle!SyncStep
<1>3. CASE WorkerFinish(j) /\ worker[j].pc = "finish" /\ worker'[j].pc = "release"
  <2> DEFINE outcome == worker[j].outcome
  <2>1. outcome \in Final /\ Finish(j, outcome)
    BY <1>0, <1>3 DEF WorkerFinish, TypeOK, Worker
  <2>2. Tended(j)
    BY <1>3 DEF Tended
  <2>3. job[j].state = "running"
    BY <2>2, TendedRow
  <2>4. LifeOf(j) = IF job[j].committing THEN "committing" ELSE "running"
    BY <2>3 DEF LifeOf
  <2>5. /\ outcome \in {"succeeded", "failed", "cancelled"}
        /\ outcome = "succeeded" => job[j].committing
        /\ outcome = "cancelled" => ~job[j].committing /\ job[j].cancel
    BY <1>3, <2>1 DEF JobsInv, CommitInv, Commits, AskedInv, Final
  <2>6. outcome \in Lifecycle!Outcomes(j)
    BY <2>4, <2>5 DEF Lifecycle!Outcomes
  <2>7. ASSUME NEW u \in Thread, thread[u].pc = "launch"
        PROVE  thread[u].job # j
    BY <1>3, <2>7, LaunchAlone
  <2>8. /\ ~Tended(j)'
        /\ \A k \in Jobs : k # j => (Tended(k)' <=> Tended(k))
    BY <1>1, <1>3, <2>7 DEF Tended, At, Sync
  <2>9. {k \in Jobs : Tended(k)}' = {k \in Jobs : Tended(k)} \ {j}
    BY <2>2, <2>8
  <2>10. Lifecycle!Conclude(j)
    BY <1>0, <2>1, <2>2, <2>6, <2>9, FinishLife DEF Lifecycle!Conclude
  <2> QED
    BY <2>10 DEF Lifecycle!Next, Lifecycle!SyncStep
<1>4. CASE /\ UNCHANGED job
           /\ worker'[j].pc \in Sync \cup {"finish"} <=> worker[j].pc \in Sync \cup {"finish"}
  BY <1>1, <1>4, LifeSame, TendedSame DEF Lifecycle!vars
<1> QED
  BY <1>0, <1>2, <1>3, <1>4, WorkerRow DEF Sync

LEMMA CancelLife ==
    ASSUME JobsInv, NEW s \in Sources, Cancel(s)
    PROVE  [Lifecycle!Next]_(Lifecycle!vars)
<1>0. TypeOK
  BY DEF JobsInv
<1>1. PICK j \in Jobs :
        /\ ~job[j].committing
        /\ job'[j].source = job[j].source /\ job'[j].cancel /\ ~job'[j].committing
        /\ \/ job[j].state = "running" /\ job'[j].state = "running"
           \/ job[j].state = "queued" /\ job'[j].state = "cancelled"
        /\ \A k \in Jobs : k # j => job'[k] = job[k]
  BY <1>0, CancelRow
<1>2. Lifecycle!Move(j, "queued", "cancelled") \/ Lifecycle!Move(j, "running", "running")
  BY <1>1, LifeMoves DEF LifeOf
<1>3. /\ [k \in Jobs |-> job[k].source]' = [k \in Jobs |-> job[k].source]
      /\ {k \in Jobs : job[k].cancel}' = {k \in Jobs : job[k].cancel} \cup {j}
  BY <1>1
<1>4. {k \in Jobs : Tended(k)}' = {k \in Jobs : Tended(k)}
  BY TendedSame DEF Cancel, threads
<1>5. Lifecycle!Cancel(j)
  BY <1>2, <1>3, <1>4 DEF Lifecycle!Cancel
<1> QED
  BY <1>5 DEF Lifecycle!Next, Lifecycle!SyncStep

LEMMA DeleteLife ==
    ASSUME JobsInv, NEW s \in Sources, Delete(s)
    PROVE  Lifecycle!Remove(s)
<1>0. TypeOK
  BY DEF JobsInv
<1>1. \A k \in Jobs : /\ job'[k].source = job[k].source
                      /\ job'[k].cancel <=> job[k].cancel
                      /\ job'[k].committing <=> job[k].committing
  BY <1>0, DeleteRows
<1>2. /\ [k \in Jobs |-> job[k].source]' = [k \in Jobs |-> job[k].source]
      /\ {k \in Jobs : job[k].cancel}' = {k \in Jobs : job[k].cancel}
  BY <1>1
<1>3. {k \in Jobs : Tended(k)}' = {k \in Jobs : Tended(k)}
  BY TendedSame DEF Delete
<1>4. \A k \in {i \in Jobs : Tended(i)} : job[k].source # s
  BY TendedRow DEF Delete
<1>5. ASSUME NEW k \in Jobs
      PROVE  LifeOf(k)' = IF LifeOf(k) # "absent" /\ job[k].source = s THEN "deleted" ELSE LifeOf(k)
  <2>1. job'[k] = IF RowOf(k) /\ job[k].source = s
                  THEN [job[k] EXCEPT !.state = "deleted"] ELSE job[k]
    BY DEF Delete
  <2>2. CASE RowOf(k) /\ job[k].source = s
    <3>1. job'[k].state = "deleted"
      BY <1>0, <2>1, <2>2, RowChanges DEF TypeOK
    <3> QED
      BY <2>2, <3>1 DEF LifeOf, RowOf
  <2>3. CASE ~(RowOf(k) /\ job[k].source = s)
    BY <2>1, <2>3 DEF LifeOf, RowOf
  <2> QED
    BY <2>2, <2>3
<1> QED
  BY <1>2, <1>3, <1>4, <1>5 DEF Lifecycle!Remove

LEMMA ExitLife ==
    ASSUME JobsInv, NEW p \in Servers, Exit(p)
    PROVE  Lifecycle!Abandon
<1>1. /\ UNCHANGED job
      /\ \A k \in Jobs : worker'[k] = worker[k] \/ worker'[k] = IdleWorker
      /\ \A t \in Thread : thread'[t] = thread[t] \/ thread'[t] = IdleThread
  BY DEF Exit, tables
<1>2. \A k \in Jobs : Tended(k)' => Tended(k)
  BY <1>1 DEF Tended, At, IdleWorker, IdleThread, Sync
<1> QED
  BY <1>1, <1>2, LifeSame DEF Lifecycle!Abandon

LEMMA QuietLife ==
    ASSUME JobsInv, Quiet
    PROVE  [Lifecycle!Next]_(Lifecycle!vars)
<1>1. CASE \E s \in Sources : Cancel(s)
  BY <1>1, CancelLife
<1>2. CASE ~ \E s \in Sources : Cancel(s)
  <2>1. UNCHANGED job
    BY <1>2 DEF Quiet, ListRead, ListRepair, Stop, Restart, Share, IntervalPasses, SetSchedule,
                Update, Publish, Remove, tables
  <2>2. {k \in Jobs : Tended(k)}' = {k \in Jobs : Tended(k)}
    BY QuietEffect, QuietWorkers, TendedSame DEF JobsInv
  <2> QED
    BY <2>1, <2>2, LifeSame DEF Lifecycle!vars
<1> QED
  BY <1>1, <1>2

LEMMA SyncLife ==
    ASSUME JobsInv, AskedInv, [Next]_vars
    PROVE  [Lifecycle!Next]_(Lifecycle!vars)
<1>1. CASE \E s \in Sources : EditStep(s) \/ \E p \in Servers : ResetCheckpoint(p, s)
  <2>1. CASE \E s \in Sources : Delete(s)
    BY <2>1, DeleteLife DEF Lifecycle!Next
  <2>2. CASE ~ \E s \in Sources : Delete(s)
    <3>1. UNCHANGED <<job, thread, worker>>
      BY <1>1, <2>2 DEF EditStep, PurgeDocuments, WriteConfig, ResetCheckpoint, tables, threads
    <3> QED
      BY <3>1, LifeSame, TendedSame DEF Lifecycle!vars
  <2> QED
    BY <2>1, <2>2
<1>2. CASE UNCHANGED vars
  BY <1>2, LifeSame, TendedSame DEF vars, tables, threads, Lifecycle!vars
<1>3. CASE \E p \in Servers : Exit(p)
  BY <1>3, ExitLife DEF Lifecycle!Next
<1> QED
  BY <1>1, <1>2, <1>3, AskLife, StartLife, WorkerLife, QuietLife, NextCases

\* SourceSync implements SyncLifecycle: whatever ticks that list before they act,
\* requests, cancellations, removals and exits of several processes do, they take
\* each sync through one life: accepted alone, started within the limit, committed
\* or cancelled, ended by whoever has it in hand, and never begun again (create,
\* claim, cancel, begin_commit, finish, tick, stop_jobs).
THEOREM SyncsKept == Spec => SyncPromise
<1>1. Init => Lifecycle!Init
  <2> SUFFICES ASSUME Init
               PROVE  Lifecycle!Init
    OBVIOUS
  <2>1. \A j \in Jobs : LifeOf(j) = "absent" /\ ~job[j].cancel /\ job[j].source \in Sources
    BY Somebody DEF Init, NoJobRow, LifeOf
  <2>2. \A j \in Jobs : ~Tended(j)
    BY DEF Init, Tended, At, IdleThread, IdleWorker, Sync
  <2> QED
    BY <2>1, <2>2 DEF Lifecycle!Init
<1>2. JobsInv /\ AskedInv /\ [Next]_vars => [Lifecycle!Next]_(Lifecycle!vars)
  BY SyncLife
<1> QED
  BY <1>1, <1>2, JobsInvariant, AskedInvariant, PTL DEF Spec, SyncPromise, Lifecycle!Spec
=============================================================================
