------------------------------- MODULE GpuLease -------------------------------
(***************************************************************************)
(* Who may use the one GPU: local image jobs (workflow/providers.py),      *)
(* local chat (engine/gpu_gate.py), the 3D worker (deploy/hunyuan/         *)
(* worker.py behind server/hunyuan_router.py) and the recovery thread      *)
(* (workflow/gpu_recovery.py).                                             *)
(*                                                                         *)
(* They coordinate through three files: a flock (mode), the marker         *)
(* <lock>.blocked, which outlives the process that wrote it, and the lease *)
(* <lock>.json of a 3D job that leaves an alternate model to chat.  The    *)
(* image server and Ollama do not take the lock; every request to them may *)
(* fail, and a submission may be accepted although its answer is lost.     *)
(***************************************************************************)
EXTENDS Naturals, FiniteSets

CONSTANTS
    Images,            \* threads that generate images
    Chats,             \* local chat or embedding requests
    Recovery, Hunyuan, \* the recovery thread; the 3D worker
    NoJob,
    Local,             \* the image server is the one recovery may restart
    AutoRestart,       \* OPENJARVIS_GPU_AUTO_RESTART
    RestartBudget,     \* restarts of the image server per marker (3)
    FailureLimit,      \* failed checks in a row before a restart (3)
    MaxCrashes         \* bound on crashes of either process

Procs == Images \cup Chats \cup {Recovery, Hunyuan}

ASSUME ProcessAssumption ==
    /\ Images \cap Chats = {}
    /\ Recovery \notin Images \cup Chats /\ Hunyuan \notin Images \cup Chats
    /\ Recovery # Hunyuan
    /\ NoJob \notin Images
ASSUME SettingsAssumption ==
    /\ Local \in BOOLEAN /\ AutoRestart \in BOOLEAN /\ MaxCrashes \in Nat
    /\ RestartBudget \in Nat /\ FailureLimit \in Nat \ {0}

VARIABLES
    pc,        \* where each process is
    mode,      \* how each holds the flock
    marker,    \* <lock>.blocked
    lease,     \* <lock>.json names an alternate model
    server,    \* the image server: queue, history, GPU memory
    ollama,    \* models Ollama has loaded
    safe,      \* safe_to_release of each image thread
    alternate, \* chats and 3D jobs that were given the alternate model
    memory,    \* what the recovery thread remembers
    attempts,  \* history, for this marker: restarts of the image server
    checks,    \* history, for this marker: failed checks since its last restart
    crashes

filevars == <<marker, lease>>
gpuvars  == <<server, ollama>>
vars == <<pc, mode, filevars, gpuvars, safe, alternate, memory, attempts, checks, crashes>>

Marker == [state: {"absent", "torn", "written"}, restarts: 0..RestartBudget, cooling: BOOLEAN]
Server == [pending: SUBSET Images, running: Images \cup {NoJob},
           history: Images \cup {NoJob}, held: BOOLEAN]
\* identity = state["created"] (known) and the locals of tick.
Memory == [failures: 0..FailureLimit, known: BOOLEAN, restarts: 0..RestartBudget, ready: BOOLEAN]
PC == {"idle", "lock", "recheck", "unload", "inspect", "truncate", "write", "submit",
       "rejected", "poll", "stop", "delete", "confirm", "wait", "unlink", "use",
       "posted", "publish", "share", "start", "generate", "upgrade", "restore", "down",
       "sample", "failed", "restart", "release"}

TypeOK ==
    /\ pc \in [Procs -> PC]
    /\ mode \in [Procs -> {"none", "shared", "exclusive"}]
    /\ marker \in Marker
    /\ lease \in BOOLEAN
    /\ server \in Server
    /\ ollama \subseteq {"normal", "alternate"}
    /\ safe \in [Images -> BOOLEAN]
    /\ alternate \subseteq Chats \cup {Hunyuan}
    /\ memory \in Memory
    /\ attempts \in Nat
    /\ checks \in 0..FailureLimit
    /\ crashes \in 0..MaxCrashes

NoMarker   == [state |-> "absent", restarts |-> 0, cooling |-> FALSE]
TornMarker == [state |-> "torn", restarts |-> 0, cooling |-> FALSE]
Written(n, c) == [state |-> "written", restarts |-> n, cooling |-> c]
IdleServer == [pending |-> {}, running |-> NoJob, history |-> NoJob, held |-> FALSE]
NoMemory   == [failures |-> 0, known |-> FALSE, restarts |-> 0, ready |-> FALSE]

Init ==
    /\ pc = [p \in Procs |-> "idle"]
    /\ mode = [p \in Procs |-> "none"]
    /\ marker = NoMarker
    /\ lease = FALSE
    /\ server = IdleServer
    /\ ollama \in SUBSET {"normal"}
    /\ safe = [i \in Images |-> FALSE]
    /\ alternate = {}
    /\ memory = NoMemory
    /\ attempts = 0
    /\ checks = 0
    /\ crashes = 0

-----------------------------------------------------------------------------
(* Program counters, the lock, and what the files and servers answer.      *)

At(p, l) == pc[p] = l
Goto(p, l) == pc' = [pc EXCEPT ![p] = l]
Step(p, from, to) == At(p, from) /\ Goto(p, to)

\* flock(fd, m) can be granted; a process that converts its lock drops it first.
Grantable(p, m) ==
    \A q \in Procs \ {p} :
        mode[q] \in IF m = "shared" THEN {"none", "shared"} ELSE {"none"}
Hold(p, m) == mode' = [mode EXCEPT ![p] = m]

\* LOCK_NB: acquire or give up.
TryLock(p, m, next) ==
    \/ Grantable(p, m) /\ Hold(p, m) /\ Goto(p, next)
    \/ ~Grantable(p, m) /\ Goto(p, "idle") /\ UNCHANGED mode

Blocked == marker.state # "absent"
QueueEmpty == server.pending = {} /\ server.running = NoJob
\* cleanup_snapshot: queue empty and memory back at the baseline.
Quiet == QueueEmpty /\ ~server.held

\* Fault: what /api/ps still lists is not waited for.
UnloadOllama_NoWait(p, next) ==
    \E left \in SUBSET ollama :
        /\ ollama' = left
        /\ Goto(p, "release") \/ Goto(p, next)

\* Ask Ollama to unload every model; go on only when /api/ps lists none.
UnloadOllama(p, next) ==
    \E left \in SUBSET ollama :
        /\ ollama' = left
        /\ Goto(p, "release") \/ (left = {} /\ Goto(p, next))

-----------------------------------------------------------------------------
(* An image job: image_gpu around generate_image.                          *)

ImageBegin(i) ==
    /\ ~Blocked
    /\ Step(i, "idle", "lock")
    /\ UNCHANGED <<mode, filevars, gpuvars, safe, alternate, memory, attempts, checks, crashes>>

ImageLock(i) ==
    /\ At(i, "lock")
    /\ TryLock(i, "exclusive", "recheck")
    /\ UNCHANGED <<filevars, gpuvars, safe, alternate, memory, attempts, checks, crashes>>

ImageRecheck(i) ==
    /\ At(i, "recheck")
    /\ Goto(i, IF Blocked THEN "release" ELSE "unload")
    /\ UNCHANGED <<mode, filevars, gpuvars, safe, alternate, memory, attempts, checks, crashes>>

ImageUnload(i) ==
    /\ At(i, "unload")
    /\ UnloadOllama(i, "inspect")
    /\ UNCHANGED <<mode, filevars, server, safe, alternate, memory, attempts, checks, crashes>>

\* The server's queue is empty and its memory statistics are readable.
ImageInspect(i) ==
    /\ At(i, "inspect")
    /\ Goto(i, "release") \/ (QueueEmpty /\ Goto(i, "truncate"))
    /\ UNCHANGED <<mode, filevars, gpuvars, safe, alternate, memory, attempts, checks, crashes>>

\* block_gpu: O_CREAT|O_TRUNC, then write and fsync.
ImageTruncate(i) ==
    /\ Step(i, "truncate", "write")
    /\ marker' = TornMarker
    /\ memory' = [memory EXCEPT !.known = FALSE]
    /\ attempts' = 0 /\ checks' = 0
    /\ UNCHANGED <<mode, lease, gpuvars, safe, alternate, crashes>>

ImageWrite(i) ==
    /\ At(i, "write")
    /\ \/ marker' = Written(0, FALSE) /\ Goto(i, "submit")
       \/ Goto(i, "release") /\ UNCHANGED marker
    /\ UNCHANGED <<mode, lease, gpuvars, safe, alternate, memory, attempts, checks, crashes>>

\* POST /prompt: accepted or not, and answered or not.
ImageSubmit(i) ==
    /\ At(i, "submit")
    /\ \/ /\ server' = [server EXCEPT !.pending = @ \cup {i}, !.history = NoJob]
          /\ Goto(i, "poll") \/ Goto(i, "release")
       \/ UNCHANGED server /\ (Goto(i, "rejected") \/ Goto(i, "release"))
    /\ UNCHANGED <<mode, filevars, ollama, safe, alternate, memory, attempts, checks, crashes>>

\* A 400 answer: unlink the marker if the server is seen to be quiet.
ImageRejected(i) ==
    /\ At(i, "rejected")
    /\ Goto(i, "release") \/ (Quiet /\ Goto(i, "unlink"))
    /\ UNCHANGED <<mode, filevars, gpuvars, safe, alternate, memory, attempts, checks, crashes>>

\* The history shows the image, or shows an error, or cannot be read in time.
ImagePoll(i) ==
    /\ At(i, "poll")
    /\ \/ /\ server.history = i
          /\ safe' = [safe EXCEPT ![i] = TRUE]
          /\ Goto(i, "wait")
       \/ Goto(i, "stop") /\ UNCHANGED safe
    /\ UNCHANGED <<mode, filevars, gpuvars, alternate, memory, attempts, checks, crashes>>

\* stop_image_job reads the queue once; an interrupt lets the job end early.
ImageStop(i) ==
    /\ At(i, "stop")
    /\ \/ Goto(i, "wait")
       \/ Goto(i, IF i \in server.pending THEN "delete" ELSE "confirm")
    /\ UNCHANGED <<mode, filevars, gpuvars, safe, alternate, memory, attempts, checks, crashes>>

\* The job may have left the pending list since.
ImageDelete(i) ==
    /\ At(i, "delete")
    /\ \/ Step(i, "delete", "confirm") /\ server' = [server EXCEPT !.pending = @ \ {i}]
       \/ Step(i, "delete", "wait") /\ UNCHANGED server
    /\ UNCHANGED <<mode, filevars, ollama, safe, alternate, memory, attempts, checks, crashes>>

ImageConfirm(i) ==
    /\ At(i, "confirm")
    /\ \/ /\ i \notin server.pending /\ server.running # i
          /\ safe' = [safe EXCEPT ![i] = TRUE]
       \/ UNCHANGED safe
    /\ Goto(i, "wait")
    /\ UNCHANGED <<mode, filevars, gpuvars, alternate, memory, attempts, checks, crashes>>

\* Fault: a cleanup that fails leaves safe_to_release as it was.
CleanupOutcome_KeepsSafe(i) == Goto(i, IF safe[i] THEN "unlink" ELSE "release")

\* /free and wait_for_gpu_release: confirmed, or safe_to_release = False.
CleanupOutcome(i) ==
    \/ Quiet /\ safe[i] /\ Goto(i, "unlink")
    \/ Goto(i, "release")

ImageWait(i) ==
    /\ At(i, "wait")
    /\ CleanupOutcome(i)
    /\ UNCHANGED <<mode, filevars, gpuvars, safe, alternate, memory, attempts, checks, crashes>>

ImageUnlink(i) ==
    /\ Step(i, "unlink", "release")
    /\ marker' = NoMarker
    /\ UNCHANGED <<mode, lease, gpuvars, safe, alternate, memory, attempts, checks, crashes>>

ImageRelease(i) ==
    /\ Step(i, "release", "idle")
    /\ Hold(i, "none")
    /\ safe' = [safe EXCEPT ![i] = FALSE]
    /\ UNCHANGED <<filevars, gpuvars, alternate, memory, attempts, checks, crashes>>

ImageStep(i) ==
    \/ ImageLock(i) \/ ImageRecheck(i) \/ ImageUnload(i) \/ ImageInspect(i)
    \/ ImageTruncate(i) \/ ImageWrite(i) \/ ImageSubmit(i) \/ ImageRejected(i)
    \/ ImagePoll(i) \/ ImageStop(i) \/ ImageDelete(i) \/ ImageConfirm(i)
    \/ ImageWait(i) \/ ImageUnlink(i) \/ ImageRelease(i)

-----------------------------------------------------------------------------
(* A local model request: gpu_reservation around chat or an embedding.     *)

ChatBegin(c) ==
    /\ ~Blocked
    /\ Step(c, "idle", "lock")
    /\ UNCHANGED <<mode, filevars, gpuvars, safe, alternate, memory, attempts, checks, crashes>>

ChatLock(c) ==
    /\ At(c, "lock")
    /\ TryLock(c, "shared", "recheck")
    /\ UNCHANGED <<filevars, gpuvars, safe, alternate, memory, attempts, checks, crashes>>

\* Fault: the marker is looked at only before the lock is taken.
ChatRecheck_Trusts(c) ==
    /\ At(c, "recheck")
    /\ Goto(c, "use")
    /\ ollama' = ollama \cup {IF lease THEN "alternate" ELSE "normal"}
    /\ alternate' = IF lease THEN alternate \cup {c} ELSE alternate
    /\ UNCHANGED <<mode, filevars, server, safe, memory, attempts, checks, crashes>>

\* Under the lock: the marker again, then the lease.  A chat is given the
\* alternate model; a guard without a model parameter refuses instead.
ChatRecheck(c) ==
    /\ At(c, "recheck")
    /\ \/ /\ ~Blocked
          /\ Goto(c, "use")
          /\ ollama' = ollama \cup {IF lease THEN "alternate" ELSE "normal"}
          /\ alternate' = IF lease THEN alternate \cup {c} ELSE alternate
       \/ /\ Blocked \/ lease
          /\ Goto(c, "release")
          /\ UNCHANGED <<ollama, alternate>>
    /\ UNCHANGED <<mode, filevars, server, safe, memory, attempts, checks, crashes>>

ChatEnd(c) ==
    /\ Step(c, "use", "release")
    /\ UNCHANGED <<mode, filevars, gpuvars, safe, alternate, memory, attempts, checks, crashes>>

ChatRelease(c) ==
    /\ Step(c, "release", "idle")
    /\ Hold(c, "none")
    /\ alternate' = alternate \ {c}
    /\ UNCHANGED <<filevars, gpuvars, safe, memory, attempts, checks, crashes>>

ChatStep(c) == ChatLock(c) \/ ChatRecheck(c) \/ ChatEnd(c) \/ ChatRelease(c)

-----------------------------------------------------------------------------
(* A 3D job: HunyuanJobs.call in the API, then submit and run_job in the   *)
(* worker, whose busy lock admits one job at a time.                       *)

\* The API looks at the marker and posts; only the worker takes the lock.
MeshPost ==
    /\ ~Blocked
    /\ Step(Hunyuan, "idle", "posted")
    /\ UNCHANGED <<mode, filevars, gpuvars, safe, alternate, memory, attempts, checks, crashes>>

MeshSubmit ==
    /\ At(Hunyuan, "posted")
    /\ TryLock(Hunyuan, "exclusive", "unload")
    /\ UNCHANGED <<filevars, gpuvars, safe, alternate, memory, attempts, checks, crashes>>

MeshUnload ==
    /\ At(Hunyuan, "unload")
    /\ UnloadOllama(Hunyuan, "publish")
    /\ UNCHANGED <<mode, filevars, server, safe, alternate, memory, attempts, checks, crashes>>

\* Without an alternate model the job keeps the exclusive lock.  With one, the
\* lease is published before the lock is converted to a shared one.
MeshPublish ==
    /\ At(Hunyuan, "publish")
    /\ \/ /\ lease' = FALSE
          /\ Goto(Hunyuan, "start") \/ Goto(Hunyuan, "release")
          /\ UNCHANGED <<mode, alternate>>
       \/ /\ lease' = TRUE
          /\ alternate' = alternate \cup {Hunyuan}
          /\ Hold(Hunyuan, "none")
          /\ Goto(Hunyuan, "share")
    /\ UNCHANGED <<marker, gpuvars, safe, memory, attempts, checks, crashes>>

MeshShare ==
    /\ Grantable(Hunyuan, "shared")
    /\ Step(Hunyuan, "share", "start")
    /\ Hold(Hunyuan, "shared")
    /\ UNCHANGED <<filevars, gpuvars, safe, alternate, memory, attempts, checks, crashes>>

\* The job's files are written and its thread started.
MeshStart ==
    /\ Step(Hunyuan, "start", "generate")
    /\ UNCHANGED <<mode, filevars, gpuvars, safe, alternate, memory, attempts, checks, crashes>>

\* Fault: the lease is removed while the lock is still shared.
MeshEnd_RestoresEarly ==
    /\ At(Hunyuan, "start") \/ At(Hunyuan, "generate")
    /\ lease' = FALSE
    /\ Goto(Hunyuan, "generate") \/ Goto(Hunyuan, "release")
    /\ UNCHANGED <<mode, marker, gpuvars, safe, alternate, memory, attempts, checks, crashes>>

\* The child process ended, or the job could not be started: a shared lock is
\* given up for an exclusive one, an exclusive one is kept.
MeshEnd ==
    /\ At(Hunyuan, "start") \/ At(Hunyuan, "generate")
    /\ \/ /\ Hunyuan \in alternate
          /\ Hold(Hunyuan, "none")
          /\ Goto(Hunyuan, "upgrade")
       \/ /\ Hunyuan \notin alternate
          /\ Goto(Hunyuan, "release")
          /\ UNCHANGED mode
    /\ UNCHANGED <<filevars, gpuvars, safe, alternate, memory, attempts, checks, crashes>>

\* Blocks until no chat that uses the alternate model is left.
MeshUpgrade ==
    /\ Grantable(Hunyuan, "exclusive")
    /\ Step(Hunyuan, "upgrade", "restore")
    /\ Hold(Hunyuan, "exclusive")
    /\ UNCHANGED <<filevars, gpuvars, safe, alternate, memory, attempts, checks, crashes>>

MeshRestore ==
    /\ Step(Hunyuan, "restore", "release")
    /\ lease' = FALSE
    /\ ollama' \in {ollama, ollama \ {"alternate"}}
    /\ UNCHANGED <<mode, marker, server, safe, alternate, memory, attempts, checks, crashes>>

MeshRelease ==
    /\ Step(Hunyuan, "release", "idle")
    /\ Hold(Hunyuan, "none")
    /\ alternate' = alternate \ {Hunyuan}
    /\ UNCHANGED <<filevars, gpuvars, safe, memory, attempts, checks, crashes>>

\* The service and its child are killed together; the lease stays.
MeshCrash ==
    /\ crashes < MaxCrashes /\ crashes' = crashes + 1
    /\ ~At(Hunyuan, "down") /\ Goto(Hunyuan, "down")
    /\ Hold(Hunyuan, "none")
    /\ alternate' = alternate \ {Hunyuan}
    /\ UNCHANGED <<filevars, gpuvars, safe, memory, attempts, checks>>

\* Fault: a restarted worker leaves the lease of the job it lost.
MeshRestart_KeepsLease ==
    /\ Grantable(Hunyuan, "exclusive")
    /\ Step(Hunyuan, "down", "idle")
    /\ UNCHANGED <<mode, filevars, gpuvars, safe, alternate, memory, attempts, checks, crashes>>

\* clear_stale_lease, under the exclusive lock, before requests are served.
MeshRestart ==
    /\ Grantable(Hunyuan, "exclusive")
    /\ Step(Hunyuan, "down", "idle")
    /\ lease' = FALSE
    /\ UNCHANGED <<mode, marker, gpuvars, safe, alternate, memory, attempts, checks, crashes>>

MeshStep ==
    \/ MeshSubmit \/ MeshUnload \/ MeshPublish \/ MeshShare \/ MeshStart \/ MeshEnd
    \/ MeshRestore \/ MeshRelease \/ MeshRestart

-----------------------------------------------------------------------------
(* The recovery thread: GPURecovery.tick every 15 seconds.                 *)

Remember(m) == memory' = m
RecoveryGoto(l) == Goto(Recovery, l)

RecoveryBegin ==
    /\ At(Recovery, "idle")
    /\ \/ Blocked /\ RecoveryGoto("lock") /\ UNCHANGED memory
       \/ ~Blocked /\ Remember([memory EXCEPT !.failures = 0]) /\ UNCHANGED pc
    /\ UNCHANGED <<mode, filevars, gpuvars, safe, alternate, attempts, checks, crashes>>

RecoveryLock ==
    /\ At(Recovery, "lock")
    /\ TryLock(Recovery, "exclusive", "recheck")
    /\ UNCHANGED <<filevars, gpuvars, safe, alternate, memory, attempts, checks, crashes>>

\* Fault: the marker's identity is never remembered.
Recalled_Never ==
    [memory EXCEPT !.failures = 0, !.restarts = marker.restarts]

\* Fault: the count goes on when the marker is another one.
Recalled_KeepsCount == [memory EXCEPT !.known = TRUE, !.restarts = marker.restarts]

\* A marker with another identity starts a new count of failures.
Recalled ==
    [memory EXCEPT !.known = TRUE,
                   !.failures = IF memory.known THEN @ ELSE 0,
                   !.restarts = marker.restarts]

\* Only a readable marker of the local image server is acted on.
RecoveryRead ==
    /\ At(Recovery, "recheck")
    /\ \/ /\ marker.state = "written" /\ Local
          /\ Remember(Recalled)
          /\ RecoveryGoto(IF marker.cooling THEN "release" ELSE "unload")
       \/ /\ marker.state # "written" \/ ~Local
          /\ RecoveryGoto("release")
          /\ UNCHANGED memory
    /\ UNCHANGED <<mode, filevars, gpuvars, safe, alternate, attempts, checks, crashes>>

RecoveryUnload ==
    /\ At(Recovery, "unload")
    /\ UnloadOllama(Recovery, "inspect")
    /\ UNCHANGED <<mode, filevars, server, safe, alternate, memory, attempts, checks, crashes>>

\* A nonempty queue is left alone; an unreadable server is a failure.
RecoveryInspect ==
    /\ At(Recovery, "inspect")
    /\ \/ RecoveryGoto("failed") /\ UNCHANGED memory
       \/ ~QueueEmpty /\ Remember([memory EXCEPT !.failures = 0]) /\ RecoveryGoto("release")
       \/ QueueEmpty /\ Remember([memory EXCEPT !.ready = Quiet]) /\ RecoveryGoto("sample")
    /\ UNCHANGED <<mode, filevars, gpuvars, safe, alternate, attempts, checks, crashes>>

\* /free, two seconds, and a second sample; a close() during the wait ends the
\* thread, which is ApiCrash.
RecoverySample ==
    /\ At(Recovery, "sample")
    /\ \/ Quiet /\ memory.ready /\ RecoveryGoto("unlink")
       \/ RecoveryGoto("failed")
    /\ UNCHANGED <<mode, filevars, gpuvars, safe, alternate, memory, attempts, checks, crashes>>

\* marker.unlink() raises when an administrator was faster.
RecoveryUnlink ==
    /\ At(Recovery, "unlink")
    /\ \/ /\ Blocked
          /\ marker' = NoMarker
          /\ Remember([memory EXCEPT !.failures = 0])
          /\ RecoveryGoto("release")
       \/ /\ ~Blocked
          /\ RecoveryGoto("failed")
          /\ UNCHANGED <<marker, memory>>
    /\ UNCHANGED <<mode, lease, gpuvars, safe, alternate, attempts, checks, crashes>>

\* The count goes on in the code; only its being below the limit matters.
Capped(n) == IF n < FailureLimit THEN n + 1 ELSE n
Failed == [memory EXCEPT !.failures = Capped(@)]

\* Fault: the budget of restarts is not looked at.
MayRestart_Always == Failed.failures = FailureLimit /\ AutoRestart

MayRestart ==
    /\ Failed.failures = FailureLimit
    /\ memory.restarts < RestartBudget
    /\ AutoRestart

RecoveryFailed ==
    /\ At(Recovery, "failed")
    /\ Remember(Failed)
    /\ checks' = Capped(checks)
    /\ RecoveryGoto(IF MayRestart THEN "truncate" ELSE "release")
    /\ UNCHANGED <<mode, filevars, gpuvars, safe, alternate, attempts, crashes>>

\* The marker was read a moment ago: opening it again succeeds.
RecoveryTruncate ==
    /\ Step(Recovery, "truncate", "write")
    /\ marker' = TornMarker
    /\ UNCHANGED <<mode, lease, gpuvars, safe, alternate, memory, attempts, checks, crashes>>

\* Fault: the marker is rewritten without counting the restart.
Persisted_Uncounted == Written(memory.restarts, TRUE)

Persisted == Written(memory.restarts + 1, TRUE)

RecoveryWrite ==
    /\ At(Recovery, "write")
    /\ \/ /\ marker' = Persisted
          /\ Remember([memory EXCEPT !.failures = 0])
          /\ RecoveryGoto("restart")
       \/ RecoveryGoto("release") /\ UNCHANGED <<marker, memory>>
    /\ UNCHANGED <<mode, lease, gpuvars, safe, alternate, attempts, checks, crashes>>

\* systemctl restart, which may also fail or time out.
RecoveryRestart ==
    /\ Step(Recovery, "restart", "release")
    /\ server' \in {server, IdleServer}
    /\ attempts' = attempts + 1 /\ checks' = 0
    /\ UNCHANGED <<mode, filevars, ollama, safe, alternate, memory, crashes>>

RecoveryRelease ==
    /\ Step(Recovery, "release", "idle")
    /\ Hold(Recovery, "none")
    /\ UNCHANGED <<filevars, gpuvars, safe, alternate, memory, attempts, checks, crashes>>

RecoveryStep ==
    \/ RecoveryBegin \/ RecoveryLock \/ RecoveryRead \/ RecoveryUnload \/ RecoveryInspect
    \/ RecoverySample \/ RecoveryUnlink \/ RecoveryFailed \/ RecoveryTruncate
    \/ RecoveryWrite \/ RecoveryRestart \/ RecoveryRelease

-----------------------------------------------------------------------------
(* The image server, time, crashes and the administrator.                  *)

ServerStart ==
    \E i \in server.pending :
        /\ server.running = NoJob
        /\ server' = [server EXCEPT !.pending = @ \ {i}, !.running = i, !.held = TRUE]
        /\ UNCHANGED <<pc, mode, filevars, ollama, safe, alternate, memory, attempts, checks, crashes>>

ServerFinish ==
    /\ server.running # NoJob
    /\ server' = [server EXCEPT !.running = NoJob, !.history = server.running]
    /\ UNCHANGED <<pc, mode, filevars, ollama, safe, alternate, memory, attempts, checks, crashes>>

\* Memory goes back after the last job, if at all.
ServerFree ==
    /\ server.held /\ server.running = NoJob
    /\ server' = [server EXCEPT !.held = FALSE]
    /\ UNCHANGED <<pc, mode, filevars, ollama, safe, alternate, memory, attempts, checks, crashes>>

\* Two minutes have passed since last_restart.
CoolDown ==
    /\ marker.cooling
    /\ marker' = [marker EXCEPT !.cooling = FALSE]
    /\ UNCHANGED <<pc, mode, lease, gpuvars, safe, alternate, memory, attempts, checks, crashes>>

\* The API process stops: its threads and their locks are gone, files stay.
ApiCrash ==
    /\ crashes < MaxCrashes /\ crashes' = crashes + 1
    /\ pc' = [p \in Procs |-> IF p = Hunyuan THEN pc[p] ELSE "idle"]
    /\ mode' = [p \in Procs |-> IF p = Hunyuan THEN mode[p] ELSE "none"]
    /\ safe' = [i \in Images |-> FALSE]
    /\ alternate' = alternate \cap {Hunyuan}
    /\ memory' = NoMemory
    /\ UNCHANGED <<filevars, gpuvars, attempts, checks>>

\* A marker whose write was interrupted; nothing will complete it.
Unreadable ==
    /\ marker.state = "torn"
    /\ \A p \in Procs : ~At(p, "write")

\* The job has ended, and the recovery thread cannot or must not go on.
NeedsAdministrator ==
    /\ Blocked
    /\ \A i \in Images : mode[i] = "none"
    /\ Unreadable \/ ~Local \/ ~AutoRestart \/ marker.restarts = RestartBudget

\* Stop the image server, remove the marker, start it again.
Administrator ==
    /\ NeedsAdministrator
    /\ server' = IdleServer
    /\ marker' = NoMarker
    /\ UNCHANGED <<pc, mode, lease, ollama, safe, alternate, memory, attempts, checks, crashes>>

Next ==
    \/ \E i \in Images : ImageBegin(i) \/ ImageStep(i)
    \/ \E c \in Chats : ChatBegin(c) \/ ChatStep(c)
    \/ MeshPost \/ MeshStep \/ MeshUpgrade \/ MeshCrash
    \/ RecoveryStep
    \/ ServerStart \/ ServerFinish \/ ServerFree \/ CoolDown
    \/ ApiCrash \/ Administrator

Spec == Init /\ [][Next]_vars

\* Threads and requests in progress go on; nobody has to begin one.  A process
\* that waits in flock is woken at every release.  Ollama unloads eventually,
\* and jobs the image server has accepted come to an end.
Fairness ==
    /\ \A i \in Images : WF_vars(ImageStep(i))
    /\ \A c \in Chats : WF_vars(ChatStep(c))
    /\ WF_vars(MeshStep) /\ SF_vars(MeshShare) /\ SF_vars(MeshUpgrade) /\ SF_vars(MeshRestart)
    /\ WF_vars(RecoveryStep) /\ SF_vars(RecoveryUnload /\ At(Recovery, "inspect")')
    /\ WF_vars(ServerStart) /\ WF_vars(ServerFinish) /\ WF_vars(CoolDown)

FairSpec == Spec /\ Fairness

-----------------------------------------------------------------------------
(* Properties.                                                             *)

\* As long as the image server has a job or holds its memory, the marker is
\* there: whatever process stops, the GPU stays reserved (block_gpu before the
\* submission, unlink after wait_for_gpu_release or two healthy samples).
UnquietIsReserved == ~Quiet => Blocked

\* A local model request runs only while the image server is quiet, although it
\* takes no part in the marker's protocol (gpu_reservation).
ChatNeverMeetsImage == \A c \in Chats : At(c, "use") => Quiet

\* Ollama holds no model while the image server has a job, and never has two
\* jobs from this application (image_gpu).
ImageJobsAreAlone ==
    ~QueueEmpty =>
        /\ ollama = {}
        /\ server.running # NoJob => server.pending = {}
        /\ \A i, j \in server.pending : i = j

\* From the publication of a lease to its removal, every local chat uses the
\* alternate model (submit, run_job, gpu_reservation).
ChatsUseTheAlternate ==
    pc[Hunyuan] \in {"share", "start", "generate", "upgrade", "restore"} =>
        \A c \in Chats : At(c, "use") => c \in alternate

\* The image server is restarted at most three times for one marker, whenever
\* the API stops and starts again (tick: the count is persisted first).
RestartsAreBudgeted == attempts <= RestartBudget

\* A restart is decided only after three failed checks of the present marker:
\* failures of an earlier one do not count (tick: identity).
RestartsNeedFailures == At(Recovery, "truncate") => checks = FailureLimit

\* A reservation left behind ends, unless it needs the administrator.
\* ([]<>~P says the same as P ~> ~P.)
ReservationEnds == []<>(~Blocked \/ NeedsAdministrator)

\* The lease of a 3D job is removed, provided that again and again no chat holds
\* the lock (run_job, clear_stale_lease).
ChatPauses == []<>(\A c \in Chats : mode[c] = "none")
LeaseEnds == ChatPauses => []<>~lease

\* The document: "Further local image, Hunyuan submission and Ollama requests fail
\* visibly while recovery runs": no 3D job uses the GPU with an image job.
MeshNeverMeetsImage == At(Hunyuan, "generate") => Quiet

Sharing == INSTANCE GpuSharing WITH
    reserved <- Blocked,
    busy     <- ~Quiet,
    users    <- {c \in Chats : At(c, "use")},
    moved    <- {c \in Chats : At(c, "use") /\ c \in alternate},
    lent     <- lease,
    restarts <- attempts

\* With every lock, marker, lease and crash in between, the GPU changes hands only
\* as GpuSharing says: no reservation is begun under a chat or taken over from
\* another job, none ends before the image server is quiet, no chat starts in
\* one, and a lease appears and goes only between chats (image_gpu,
\* gpu_reservation, tick, run_job, clear_stale_lease).
SharingPromise == Sharing!Spec
=============================================================================
