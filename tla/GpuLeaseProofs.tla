---------------------------- MODULE GpuLeaseProofs ----------------------------
(***************************************************************************)
(* Proofs about GpuLease: its safety invariants for every set of image     *)
(* threads and chats, every setting and any number of crashes.             *)
(***************************************************************************)
EXTENDS GpuLease, TLAPS

-----------------------------------------------------------------------------
(* The inductive invariant.                                                *)

\* An exclusive lock excludes every other.
Exclusion ==
    \A p, q \in Procs : p # q /\ mode[p] = "exclusive" => mode[q] = "none"

Unlocked == {"idle", "lock", "posted", "share", "upgrade", "down"}

\* Where each process holds the lock, and how.
Places ==
    /\ \A i \in Images : mode[i] = IF pc[i] \in {"idle", "lock"} THEN "none" ELSE "exclusive"
    /\ \A c \in Chats : mode[c] = IF pc[c] \in {"idle", "lock"} THEN "none" ELSE "shared"
    /\ mode[Recovery] = IF pc[Recovery] \in {"idle", "lock"} THEN "none" ELSE "exclusive"
    /\ mode[Hunyuan] =
          IF pc[Hunyuan] \in Unlocked THEN "none"
          ELSE IF pc[Hunyuan] \in {"start", "generate"} /\ Hunyuan \in alternate THEN "shared"
          ELSE "exclusive"

\* What an image thread relies on: the GPU it inspected, the marker it wrote.
Knows(i) ==
    /\ pc[i] \in {"inspect", "truncate", "write", "submit"} => ollama = {}
    /\ pc[i] \in {"truncate", "write", "submit"} => QueueEmpty
    /\ pc[i] = "submit" => Blocked
    /\ pc[i] = "write" => attempts = 0
    /\ pc[i] = "unlink" => Quiet
ImageKnows == \A i \in Images : Knows(i)

\* What the recovery thread relies on within a tick.
RecoveryKnows ==
    /\ pc[Recovery] = "unlink" => Quiet
    /\ pc[Recovery] \in {"unload", "inspect", "sample", "unlink", "failed", "truncate", "write"} =>
          attempts <= memory.restarts /\ memory.known
    /\ pc[Recovery] \in {"truncate", "write"} => memory.restarts < RestartBudget
    /\ pc[Recovery] = "restart" =>
          /\ memory.failures = 0
          /\ attempts < RestartBudget
          /\ marker.state = "written" => attempts < marker.restarts
    /\ memory.known => memory.failures <= checks
    /\ marker.state = "written" => attempts <= marker.restarts

\* A chat that uses a model has seen no marker.
ChatKnows == \A c \in Chats : pc[c] = "use" => ~Blocked

\* The lease covers the shared part of a 3D job; no job begins with one.
LeaseKnows ==
    /\ pc[Hunyuan] \in {"idle", "posted", "unload", "publish", "down"} => Hunyuan \notin alternate
    /\ pc[Hunyuan] \in {"share", "upgrade", "restore"} => Hunyuan \in alternate
    /\ pc[Hunyuan] \in {"share", "start", "generate", "upgrade", "restore"}
          /\ Hunyuan \in alternate => lease

IInv ==
    /\ TypeOK
    /\ Exclusion /\ Places
    /\ ImageKnows /\ RecoveryKnows /\ ChatKnows /\ LeaseKnows
    /\ UnquietIsReserved
    /\ ImageJobsAreAlone
    /\ ChatsUseTheAlternate
    /\ RestartsAreBudgeted
    /\ RestartsNeedFailures

-----------------------------------------------------------------------------
(* Types.                                                                  *)

LEMMA MarkerTypes ==
    /\ NoMarker \in Marker /\ TornMarker \in Marker /\ Written(0, FALSE) \in Marker
    /\ marker \in Marker => [marker EXCEPT !.cooling = FALSE] \in Marker
<1>1. NoMarker \in Marker /\ TornMarker \in Marker /\ Written(0, FALSE) \in Marker
  BY SettingsAssumption DEF NoMarker, TornMarker, Written, Marker
<1>2. marker \in Marker => [marker EXCEPT !.cooling = FALSE] \in Marker
  BY DEF Marker
<1> QED
  BY <1>1, <1>2

LEMMA MemoryTypes ==
    /\ NoMemory \in Memory
    /\ memory \in Memory =>
          /\ [memory EXCEPT !.known = FALSE] \in Memory
          /\ [memory EXCEPT !.failures = 0] \in Memory
<1>1. NoMemory \in Memory
  BY SettingsAssumption DEF NoMemory, Memory
<1>2. memory \in Memory => [memory EXCEPT !.known = FALSE] \in Memory
  BY DEF Memory
<1>3. memory \in Memory => [memory EXCEPT !.failures = 0] \in Memory
  BY SettingsAssumption DEF Memory
<1> QED
  BY <1>1, <1>2, <1>3

LEMMA ServerTypes ==
    /\ IdleServer \in Server
    /\ \A i \in Images : server \in Server =>
          /\ [server EXCEPT !.pending = @ \cup {i}, !.history = NoJob] \in Server
          /\ [server EXCEPT !.pending = @ \ {i}, !.running = i, !.held = TRUE] \in Server
<1>1. IdleServer \in Server
  BY DEF IdleServer, Server
<1>2. ASSUME NEW i \in Images, server \in Server
      PROVE  [server EXCEPT !.pending = @ \cup {i}, !.history = NoJob] \in Server
  BY <1>2 DEF Server
<1>3. ASSUME NEW i \in Images, server \in Server
      PROVE  [server EXCEPT !.pending = @ \ {i}, !.running = i, !.held = TRUE] \in Server
  BY <1>3 DEF Server
<1> QED
  BY <1>1, <1>2, <1>3

LEMMA ImageTypes ==
    ASSUME TypeOK, NEW i \in Images, ImageBegin(i) \/ ImageStep(i)
    PROVE  TypeOK'
<1> i \in Procs
  BY DEF Procs
<1> USE DEF TypeOK, Goto, Step, At, filevars, gpuvars, PC
<1>1. CASE ImageBegin(i)
  BY <1>1 DEF ImageBegin
<1>2. CASE ImageLock(i)
  BY <1>2 DEF ImageLock, TryLock, Hold
<1>3. CASE ImageRecheck(i)
  BY <1>3 DEF ImageRecheck
<1>4. CASE ImageUnload(i)
  BY <1>4 DEF ImageUnload, UnloadOllama
<1>5. CASE ImageInspect(i)
  BY <1>5 DEF ImageInspect
<1>6. CASE ImageTruncate(i)
  <2>1. marker' \in Marker /\ memory' \in Memory
    BY <1>6, MarkerTypes, MemoryTypes DEF ImageTruncate
  <2> QED
    BY <1>6, <2>1, SettingsAssumption DEF ImageTruncate
<1>7. CASE ImageWrite(i)
  <2>1. marker' \in Marker
    BY <1>7, MarkerTypes DEF ImageWrite
  <2> QED
    BY <1>7, <2>1 DEF ImageWrite
<1>8. CASE ImageSubmit(i)
  <2>1. server' \in Server
    BY <1>8, ServerTypes DEF ImageSubmit
  <2> QED
    BY <1>8, <2>1 DEF ImageSubmit
<1>9. CASE ImageRejected(i)
  BY <1>9 DEF ImageRejected
<1>10. CASE ImagePoll(i)
  BY <1>10 DEF ImagePoll
<1>11. CASE ImageStop(i)
  BY <1>11 DEF ImageStop
<1>12. CASE ImageDelete(i)
  <2>1. server' \in Server
    BY <1>12 DEF ImageDelete, Server
  <2> QED
    BY <1>12, <2>1 DEF ImageDelete
<1>13. CASE ImageConfirm(i)
  BY <1>13 DEF ImageConfirm
<1>14. CASE ImageWait(i)
  BY <1>14 DEF ImageWait, CleanupOutcome
<1>15. CASE ImageUnlink(i)
  BY <1>15, MarkerTypes DEF ImageUnlink
<1>16. CASE ImageRelease(i)
  BY <1>16 DEF ImageRelease, Hold
<1> QED
  BY <1>1, <1>2, <1>3, <1>4, <1>5, <1>6, <1>7, <1>8, <1>9, <1>10, <1>11, <1>12,
     <1>13, <1>14, <1>15, <1>16 DEF ImageStep

LEMMA ChatTypes ==
    ASSUME TypeOK, NEW c \in Chats, ChatBegin(c) \/ ChatStep(c)
    PROVE  TypeOK'
<1> c \in Procs
  BY DEF Procs
<1> USE DEF TypeOK, Goto, Step, At, filevars, gpuvars, PC
<1>1. CASE ChatBegin(c)
  BY <1>1 DEF ChatBegin
<1>2. CASE ChatLock(c)
  BY <1>2 DEF ChatLock, TryLock, Hold
<1>3. CASE ChatRecheck(c)
  BY <1>3 DEF ChatRecheck
<1>4. CASE ChatEnd(c)
  BY <1>4 DEF ChatEnd
<1>5. CASE ChatRelease(c)
  BY <1>5 DEF ChatRelease, Hold
<1> QED
  BY <1>1, <1>2, <1>3, <1>4, <1>5 DEF ChatStep

LEMMA MeshTypes ==
    ASSUME SettingsAssumption, TypeOK, MeshPost \/ MeshStep \/ MeshUpgrade \/ MeshCrash
    PROVE  TypeOK'
<1> Hunyuan \in Procs
  BY DEF Procs
<1> USE DEF TypeOK, Goto, Step, At, filevars, gpuvars, PC
<1>1. CASE MeshPost
  BY <1>1 DEF MeshPost
<1>2. CASE MeshSubmit
  BY <1>2 DEF MeshSubmit, TryLock, Hold
<1>3. CASE MeshUnload
  BY <1>3 DEF MeshUnload, UnloadOllama
<1>4. CASE MeshPublish
  BY <1>4 DEF MeshPublish, Hold
<1>5. CASE MeshShare
  BY <1>5 DEF MeshShare, Hold
<1>6. CASE MeshStart
  BY <1>6 DEF MeshStart
<1>7. CASE MeshEnd
  BY <1>7 DEF MeshEnd, Hold
<1>8. CASE MeshUpgrade
  BY <1>8 DEF MeshUpgrade, Hold
<1>9. CASE MeshRestore
  BY <1>9 DEF MeshRestore
<1>10. CASE MeshRelease
  BY <1>10 DEF MeshRelease, Hold
<1>11. CASE MeshCrash
  BY <1>11, SettingsAssumption DEF MeshCrash, Hold
<1>12. CASE MeshRestart
  BY <1>12 DEF MeshRestart
<1> QED
  BY <1>1, <1>2, <1>3, <1>4, <1>5, <1>6, <1>7, <1>8, <1>9, <1>10, <1>11, <1>12 DEF MeshStep

LEMMA RecoveryTypes ==
    ASSUME TypeOK, RecoveryKnows, RecoveryStep
    PROVE  TypeOK'
<1> Recovery \in Procs
  BY DEF Procs
<1> USE DEF TypeOK, Goto, RecoveryGoto, Remember, Step, At, filevars, gpuvars, PC
<1>1. CASE RecoveryBegin
  BY <1>1, MemoryTypes DEF RecoveryBegin
<1>2. CASE RecoveryLock
  BY <1>2 DEF RecoveryLock, TryLock, Hold
<1>3. CASE RecoveryRead
  <2>1. Recalled \in Memory
    <3>1. memory.failures \in 0..FailureLimit /\ 0 \in 0..FailureLimit
      BY SettingsAssumption DEF Memory
    <3>2. marker.restarts \in 0..RestartBudget
      BY DEF Marker
    <3> QED
      BY <3>1, <3>2 DEF Recalled, Memory
  <2> QED
    BY <1>3, <2>1 DEF RecoveryRead
<1>4. CASE RecoveryUnload
  BY <1>4 DEF RecoveryUnload, UnloadOllama
<1>5. CASE RecoveryInspect
  <2>1. memory' \in Memory
    <3>1. Quiet \in BOOLEAN
      BY DEF Quiet, QueueEmpty
    <3>2. [memory EXCEPT !.ready = Quiet] \in Memory
      BY <3>1 DEF Memory
    <3> QED
      BY <1>5, <3>2, MemoryTypes DEF RecoveryInspect
  <2> QED
    BY <1>5, <2>1 DEF RecoveryInspect
<1>6. CASE RecoverySample
  BY <1>6 DEF RecoverySample
<1>7. CASE RecoveryUnlink
  BY <1>7, MarkerTypes, MemoryTypes DEF RecoveryUnlink
<1>8. CASE RecoveryFailed
  <2>1. Failed \in Memory
    BY SettingsAssumption DEF Failed, Capped, Memory
  <2>2. Capped(checks) \in 0..FailureLimit
    BY SettingsAssumption DEF Capped
  <2> QED
    BY <1>8, <2>1, <2>2 DEF RecoveryFailed
<1>9. CASE RecoveryTruncate
  BY <1>9, MarkerTypes DEF RecoveryTruncate
<1>10. CASE RecoveryWrite
  <2>1. Persisted \in Marker
    <3>1. memory.restarts + 1 \in 0..RestartBudget
      BY <1>10, SettingsAssumption DEF RecoveryWrite, RecoveryKnows, Memory
    <3> QED
      BY <3>1 DEF Persisted, Written, Marker
  <2> QED
    BY <1>10, <2>1, MemoryTypes DEF RecoveryWrite
<1>11. CASE RecoveryRestart
  <2>1. server' \in Server
    BY <1>11, ServerTypes DEF RecoveryRestart
  <2> QED
    BY <1>11, <2>1, SettingsAssumption DEF RecoveryRestart
<1>12. CASE RecoveryRelease
  BY <1>12 DEF RecoveryRelease, Hold
<1> QED
  BY <1>1, <1>2, <1>3, <1>4, <1>5, <1>6, <1>7, <1>8, <1>9, <1>10, <1>11, <1>12 DEF RecoveryStep

WorldStep == ServerStart \/ ServerFinish \/ ServerFree \/ CoolDown \/ ApiCrash \/ Administrator

LEMMA WorldTypes ==
    ASSUME SettingsAssumption, TypeOK, WorldStep
    PROVE  TypeOK'
<1> USE DEF TypeOK, filevars, gpuvars
<1>1. CASE ServerStart
  <2>1. server' \in Server
    <3>1. PICK i \in server.pending :
            server' = [server EXCEPT !.pending = @ \ {i}, !.running = i, !.held = TRUE]
      BY <1>1 DEF ServerStart
    <3>2. i \in Images
      BY <3>1 DEF Server
    <3> QED
      BY <3>1, <3>2, ServerTypes
  <2> QED
    BY <1>1, <2>1 DEF ServerStart
<1>2. CASE ServerFinish
  <2>1. server' \in Server
    BY <1>2 DEF ServerFinish, Server
  <2> QED
    BY <1>2, <2>1 DEF ServerFinish
<1>3. CASE ServerFree
  <2>1. server' \in Server
    BY <1>3 DEF ServerFree, Server
  <2> QED
    BY <1>3, <2>1 DEF ServerFree
<1>4. CASE CoolDown
  BY <1>4, MarkerTypes DEF CoolDown
<1>5. CASE ApiCrash
  BY <1>5, MemoryTypes, SettingsAssumption DEF ApiCrash, PC
<1>6. CASE Administrator
  <2>1. server' \in Server
    BY <1>6 DEF Administrator, IdleServer, Server
  <2> QED
    BY <1>6, <2>1, MarkerTypes DEF Administrator
<1> QED
  BY <1>1, <1>2, <1>3, <1>4, <1>5, <1>6 DEF WorldStep

-----------------------------------------------------------------------------
(* The lock.                                                               *)

LEMMA ImageLocks ==
    ASSUME ProcessAssumption, TypeOK, Exclusion, Places,
           NEW i \in Images, ImageBegin(i) \/ ImageStep(i)
    PROVE  Exclusion' /\ Places'
<1> i \in Procs /\ i \notin Chats /\ i # Recovery /\ i # Hunyuan
  BY DEF Procs, ProcessAssumption
<1> Images \subseteq Procs /\ Chats \subseteq Procs /\ Recovery \in Procs /\ Hunyuan \in Procs
  BY DEF Procs
<1> USE DEF Exclusion, Places, TypeOK, Goto, Step, At, filevars, gpuvars, Unlocked
<1>1. CASE ImageBegin(i)
  BY <1>1 DEF ImageBegin
<1>2. CASE ImageLock(i)
  BY <1>2 DEF ImageLock, TryLock, Hold, Grantable
<1>3. CASE ImageRecheck(i)
  BY <1>3 DEF ImageRecheck
<1>4. CASE ImageUnload(i)
  BY <1>4 DEF ImageUnload, UnloadOllama
<1>5. CASE ImageInspect(i)
  BY <1>5 DEF ImageInspect
<1>6. CASE ImageTruncate(i)
  BY <1>6 DEF ImageTruncate
<1>7. CASE ImageWrite(i)
  BY <1>7 DEF ImageWrite
<1>8. CASE ImageSubmit(i)
  BY <1>8 DEF ImageSubmit
<1>9. CASE ImageRejected(i)
  BY <1>9 DEF ImageRejected
<1>10. CASE ImagePoll(i)
  BY <1>10 DEF ImagePoll
<1>11. CASE ImageStop(i)
  BY <1>11 DEF ImageStop
<1>12. CASE ImageDelete(i)
  BY <1>12 DEF ImageDelete
<1>13. CASE ImageConfirm(i)
  BY <1>13 DEF ImageConfirm
<1>14. CASE ImageWait(i)
  BY <1>14 DEF ImageWait, CleanupOutcome
<1>15. CASE ImageUnlink(i)
  BY <1>15 DEF ImageUnlink
<1>16. CASE ImageRelease(i)
  BY <1>16 DEF ImageRelease, Hold
<1> QED
  BY <1>1, <1>2, <1>3, <1>4, <1>5, <1>6, <1>7, <1>8, <1>9, <1>10, <1>11, <1>12, <1>13, <1>14, <1>15, <1>16 DEF ImageStep

LEMMA ChatLocks ==
    ASSUME ProcessAssumption, TypeOK, Exclusion, Places,
           NEW c \in Chats, ChatBegin(c) \/ ChatStep(c)
    PROVE  Exclusion' /\ Places'
<1> c \in Procs /\ c \notin Images /\ c # Recovery /\ c # Hunyuan
  BY DEF Procs, ProcessAssumption
<1> Images \subseteq Procs /\ Chats \subseteq Procs /\ Recovery \in Procs /\ Hunyuan \in Procs
  BY DEF Procs
<1> USE DEF Exclusion, Places, TypeOK, Goto, Step, At, filevars, gpuvars, Unlocked
<1>1. CASE ChatBegin(c)
  BY <1>1 DEF ChatBegin
<1>2. CASE ChatLock(c)
  BY <1>2 DEF ChatLock, TryLock, Hold, Grantable
<1>3. CASE ChatRecheck(c)
  BY <1>3 DEF ChatRecheck
<1>4. CASE ChatEnd(c)
  BY <1>4 DEF ChatEnd
<1>5. CASE ChatRelease(c)
  BY <1>5 DEF ChatRelease, Hold
<1> QED
  BY <1>1, <1>2, <1>3, <1>4, <1>5 DEF ChatStep

LEMMA MeshLocks ==
    ASSUME ProcessAssumption, TypeOK, Exclusion, Places, LeaseKnows,
           MeshPost \/ MeshStep \/ MeshUpgrade \/ MeshCrash
    PROVE  Exclusion' /\ Places'
<1> Images \subseteq Procs /\ Chats \subseteq Procs /\ Recovery \in Procs /\ Hunyuan \in Procs
  BY DEF Procs
<1> Hunyuan \notin Images /\ Hunyuan \notin Chats /\ Recovery # Hunyuan
  BY DEF ProcessAssumption
<1> USE DEF Exclusion, Places, TypeOK, Goto, Step, At, filevars, gpuvars, Unlocked, LeaseKnows
<1>1. CASE MeshPost
  BY <1>1 DEF MeshPost
<1>2. CASE MeshSubmit
  BY <1>2 DEF MeshSubmit, TryLock, Hold, Grantable
<1>3. CASE MeshUnload
  BY <1>3 DEF MeshUnload, UnloadOllama
<1>4. CASE MeshPublish
  BY <1>4 DEF MeshPublish, Hold
<1>5. CASE MeshShare
  BY <1>5 DEF MeshShare, Hold, Grantable
<1>6. CASE MeshStart
  BY <1>6 DEF MeshStart
<1>7. CASE MeshEnd
  BY <1>7 DEF MeshEnd, Hold
<1>8. CASE MeshUpgrade
  BY <1>8 DEF MeshUpgrade, Hold, Grantable
<1>9. CASE MeshRestore
  BY <1>9 DEF MeshRestore
<1>10. CASE MeshRelease
  BY <1>10 DEF MeshRelease, Hold
<1>11. CASE MeshCrash
  BY <1>11 DEF MeshCrash, Hold
<1>12. CASE MeshRestart
  BY <1>12 DEF MeshRestart, Grantable
<1> QED
  BY <1>1, <1>2, <1>3, <1>4, <1>5, <1>6, <1>7, <1>8, <1>9, <1>10, <1>11, <1>12 DEF MeshStep

LEMMA RecoveryLocks ==
    ASSUME ProcessAssumption, TypeOK, Exclusion, Places, RecoveryStep
    PROVE  Exclusion' /\ Places'
<1> Images \subseteq Procs /\ Chats \subseteq Procs /\ Recovery \in Procs /\ Hunyuan \in Procs
  BY DEF Procs
<1> Recovery \notin Images /\ Recovery \notin Chats /\ Recovery # Hunyuan
  BY DEF ProcessAssumption
<1> USE DEF Exclusion, Places, TypeOK, Goto, Step, At, filevars, gpuvars, Unlocked, RecoveryGoto
<1>1. CASE RecoveryBegin
  BY <1>1 DEF RecoveryBegin
<1>2. CASE RecoveryLock
  BY <1>2 DEF RecoveryLock, TryLock, Hold, Grantable
<1>3. CASE RecoveryRead
  BY <1>3 DEF RecoveryRead
<1>4. CASE RecoveryUnload
  BY <1>4 DEF RecoveryUnload, UnloadOllama
<1>5. CASE RecoveryInspect
  BY <1>5 DEF RecoveryInspect
<1>6. CASE RecoverySample
  BY <1>6 DEF RecoverySample
<1>7. CASE RecoveryUnlink
  BY <1>7 DEF RecoveryUnlink
<1>8. CASE RecoveryFailed
  BY <1>8 DEF RecoveryFailed
<1>9. CASE RecoveryTruncate
  BY <1>9 DEF RecoveryTruncate
<1>10. CASE RecoveryWrite
  BY <1>10 DEF RecoveryWrite
<1>11. CASE RecoveryRestart
  BY <1>11 DEF RecoveryRestart
<1>12. CASE RecoveryRelease
  BY <1>12 DEF RecoveryRelease, Hold
<1> QED
  BY <1>1, <1>2, <1>3, <1>4, <1>5, <1>6, <1>7, <1>8, <1>9, <1>10, <1>11, <1>12 DEF RecoveryStep

LEMMA WorldLocks ==
    ASSUME ProcessAssumption, TypeOK, Exclusion, Places, WorldStep
    PROVE  Exclusion' /\ Places'
<1> Images \subseteq Procs /\ Chats \subseteq Procs /\ Recovery \in Procs /\ Hunyuan \in Procs
  BY DEF Procs
<1> Hunyuan \notin Images /\ Hunyuan \notin Chats /\ Recovery # Hunyuan
  BY DEF ProcessAssumption
<1> USE DEF Exclusion, Places, TypeOK, Goto, Step, At, filevars, gpuvars, Unlocked
<1>1. CASE ServerStart
  BY <1>1 DEF ServerStart
<1>2. CASE ServerFinish
  BY <1>2 DEF ServerFinish
<1>3. CASE ServerFree
  BY <1>3 DEF ServerFree
<1>4. CASE CoolDown
  BY <1>4 DEF CoolDown
<1>5. CASE ApiCrash
  BY <1>5 DEF ApiCrash
<1>6. CASE Administrator
  BY <1>6 DEF Administrator
<1> QED
  BY <1>1, <1>2, <1>3, <1>4, <1>5, <1>6 DEF WorldStep

-----------------------------------------------------------------------------
(* What every process relies on.                                           *)

Waiting == {"idle", "lock"}

\* Who holds an exclusive lock is alone; chats share with a 3D job at most.
LEMMA Alone ==
    ASSUME ProcessAssumption, Exclusion, Places
    PROVE  /\ \A i \in Images : pc[i] \notin Waiting =>
                 /\ \A j \in Images : j # i => pc[j] \in Waiting
                 /\ \A c \in Chats : pc[c] \in Waiting
                 /\ pc[Recovery] \in Waiting /\ pc[Hunyuan] \in Unlocked
           /\ pc[Recovery] \notin Waiting =>
                 /\ \A i \in Images : pc[i] \in Waiting
                 /\ \A c \in Chats : pc[c] \in Waiting
                 /\ pc[Hunyuan] \in Unlocked
           /\ \A c \in Chats : pc[c] \notin Waiting =>
                 /\ \A i \in Images : pc[i] \in Waiting
                 /\ pc[Recovery] \in Waiting
                 /\ mode[Hunyuan] # "exclusive"
           /\ pc[Hunyuan] \notin Unlocked =>
                 /\ \A i \in Images : pc[i] \in Waiting
                 /\ pc[Recovery] \in Waiting
<1> Images \subseteq Procs /\ Chats \subseteq Procs /\ Recovery \in Procs /\ Hunyuan \in Procs
  BY DEF Procs
<1> USE DEF ProcessAssumption, Exclusion, Places, Waiting
<1>1. \A i \in Images : pc[i] \notin Waiting =>
                 /\ \A j \in Images : j # i => pc[j] \in Waiting
                 /\ \A c \in Chats : pc[c] \in Waiting
                 /\ pc[Recovery] \in Waiting /\ pc[Hunyuan] \in Unlocked
  OBVIOUS
<1>2. pc[Recovery] \notin Waiting =>
                 /\ \A i \in Images : pc[i] \in Waiting
                 /\ \A c \in Chats : pc[c] \in Waiting
                 /\ pc[Hunyuan] \in Unlocked
  OBVIOUS
<1>3. \A c \in Chats : pc[c] \notin Waiting =>
                 /\ \A i \in Images : pc[i] \in Waiting
                 /\ pc[Recovery] \in Waiting
                 /\ mode[Hunyuan] # "exclusive"
  OBVIOUS
<1>4. pc[Hunyuan] \notin Unlocked =>
                 /\ \A i \in Images : pc[i] \in Waiting
                 /\ pc[Recovery] \in Waiting
  OBVIOUS
<1> QED
  BY <1>1, <1>2, <1>3, <1>4

-----------------------------------------------------------------------------
(* The steps of an image thread.                                           *)

\* What each step leaves alone.
LEMMA ImageFrame ==
    ASSUME ProcessAssumption, TypeOK, NEW i \in Images, ImageBegin(i) \/ ImageStep(i)
    PROVE  /\ \A q \in Procs : q # i => pc'[q] = pc[q]
           /\ UNCHANGED <<lease, alternate>>
           /\ ImageTruncate(i) \/ UNCHANGED <<memory, attempts, checks>>
           /\ ImageTruncate(i) \/ ImageWrite(i) \/ ImageUnlink(i) \/ UNCHANGED marker
           /\ ImageSubmit(i) \/ ImageDelete(i) \/ UNCHANGED server
           /\ ImageUnload(i) \/ UNCHANGED ollama
           /\ pc[i] \in Waiting => pc'[i] \in Waiting \cup {"recheck"}
<1> i \in Procs
  BY DEF Procs
<1> USE DEF TypeOK, Goto, Step, At, filevars, gpuvars, Waiting
<1>1. CASE ImageBegin(i)
  BY <1>1 DEF ImageBegin
<1>2. CASE ImageLock(i)
  BY <1>2 DEF ImageLock, TryLock, Hold
<1>3. CASE ImageRecheck(i)
  BY <1>3 DEF ImageRecheck
<1>4. CASE ImageUnload(i)
  BY <1>4 DEF ImageUnload, UnloadOllama
<1>5. CASE ImageInspect(i)
  BY <1>5 DEF ImageInspect
<1>6. CASE ImageTruncate(i)
  BY <1>6 DEF ImageTruncate
<1>7. CASE ImageWrite(i)
  BY <1>7 DEF ImageWrite
<1>8. CASE ImageSubmit(i)
  BY <1>8 DEF ImageSubmit
<1>9. CASE ImageRejected(i)
  BY <1>9 DEF ImageRejected
<1>10. CASE ImagePoll(i)
  BY <1>10 DEF ImagePoll
<1>11. CASE ImageStop(i)
  BY <1>11 DEF ImageStop
<1>12. CASE ImageDelete(i)
  BY <1>12 DEF ImageDelete
<1>13. CASE ImageConfirm(i)
  BY <1>13 DEF ImageConfirm
<1>14. CASE ImageWait(i)
  BY <1>14 DEF ImageWait, CleanupOutcome
<1>15. CASE ImageUnlink(i)
  BY <1>15 DEF ImageUnlink
<1>16. CASE ImageRelease(i)
  BY <1>16 DEF ImageRelease
<1> QED
  BY <1>1, <1>2, <1>3, <1>4, <1>5, <1>6, <1>7, <1>8, <1>9, <1>10, <1>11, <1>12, <1>13, <1>14, <1>15, <1>16 DEF ImageStep

\* While a thread is at work, the others are not.
LEMMA ImageAlone ==
    ASSUME ProcessAssumption, IInv, NEW i \in Images, pc[i] \notin Waiting
    PROVE  /\ \A j \in Images : j # i => pc[j] \in Waiting
           /\ \A c \in Chats : pc[c] \in Waiting
           /\ pc[Recovery] \in Waiting
  BY Alone DEF IInv

LEMMA ImageImages ==
    ASSUME ProcessAssumption, IInv, NEW i \in Images, ImageBegin(i) \/ ImageStep(i)
    PROVE  ImageKnows'
<1> i \in Procs /\ Images \subseteq Procs
  BY DEF Procs
<1>1. CASE pc[i] \in Waiting
  <2>1. pc'[i] \in Waiting \cup {"recheck"} /\ UNCHANGED <<server, ollama, marker, attempts>>
    BY <1>1, ImageFrame DEF IInv, TypeOK, Waiting, ImageTruncate, ImageWrite, ImageUnlink, ImageSubmit,
       ImageDelete, ImageUnload, Step, At
  <2>2. Knows(i)'
    BY <2>1 DEF Knows, Waiting
  <2>3. ASSUME NEW j \in Images, j # i
        PROVE  Knows(j)'
    BY <2>1, <2>3, ImageFrame DEF IInv, ImageKnows, Knows, Quiet, QueueEmpty, Blocked
  <2> QED
    BY <2>2, <2>3 DEF ImageKnows
<1>2. CASE pc[i] \notin Waiting
  <2>1. ASSUME NEW j \in Images, j # i
        PROVE  Knows(j)'
    <3>1. pc'[j] \in Waiting
      BY <1>2, <2>1, ImageFrame, ImageAlone DEF IInv
    <3> QED
      BY <3>1 DEF Knows, Waiting
  <2>2. Knows(i)
    BY DEF IInv, ImageKnows
  <2>3. Knows(i)'
    <3> USE DEF Knows, IInv, TypeOK, Goto, Step, At, filevars, gpuvars, Waiting
    <3>1. CASE ImageRecheck(i)
      BY <3>1, <2>2 DEF ImageRecheck
    <3>2. CASE ImageUnload(i)
      BY <3>2, <2>2 DEF ImageUnload, UnloadOllama
    <3>3. CASE ImageInspect(i)
      BY <3>3, <2>2 DEF ImageInspect, QueueEmpty
    <3>4. CASE ImageTruncate(i)
      BY <3>4, <2>2 DEF ImageTruncate, QueueEmpty, Blocked, TornMarker, Written
    <3>5. CASE ImageWrite(i)
      BY <3>5, <2>2 DEF ImageWrite, QueueEmpty, Blocked, TornMarker, Written
    <3>6. CASE ImageSubmit(i)
      BY <3>6, <2>2 DEF ImageSubmit
    <3>7. CASE ImageRejected(i)
      BY <3>7, <2>2 DEF ImageRejected, Quiet, QueueEmpty
    <3>8. CASE ImagePoll(i)
      BY <3>8, <2>2 DEF ImagePoll
    <3>9. CASE ImageStop(i)
      BY <3>9, <2>2 DEF ImageStop
    <3>10. CASE ImageDelete(i)
      BY <3>10, <2>2 DEF ImageDelete
    <3>11. CASE ImageConfirm(i)
      BY <3>11, <2>2 DEF ImageConfirm
    <3>12. CASE ImageWait(i)
      BY <3>12, <2>2 DEF ImageWait, CleanupOutcome, Quiet, QueueEmpty
    <3>13. CASE ImageUnlink(i)
      BY <3>13, <2>2 DEF ImageUnlink
    <3>14. CASE ImageRelease(i)
      BY <3>14, <2>2 DEF ImageRelease
    <3>15. ~ImageBegin(i) /\ ~ImageLock(i)
      BY <1>2 DEF ImageBegin, ImageLock
    <3> QED
      BY <3>1, <3>2, <3>3, <3>4, <3>5, <3>6, <3>7, <3>8, <3>9, <3>10, <3>11, <3>12, <3>13, <3>14, <3>15 DEF ImageStep
  <2> QED
    BY <2>1, <2>3 DEF ImageKnows
<1> QED
  BY <1>1, <1>2

RestartPart == RecoveryKnows /\ RestartsAreBudgeted /\ RestartsNeedFailures

\* Steps that leave the marker and the recovery thread alone.
LEMMA RestartFrame ==
    ASSUME RestartPart, UNCHANGED <<marker, memory, attempts, checks>>,
           pc'[Recovery] = pc[Recovery], pc[Recovery] \notin {"unlink"} \/ UNCHANGED server
    PROVE  RestartPart'
  BY DEF RestartPart, RecoveryKnows, RestartsAreBudgeted, RestartsNeedFailures, At, Quiet, QueueEmpty

LEMMA ImageRestart ==
    ASSUME ProcessAssumption, IInv, NEW i \in Images, ImageBegin(i) \/ ImageStep(i)
    PROVE  RestartPart'
<1> RestartPart /\ Recovery \in Procs /\ Recovery # i
  BY DEF IInv, RestartPart, Procs, ProcessAssumption
<1>0. pc'[Recovery] = pc[Recovery] /\ TypeOK
  BY ImageFrame DEF IInv
<1>1. pc[i] \notin Waiting => pc'[Recovery] \in Waiting
  BY <1>0, ImageAlone
<1>2. CASE ImageTruncate(i)
  <2>1. pc'[Recovery] \in Waiting
    BY <1>1, <1>2 DEF ImageTruncate, Step, At, Waiting
  <2>2. memory'.known = FALSE /\ attempts' = 0 /\ marker'.state = "torn"
    BY <1>0, <1>2 DEF ImageTruncate, TornMarker, TypeOK, Memory
  <2> QED
    BY <2>1, <2>2, SettingsAssumption DEF RestartPart, RecoveryKnows, RestartsAreBudgeted,
           RestartsNeedFailures, At, Waiting
<1>3. CASE ImageWrite(i) \/ ImageUnlink(i)
  <2>1. pc'[Recovery] \in Waiting
    BY <1>1, <1>3 DEF ImageWrite, ImageUnlink, Step, At, Waiting
  <2>2. UNCHANGED <<memory, attempts, checks>>
    BY <1>3 DEF ImageWrite, ImageUnlink
  <2>3. marker'.state = "written" => attempts <= marker'.restarts
    <3>1. CASE ImageWrite(i)
      <4>1. attempts = 0
        BY <3>1 DEF IInv, ImageKnows, Knows, ImageWrite, At
      <4> QED
        BY <3>1, <4>1 DEF ImageWrite, Written, RestartPart, RecoveryKnows
    <3>2. CASE ImageUnlink(i)
      BY <3>2 DEF ImageUnlink, NoMarker
    <3> QED
      BY <1>3, <3>1, <3>2
  <2> QED
    BY <2>1, <2>2, <2>3 DEF RestartPart, RecoveryKnows, RestartsAreBudgeted, RestartsNeedFailures, At, Waiting
<1>4. CASE ~ImageTruncate(i) /\ ~ImageWrite(i) /\ ~ImageUnlink(i)
  <2>1. pc[Recovery] # "unlink" \/ UNCHANGED server
    BY <1>0, <1>1, ImageFrame DEF ImageSubmit, ImageDelete, Step, At, Waiting
  <2> QED
    BY <1>0, <1>4, <2>1, ImageFrame, RestartFrame
<1> QED
  BY <1>2, <1>3, <1>4

ServerPart == UnquietIsReserved /\ ImageJobsAreAlone

LEMMA ImageServer ==
    ASSUME ProcessAssumption, IInv, NEW i \in Images, ImageBegin(i) \/ ImageStep(i)
    PROVE  ServerPart'
<1> USE DEF IInv, TypeOK, ServerPart, UnquietIsReserved, ImageJobsAreAlone, Quiet, QueueEmpty, Blocked
<1>1. CASE ImageSubmit(i)
  <2>1. ollama = {} /\ QueueEmpty /\ Blocked
    BY <1>1 DEF ImageKnows, Knows, ImageSubmit, At
  <2>2. server.pending = {} /\ server.running = NoJob
    BY <2>1
  <2>3. UNCHANGED <<marker, ollama>>
    BY <1>1 DEF ImageSubmit, filevars
  <2>4. CASE UNCHANGED server
    BY <2>1, <2>3, <2>4
  <2>5. CASE server' = [server EXCEPT !.pending = @ \cup {i}, !.history = NoJob]
    <3>1. server'.pending = {i} /\ server'.running = NoJob
      BY <2>2, <2>5 DEF Server
    <3> QED
      BY <2>1, <2>3, <3>1
  <2> QED
    BY <1>1, <2>4, <2>5 DEF ImageSubmit
<1>2. CASE ImageDelete(i)
  BY <1>2 DEF ImageDelete, Server, filevars, Step, At
<1>3. CASE ImageUnlink(i)
  <2>1. Quiet
    BY <1>3 DEF ImageKnows, Knows, ImageUnlink, Step, At
  <2> QED
    BY <1>3, <2>1 DEF ImageUnlink, gpuvars
<1>4. CASE ImageUnload(i)
  BY <1>4 DEF ImageUnload, UnloadOllama, filevars
<1>5. CASE ImageTruncate(i) \/ ImageWrite(i)
  BY <1>5 DEF ImageTruncate, ImageWrite, TornMarker, Written, gpuvars
<1>6. CASE UNCHANGED <<marker, server, ollama>>
  BY <1>6
<1> QED
  BY <1>1, <1>2, <1>3, <1>4, <1>5, <1>6, ImageFrame

ChatPart == ChatKnows /\ LeaseKnows /\ ChatsUseTheAlternate

LEMMA ImageChats ==
    ASSUME ProcessAssumption, IInv, NEW i \in Images, ImageBegin(i) \/ ImageStep(i)
    PROVE  ChatPart'
<1>1. /\ \A c \in Chats : pc'[c] = pc[c]
      /\ pc'[Hunyuan] = pc[Hunyuan]
      /\ UNCHANGED <<lease, alternate>>
  BY ImageFrame DEF IInv, Procs, ProcessAssumption
<1>2. UNCHANGED marker \/ \A c \in Chats : pc[c] # "use"
  <2>1. CASE ImageTruncate(i) \/ ImageWrite(i) \/ ImageUnlink(i)
    BY <2>1, ImageAlone DEF ImageTruncate, ImageWrite, ImageUnlink, Step, At, Waiting
  <2> QED
    BY <2>1, ImageFrame DEF IInv
<1> QED
  BY <1>1, <1>2 DEF IInv, ChatPart, ChatKnows, LeaseKnows, ChatsUseTheAlternate, At, Blocked

-----------------------------------------------------------------------------
(* The steps of a chat.                                                    *)

LEMMA ChatFrame ==
    ASSUME ProcessAssumption, TypeOK, NEW c \in Chats, ChatBegin(c) \/ ChatStep(c)
    PROVE  /\ \A q \in Procs : q # c => pc'[q] = pc[q]
           /\ UNCHANGED <<marker, lease, server, memory, attempts, checks>>
           /\ ChatRecheck(c) \/ UNCHANGED ollama
           /\ \A p \in Procs : p # c => (p \in alternate' <=> p \in alternate)
           /\ pc'[c] = "use" => ChatRecheck(c)
<1> c \in Procs
  BY DEF Procs
<1> USE DEF TypeOK, Goto, Step, At, filevars, gpuvars
<1>1. CASE ChatBegin(c)
  BY <1>1 DEF ChatBegin
<1>2. CASE ChatLock(c)
  BY <1>2 DEF ChatLock, TryLock
<1>3. CASE ChatRecheck(c)
  BY <1>3 DEF ChatRecheck
<1>4. CASE ChatEnd(c)
  BY <1>4 DEF ChatEnd
<1>5. CASE ChatRelease(c)
  BY <1>5 DEF ChatRelease
<1> QED
  BY <1>1, <1>2, <1>3, <1>4, <1>5 DEF ChatStep

LEMMA ChatServer ==
    ASSUME ProcessAssumption, IInv, NEW c \in Chats, ChatBegin(c) \/ ChatStep(c)
    PROVE  ServerPart'
<1> USE DEF IInv, ServerPart, UnquietIsReserved, ImageJobsAreAlone, Quiet, QueueEmpty, Blocked
<1>1. CASE UNCHANGED ollama
  BY <1>1, ChatFrame
<1>2. CASE ChatRecheck(c) /\ ~UNCHANGED ollama
  <2>1. QueueEmpty
    BY <1>2 DEF ChatRecheck
  <2> QED
    BY <2>1, ChatFrame
<1> QED
  BY <1>1, <1>2, ChatFrame DEF IInv

LEMMA ChatImages ==
    ASSUME ProcessAssumption, IInv, NEW c \in Chats, ChatBegin(c) \/ ChatStep(c)
    PROVE  ImageKnows'
<1> SUFFICES ASSUME NEW i \in Images
             PROVE  Knows(i)'
  BY DEF ImageKnows
<1>1. pc'[i] = pc[i] /\ UNCHANGED <<marker, server, attempts>> /\ Knows(i)
  BY ChatFrame DEF IInv, Procs, ProcessAssumption, ImageKnows
<1>2. UNCHANGED ollama \/ pc[i] \in Waiting
  <2>1. CASE ChatRecheck(c)
    BY <2>1, Alone DEF IInv, ChatRecheck, At, Waiting
  <2> QED
    BY <2>1, ChatFrame DEF IInv
<1> QED
  BY <1>1, <1>2 DEF Knows, Waiting, Quiet, QueueEmpty, Blocked

LEMMA ChatRestart ==
    ASSUME ProcessAssumption, IInv, NEW c \in Chats, ChatBegin(c) \/ ChatStep(c)
    PROVE  RestartPart'
<1>1. pc'[Recovery] = pc[Recovery] /\ UNCHANGED <<marker, memory, attempts, checks, server>>
  BY ChatFrame DEF IInv, Procs, ProcessAssumption
<1>2. RestartPart
  BY DEF IInv, RestartPart
<1> QED
  BY <1>1, <1>2, RestartFrame

LEMMA ChatChats ==
    ASSUME ProcessAssumption, IInv, NEW c \in Chats, ChatBegin(c) \/ ChatStep(c)
    PROVE  ChatPart'
<1> Hunyuan \in Procs /\ Hunyuan # c /\ Chats \subseteq Procs
  BY DEF Procs, ProcessAssumption
<1>1. /\ pc'[Hunyuan] = pc[Hunyuan] /\ UNCHANGED <<marker, lease>>
      /\ Hunyuan \in alternate' <=> Hunyuan \in alternate
      /\ \A d \in Chats : d # c =>
            pc'[d] = pc[d] /\ (d \in alternate' <=> d \in alternate)
  BY ChatFrame DEF IInv
<1>2. LeaseKnows'
  BY <1>1 DEF IInv, LeaseKnows
<1>3. CASE pc'[c] = "use"
  <2>1. ChatRecheck(c) /\ pc[c] \notin Waiting
    BY <1>3, ChatFrame DEF IInv, ChatRecheck, At, Waiting
  <2>2. ~Blocked /\ (lease => c \in alternate')
    BY <1>3, <2>1 DEF IInv, TypeOK, ChatRecheck, Goto
  <2>3. mode[Hunyuan] # "exclusive"
    BY <2>1, Alone DEF IInv
  <2>4. pc[Hunyuan] \in {"share", "start", "generate", "upgrade", "restore"} => lease
    BY <2>3 DEF IInv, Places, LeaseKnows, Unlocked
  <2> QED
    BY <1>1, <1>2, <2>2, <2>4 DEF IInv, ChatPart, ChatKnows, ChatsUseTheAlternate, At, Blocked
<1>4. CASE pc'[c] # "use"
  BY <1>1, <1>2, <1>4 DEF IInv, ChatPart, ChatKnows, ChatsUseTheAlternate, At, Blocked
<1> QED
  BY <1>3, <1>4

-----------------------------------------------------------------------------
(* The steps of the 3D worker.                                             *)

MeshAny == MeshPost \/ MeshStep \/ MeshUpgrade \/ MeshCrash

LEMMA MeshFrame ==
    ASSUME ProcessAssumption, TypeOK, MeshAny
    PROVE  /\ \A q \in Procs : q # Hunyuan => pc'[q] = pc[q]
           /\ UNCHANGED <<marker, server, memory, attempts, checks>>
           /\ ollama' \subseteq ollama
           /\ \A p \in Procs : p # Hunyuan => (p \in alternate' <=> p \in alternate)
<1> Hunyuan \in Procs
  BY DEF Procs
<1> USE DEF TypeOK, Goto, Step, At, filevars, gpuvars
<1>1. CASE MeshPost
  BY <1>1 DEF MeshPost
<1>2. CASE MeshSubmit
  BY <1>2 DEF MeshSubmit, TryLock, Hold
<1>3. CASE MeshUnload
  BY <1>3 DEF MeshUnload, UnloadOllama
<1>4. CASE MeshPublish
  BY <1>4 DEF MeshPublish
<1>5. CASE MeshShare
  BY <1>5 DEF MeshShare
<1>6. CASE MeshStart
  BY <1>6 DEF MeshStart
<1>7. CASE MeshEnd
  BY <1>7 DEF MeshEnd
<1>8. CASE MeshUpgrade
  BY <1>8 DEF MeshUpgrade
<1>9. CASE MeshRestore
  BY <1>9 DEF MeshRestore
<1>10. CASE MeshRelease
  BY <1>10 DEF MeshRelease
<1>11. CASE MeshCrash
  BY <1>11 DEF MeshCrash
<1>12. CASE MeshRestart
  BY <1>12 DEF MeshRestart
<1> QED
  BY <1>1, <1>2, <1>3, <1>4, <1>5, <1>6, <1>7, <1>8, <1>9, <1>10, <1>11, <1>12 DEF MeshAny, MeshStep

LEMMA MeshServer ==
    ASSUME ProcessAssumption, IInv, MeshAny
    PROVE  ServerPart' /\ ImageKnows' /\ RestartPart'
<1> Images \subseteq Procs /\ Recovery \in Procs /\ Hunyuan \notin Images /\ Recovery # Hunyuan
  BY DEF Procs, ProcessAssumption
<1>1. ServerPart'
  BY MeshFrame DEF IInv, ServerPart, UnquietIsReserved, ImageJobsAreAlone, Quiet, QueueEmpty, Blocked
<1>2. ImageKnows'
  BY MeshFrame DEF IInv, ImageKnows, Knows, Quiet, QueueEmpty, Blocked
<1>3. RestartPart'
  BY MeshFrame, RestartFrame DEF IInv, RestartPart
<1> QED
  BY <1>1, <1>2, <1>3

LEMMA MeshChats ==
    ASSUME ProcessAssumption, IInv, MeshAny
    PROVE  ChatPart'
<1> Chats \subseteq Procs /\ Hunyuan \notin Chats /\ Hunyuan \in Procs
  BY DEF Procs, ProcessAssumption
<1>1. /\ UNCHANGED marker
      /\ \A c \in Chats : pc'[c] = pc[c] /\ (c \in alternate' <=> c \in alternate)
  BY MeshFrame DEF IInv
<1>2. ChatKnows'
  BY <1>1 DEF IInv, ChatKnows, Blocked
<1>3. LeaseKnows' /\ ChatsUseTheAlternate'
  <2> USE DEF IInv, TypeOK, Goto, Step, At, filevars, gpuvars, LeaseKnows, ChatsUseTheAlternate
  <2>1. CASE MeshPublish
    <3>1. \A c \in Chats : pc[c] # "use"
      BY <2>1 DEF Exclusion, Places, MeshPublish, Unlocked
    <3> QED
      BY <1>1, <2>1, <3>1 DEF MeshPublish
  <2>2. CASE MeshPost
    BY <1>1, <2>2 DEF MeshPost
  <2>3. CASE MeshSubmit
    BY <1>1, <2>3 DEF MeshSubmit, TryLock, Hold
  <2>4. CASE MeshUnload
    BY <1>1, <2>4 DEF MeshUnload, UnloadOllama
  <2>5. CASE MeshShare
    BY <1>1, <2>5 DEF MeshShare
  <2>6. CASE MeshStart
    BY <1>1, <2>6 DEF MeshStart
  <2>7. CASE MeshEnd
    BY <1>1, <2>7 DEF MeshEnd
  <2>8. CASE MeshUpgrade
    BY <1>1, <2>8 DEF MeshUpgrade
  <2>9. CASE MeshRestore
    BY <1>1, <2>9 DEF MeshRestore
  <2>10. CASE MeshRelease
    BY <1>1, <2>10 DEF MeshRelease
  <2>11. CASE MeshCrash
    BY <1>1, <2>11 DEF MeshCrash
  <2>12. CASE MeshRestart
    BY <1>1, <2>12 DEF MeshRestart
  <2> QED
    BY <2>1, <2>2, <2>3, <2>4, <2>5, <2>6, <2>7, <2>8, <2>9, <2>10, <2>11, <2>12 DEF MeshAny, MeshStep
<1> QED
  BY <1>2, <1>3 DEF ChatPart

-----------------------------------------------------------------------------
(* The steps of the recovery thread.                                       *)

LEMMA RecoveryFrame ==
    ASSUME ProcessAssumption, TypeOK, RecoveryStep
    PROVE  /\ \A q \in Procs : q # Recovery => pc'[q] = pc[q]
           /\ UNCHANGED <<lease, alternate>>
           /\ ollama' \subseteq ollama
           /\ pc[Recovery] \in Waiting => UNCHANGED <<marker, server, ollama>>
           /\ UNCHANGED server \/ server' = IdleServer
           /\ UNCHANGED marker \/ RecoveryUnlink \/ marker'.state # "absent"
           /\ UNCHANGED attempts \/ RecoveryRestart
<1> Recovery \in Procs
  BY DEF Procs
<1> USE DEF TypeOK, Goto, RecoveryGoto, Remember, Step, At, filevars, gpuvars, Waiting
<1>1. CASE RecoveryBegin
  BY <1>1 DEF RecoveryBegin
<1>2. CASE RecoveryLock
  BY <1>2 DEF RecoveryLock, TryLock
<1>3. CASE RecoveryRead
  BY <1>3 DEF RecoveryRead
<1>4. CASE RecoveryUnload
  BY <1>4 DEF RecoveryUnload, UnloadOllama
<1>5. CASE RecoveryInspect
  BY <1>5 DEF RecoveryInspect
<1>6. CASE RecoverySample
  BY <1>6 DEF RecoverySample
<1>7. CASE RecoveryUnlink
  BY <1>7 DEF RecoveryUnlink
<1>8. CASE RecoveryFailed
  BY <1>8 DEF RecoveryFailed
<1>9. CASE RecoveryTruncate
  BY <1>9 DEF RecoveryTruncate, TornMarker
<1>10. CASE RecoveryWrite
  BY <1>10 DEF RecoveryWrite, Persisted, Written
<1>11. CASE RecoveryRestart
  BY <1>11 DEF RecoveryRestart
<1>12. CASE RecoveryRelease
  BY <1>12 DEF RecoveryRelease
<1> QED
  BY <1>1, <1>2, <1>3, <1>4, <1>5, <1>6, <1>7, <1>8, <1>9, <1>10, <1>11, <1>12 DEF RecoveryStep

LEMMA RecoveryServer ==
    ASSUME ProcessAssumption, IInv, RecoveryStep
    PROVE  ServerPart'
<1> USE DEF IInv, ServerPart, UnquietIsReserved, ImageJobsAreAlone, Quiet, QueueEmpty, Blocked
<1>1. ImageJobsAreAlone'
  BY RecoveryFrame DEF IdleServer
<1>2. UnquietIsReserved'
  <2>1. CASE RecoveryUnlink
    BY <2>1 DEF RecoveryUnlink, RecoveryKnows, At, gpuvars
  <2>2. CASE ~RecoveryUnlink
    BY <2>2, RecoveryFrame DEF IdleServer
  <2> QED
    BY <2>1, <2>2
<1> QED
  BY <1>1, <1>2

LEMMA RecoveryOthers ==
    ASSUME ProcessAssumption, IInv, RecoveryStep
    PROVE  ImageKnows' /\ ChatPart'
<1> Images \subseteq Procs /\ Chats \subseteq Procs /\ Hunyuan \in Procs
  BY DEF Procs
<1>1. /\ \A i \in Images : pc'[i] = pc[i]
      /\ \A c \in Chats : pc'[c] = pc[c]
      /\ pc'[Hunyuan] = pc[Hunyuan] /\ UNCHANGED <<lease, alternate>>
  BY RecoveryFrame DEF IInv, ProcessAssumption
<1>2. CASE pc[Recovery] \in Waiting
  <2>1. UNCHANGED <<marker, server, ollama, attempts>>
    BY <1>2, RecoveryFrame DEF IInv, RecoveryRestart, Step, At, Waiting
  <2> QED
    BY <1>1, <2>1 DEF IInv, ImageKnows, Knows, ChatPart, ChatKnows, LeaseKnows, ChatsUseTheAlternate,
       At, Quiet, QueueEmpty, Blocked
<1>3. CASE pc[Recovery] \notin Waiting
  <2>1. /\ \A i \in Images : pc'[i] \in Waiting
        /\ \A c \in Chats : pc'[c] \in Waiting
    BY <1>1, <1>3, Alone DEF IInv
  <2> QED
    BY <1>1, <2>1 DEF IInv, ImageKnows, Knows, ChatPart, ChatKnows, LeaseKnows, ChatsUseTheAlternate,
       At, Waiting
<1> QED
  BY <1>2, <1>3

\* The counts in the recovery thread's memory, in the marker and in the history.
LEMMA RecoveryRestarts ==
    ASSUME ProcessAssumption, IInv, RecoveryStep
    PROVE  RestartPart'
<1> Recovery \in Procs
  BY DEF Procs
<1>0. memory \in Memory /\ marker \in Marker /\ attempts \in Nat /\ checks \in 0..FailureLimit
  BY DEF IInv, TypeOK
<1>a. /\ memory.failures \in 0..FailureLimit /\ memory.restarts \in 0..RestartBudget
      /\ memory.known \in BOOLEAN
      /\ marker.restarts \in 0..RestartBudget
  BY <1>0 DEF Memory, Marker
<1>b. memory' = [memory EXCEPT !.failures = 0] =>
        memory'.failures = 0 /\ memory'.known = memory.known /\ memory'.restarts = memory.restarts
  BY <1>0 DEF Memory
<1> USE SettingsAssumption DEF IInv, TypeOK, RestartPart, RecoveryKnows, RestartsAreBudgeted, RestartsNeedFailures,
           Goto, RecoveryGoto, Remember, Step, At, filevars, gpuvars
<1>1. CASE RecoveryBegin
  <2>1. UNCHANGED memory \/ memory' = [memory EXCEPT !.failures = 0]
    BY <1>1 DEF RecoveryBegin
  <2>2. pc'[Recovery] \in {"idle", "lock"} /\ UNCHANGED <<marker, server, attempts, checks>>
    BY <1>1 DEF RecoveryBegin
  <2> QED
    BY <1>0, <1>a, <1>b, <2>1, <2>2
<1>2. CASE RecoveryLock
  BY <1>2 DEF RecoveryLock, TryLock
<1>3. CASE RecoveryRead
  <2>1. CASE marker.state = "written" /\ memory' = Recalled
    <3>1. /\ memory'.known = TRUE
          /\ memory'.failures = IF memory.known THEN memory.failures ELSE 0
          /\ memory'.restarts = marker.restarts
      BY <1>0, <2>1 DEF Recalled, Memory
    <3> QED
      BY <1>0, <1>a, <1>3, <2>1, <3>1 DEF RecoveryRead
  <2>2. CASE UNCHANGED memory /\ pc' = [pc EXCEPT ![Recovery] = "release"]
    BY <1>3, <2>2 DEF RecoveryRead
  <2> QED
    BY <1>3, <2>1, <2>2 DEF RecoveryRead
<1>4. CASE RecoveryUnload
  BY <1>4 DEF RecoveryUnload, UnloadOllama
<1>5. CASE RecoveryInspect
  <2>1. memory' = [memory EXCEPT !.ready = Quiet] =>
          /\ memory'.failures = memory.failures
          /\ memory'.known = memory.known
          /\ memory'.restarts = memory.restarts
    BY <1>0 DEF Memory
  <2>2. \/ UNCHANGED memory
        \/ memory' = [memory EXCEPT !.failures = 0]
        \/ memory' = [memory EXCEPT !.ready = Quiet]
    BY <1>5 DEF RecoveryInspect
  <2>3. /\ pc[Recovery] = "inspect" /\ pc'[Recovery] \in {"failed", "release", "sample"}
        /\ UNCHANGED <<marker, server, attempts, checks>>
    BY <1>5 DEF RecoveryInspect
  <2> QED
    BY <1>0, <1>a, <1>b, <2>1, <2>2, <2>3
<1>6. CASE RecoverySample
  BY <1>6 DEF RecoverySample, Quiet, QueueEmpty
<1>7. CASE RecoveryUnlink
  <2>1. \/ UNCHANGED memory /\ UNCHANGED marker
        \/ memory' = [memory EXCEPT !.failures = 0] /\ marker' = NoMarker
    <3>1. CASE Blocked
      BY <1>7, <3>1 DEF RecoveryUnlink
    <3>2. CASE ~Blocked
      BY <1>7, <3>2 DEF RecoveryUnlink
    <3> QED
      BY <3>1, <3>2
  <2>2. /\ pc[Recovery] = "unlink" /\ pc'[Recovery] \in {"failed", "release"}
        /\ UNCHANGED <<attempts, checks>>
    BY <1>7 DEF RecoveryUnlink
  <2>3. NoMarker.state = "absent"
    BY DEF NoMarker
  <2> QED
    BY <1>0, <1>a, <1>b, <2>1, <2>2, <2>3
<1>8. CASE RecoveryFailed
  <2>1. /\ memory'.failures = Capped(memory.failures)
        /\ memory'.known = memory.known
        /\ memory'.restarts = memory.restarts
    BY <1>0, <1>8 DEF RecoveryFailed, Failed, Memory
  <2>2. checks' = Capped(checks) /\ UNCHANGED <<marker, attempts>> /\ memory.known
    BY <1>8 DEF RecoveryFailed
  <2>3. memory'.failures <= checks'
    BY <1>0, <1>a, <2>1, <2>2 DEF Capped
  <2>4. pc'[Recovery] = "truncate" =>
            memory'.failures = FailureLimit /\ memory.restarts < RestartBudget
    BY <1>8 DEF RecoveryFailed, MayRestart
  <2>5. checks' \in 0..FailureLimit
    BY <1>0, <2>2 DEF Capped
  <2>6. pc'[Recovery] \in {"truncate", "release"}
    BY <1>8 DEF RecoveryFailed
  <2> QED
    BY <1>0, <1>a, <1>8, <2>1, <2>2, <2>3, <2>4, <2>5, <2>6 DEF RecoveryFailed
<1>9. CASE RecoveryTruncate
  BY <1>9 DEF RecoveryTruncate, TornMarker
<1>10. CASE RecoveryWrite
  <2>1. /\ pc[Recovery] = "write" /\ UNCHANGED <<server, attempts, checks>>
        /\ \/ /\ pc'[Recovery] = "restart"
              /\ memory' = [memory EXCEPT !.failures = 0]
              /\ marker'.restarts = memory.restarts + 1
           \/ pc'[Recovery] = "release" /\ UNCHANGED <<marker, memory>>
    BY <1>10 DEF RecoveryWrite, Persisted, Written
  <2> QED
    BY <1>0, <1>a, <1>b, <2>1
<1>11. CASE RecoveryRestart
  BY <1>0, <1>a, <1>11 DEF RecoveryRestart
<1>12. CASE RecoveryRelease
  BY <1>12 DEF RecoveryRelease
<1> QED
  BY <1>1, <1>2, <1>3, <1>4, <1>5, <1>6, <1>7, <1>8, <1>9, <1>10, <1>11, <1>12 DEF RecoveryStep

-----------------------------------------------------------------------------
(* The image server, crashes and the administrator.                        *)

LEMMA WorldKnows ==
    ASSUME ProcessAssumption, IInv, WorldStep
    PROVE  ServerPart' /\ ImageKnows' /\ RestartPart' /\ ChatPart'
<1> Images \subseteq Procs /\ Chats \subseteq Procs /\ Recovery \in Procs /\ Hunyuan \in Procs
  BY DEF Procs
<1> Hunyuan \notin Images /\ Hunyuan \notin Chats /\ Recovery # Hunyuan
  BY DEF ProcessAssumption
<1> server \in Server /\ marker \in Marker
  BY DEF IInv, TypeOK
<1>1. CASE ServerStart \/ ServerFinish \/ ServerFree
  <2>1. ServerPart' /\ ~Quiet
    BY <1>1 DEF IInv, ServerPart, UnquietIsReserved, ImageJobsAreAlone, Quiet, QueueEmpty, Blocked,
       ServerStart, ServerFinish, ServerFree, Server, filevars
  <2>2. ImageKnows'
    BY <1>1, <2>1 DEF IInv, ImageKnows, Knows, Quiet, QueueEmpty, Blocked, ServerStart, ServerFinish,
       ServerFree, filevars, Server
  <2>3. RestartPart' /\ ChatPart'
    <3>1. UNCHANGED <<pc, marker, lease, alternate, memory, attempts, checks>>
      BY <1>1 DEF ServerStart, ServerFinish, ServerFree, filevars
    <3>2. pc[Recovery] # "unlink"
      BY <2>1 DEF IInv, RecoveryKnows
    <3> QED
      BY <3>1, <3>2 DEF IInv, RestartPart, RecoveryKnows, RestartsAreBudgeted, RestartsNeedFailures,
         ChatPart, ChatKnows, LeaseKnows, ChatsUseTheAlternate, At, Blocked
  <2> QED
    BY <2>1, <2>2, <2>3
<1>2. CASE CoolDown
  <2>1. /\ marker'.state = marker.state /\ marker'.restarts = marker.restarts
        /\ UNCHANGED <<pc, lease, server, ollama, alternate, memory, attempts, checks>>
    BY <1>2 DEF CoolDown, Marker, gpuvars
  <2> QED
    BY <2>1 DEF IInv, RestartPart, RecoveryKnows, RestartsAreBudgeted, RestartsNeedFailures,
       ImageKnows, Knows, Quiet, QueueEmpty, ServerPart, UnquietIsReserved, ImageJobsAreAlone,
       ChatPart, ChatKnows, LeaseKnows, ChatsUseTheAlternate, At, Blocked
<1>3. CASE ApiCrash
  <2>1. /\ \A p \in Procs : p # Hunyuan => pc'[p] = "idle"
        /\ pc'[Hunyuan] = pc[Hunyuan]
        /\ Hunyuan \in alternate' <=> Hunyuan \in alternate
        /\ UNCHANGED <<marker, lease, server, ollama, attempts, checks>>
        /\ memory'.known = FALSE
    BY <1>3 DEF ApiCrash, filevars, gpuvars, NoMemory
  <2>2. ServerPart' /\ ImageKnows'
    BY <2>1 DEF IInv, ServerPart, UnquietIsReserved, ImageJobsAreAlone, ImageKnows, Knows, Quiet,
       QueueEmpty, Blocked, ProcessAssumption
  <2>3. RestartPart'
    BY <2>1 DEF IInv, RestartPart, RecoveryKnows, RestartsAreBudgeted, RestartsNeedFailures, At
  <2>4. ChatPart'
    BY <2>1 DEF IInv, ChatPart, ChatKnows, LeaseKnows, ChatsUseTheAlternate, At
  <2> QED
    BY <2>2, <2>3, <2>4
<1>4. CASE Administrator
  <2>1. /\ marker' = NoMarker /\ server' = IdleServer
        /\ UNCHANGED <<pc, lease, ollama, alternate, memory, attempts, checks>>
        /\ \A i \in Images : pc[i] \in Waiting
    BY <1>4 DEF Administrator, NeedsAdministrator, IInv, Places, Waiting
  <2>2. ServerPart' /\ ImageKnows'
    BY <2>1 DEF ServerPart, UnquietIsReserved, ImageJobsAreAlone, ImageKnows, Knows, Quiet,
       QueueEmpty, IdleServer, Waiting
  <2>3. RestartPart'
    BY <2>1 DEF IInv, RestartPart, RecoveryKnows, RestartsAreBudgeted, RestartsNeedFailures, At,
       NoMarker, IdleServer, Quiet, QueueEmpty
  <2>4. ChatPart'
    BY <2>1 DEF IInv, ChatPart, ChatKnows, LeaseKnows, ChatsUseTheAlternate, At, NoMarker, Blocked
  <2> QED
    BY <2>2, <2>3, <2>4
<1> QED
  BY <1>1, <1>2, <1>3, <1>4 DEF WorldStep

-----------------------------------------------------------------------------
(* The theorems.                                                           *)

LEMMA InitInv ==
    ASSUME ProcessAssumption, SettingsAssumption, Init
    PROVE  IInv
<1> Images \subseteq Procs /\ Chats \subseteq Procs /\ Recovery \in Procs /\ Hunyuan \in Procs
  BY DEF Procs
<1> USE DEF Init
<1>1. TypeOK
  <2>1. marker \in Marker /\ server \in Server /\ memory \in Memory
    BY MarkerTypes, ServerTypes, MemoryTypes
  <2>2. crashes \in 0..MaxCrashes /\ checks \in 0..FailureLimit /\ attempts \in Nat
    BY SettingsAssumption
  <2> QED
    BY <2>1, <2>2 DEF TypeOK, PC
<1>2. Exclusion /\ Places
  BY DEF Exclusion, Places, Unlocked
<1>3. Quiet /\ QueueEmpty
  BY DEF Quiet, QueueEmpty, IdleServer
<1>4. ImageKnows /\ ChatKnows /\ LeaseKnows /\ ChatsUseTheAlternate
  BY DEF ImageKnows, Knows, ChatKnows, LeaseKnows, ChatsUseTheAlternate, At
<1>5. UnquietIsReserved /\ ImageJobsAreAlone
  BY <1>3 DEF UnquietIsReserved, ImageJobsAreAlone
<1>6. RecoveryKnows /\ RestartsAreBudgeted /\ RestartsNeedFailures
  BY SettingsAssumption DEF RecoveryKnows, RestartsAreBudgeted, RestartsNeedFailures, At,
         NoMemory, NoMarker
<1> QED
  BY <1>1, <1>2, <1>4, <1>5, <1>6 DEF IInv

LEMMA NextInv ==
    ASSUME ProcessAssumption, SettingsAssumption, IInv, Next
    PROVE  IInv'
<1> TypeOK /\ Exclusion /\ Places /\ LeaseKnows /\ RecoveryKnows
  BY DEF IInv
<1> USE DEF ServerPart, RestartPart, ChatPart
<1>1. ASSUME NEW i \in Images, ImageBegin(i) \/ ImageStep(i)
      PROVE  IInv'
  BY <1>1, ImageTypes, ImageLocks, ImageServer, ImageImages, ImageRestart, ImageChats DEF IInv
<1>2. ASSUME NEW c \in Chats, ChatBegin(c) \/ ChatStep(c)
      PROVE  IInv'
  BY <1>2, ChatTypes, ChatLocks, ChatServer, ChatImages, ChatRestart, ChatChats DEF IInv
<1>3. CASE MeshAny
  BY <1>3, MeshTypes, MeshLocks, MeshServer, MeshChats DEF IInv, MeshAny
<1>4. CASE RecoveryStep
  BY <1>4, RecoveryTypes, RecoveryLocks, RecoveryServer, RecoveryOthers, RecoveryRestarts DEF IInv
<1>5. CASE WorldStep
  BY <1>5, WorldTypes, WorldLocks, WorldKnows DEF IInv
<1> QED
  BY <1>1, <1>2, <1>3, <1>4, <1>5 DEF Next, MeshAny, WorldStep

LEMMA StutterInv ==
    ASSUME IInv, UNCHANGED vars
    PROVE  IInv'
<1> USE DEF vars, filevars, gpuvars
<1>1. TypeOK' /\ Exclusion' /\ Places'
  BY DEF IInv, TypeOK, Exclusion, Places
<1>2. ImageKnows' /\ ChatKnows' /\ LeaseKnows' /\ ChatsUseTheAlternate'
  BY DEF IInv, ImageKnows, Knows, ChatKnows, LeaseKnows, ChatsUseTheAlternate, At, Quiet, QueueEmpty, Blocked
<1>3. UnquietIsReserved' /\ ImageJobsAreAlone'
  BY DEF IInv, UnquietIsReserved, ImageJobsAreAlone, Quiet, QueueEmpty, Blocked
<1>4. RecoveryKnows' /\ RestartsAreBudgeted' /\ RestartsNeedFailures'
  BY DEF IInv, RecoveryKnows, RestartsAreBudgeted, RestartsNeedFailures, At, Quiet, QueueEmpty
<1> QED
  BY <1>1, <1>2, <1>3, <1>4 DEF IInv

\* The inductive invariant holds in every reachable state.
THEOREM Invariance == Spec => []IInv
<1>1. Init => IInv
  BY InitInv, ProcessAssumption, SettingsAssumption
<1>2. IInv /\ [Next]_vars => IInv'
  BY NextInv, StutterInv, ProcessAssumption, SettingsAssumption
<1> QED
  BY <1>1, <1>2, PTL DEF Spec

\* Every variable keeps its type, the count of restarts in the marker included.
THEOREM TypeCorrect == Spec => []TypeOK
<1>1. IInv => TypeOK
  BY DEF IInv
<1> QED
  BY <1>1, Invariance, PTL

\* The GPU is reserved on disk as long as the image server is not quiet, whatever
\* the API and the 3D worker do and whenever they stop (block_gpu, tick).
THEOREM Reserved == Spec => []UnquietIsReserved
<1>1. IInv => UnquietIsReserved
  BY DEF IInv
<1> QED
  BY <1>1, Invariance, PTL

\* A chat uses a model only while the image server is quiet (gpu_reservation): it
\* has seen no marker under its lock, and the marker cannot appear before it ends.
THEOREM ChatIsSafe == Spec => []ChatNeverMeetsImage
<1>1. IInv => ChatNeverMeetsImage
  BY DEF IInv, ChatKnows, UnquietIsReserved, ChatNeverMeetsImage, At
<1> QED
  BY <1>1, Invariance, PTL

\* Ollama has no model loaded while an image job is on the server, and the server
\* has one job of this application at most (image_gpu).
THEOREM JobsAreAlone == Spec => []ImageJobsAreAlone
<1>1. IInv => ImageJobsAreAlone
  BY DEF IInv
<1> QED
  BY <1>1, Invariance, PTL

\* While a 3D job's lease stands, chats use its alternate model (submit, run_job).
THEOREM LeaseIsKept == Spec => []ChatsUseTheAlternate
<1>1. IInv => ChatsUseTheAlternate
  BY DEF IInv
<1> QED
  BY <1>1, Invariance, PTL

\* At most three restarts for a marker, counted on disk before each (tick).
THEOREM Budgeted == Spec => []RestartsAreBudgeted
<1>1. IInv => RestartsAreBudgeted
  BY DEF IInv
<1> QED
  BY <1>1, Invariance, PTL

\* No restart without three failed checks of the present marker (tick).
THEOREM FailuresFirst == Spec => []RestartsNeedFailures
<1>1. IInv => RestartsNeedFailures
  BY DEF IInv
<1> QED
  BY <1>1, Invariance, PTL
=============================================================================
