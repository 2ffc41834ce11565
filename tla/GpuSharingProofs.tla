--------------------------- MODULE GpuSharingProofs ---------------------------
(***************************************************************************)
(* GpuLease implements GpuSharing, for every set of image threads and      *)
(* chats, every setting and any number of crashes.                         *)
(***************************************************************************)
EXTENDS GpuLeaseProofs

-----------------------------------------------------------------------------
(* What the mapping needs beyond IInv.                                     *)

\* A thread that goes on to write a marker writes the first one: the GPU it
\* locked was quiet, and nobody reserved it since.
Fresh(i) ==
    /\ pc[i] \in {"unload", "inspect", "truncate"} => ~Blocked
    /\ pc[i] \in {"unload", "inspect", "truncate", "write", "submit"} => Quiet
    /\ pc[i] = "write" => Blocked

Checking == {"unload", "inspect", "sample", "unlink", "failed"}

\* The recovery thread rewrites the marker it read: as long as it may restart the
\* server, no administrator removes it.
RewritesOwn ==
    /\ pc[Recovery] \in Checking \cup {"truncate", "write"} => Local
    /\ pc[Recovery] \in {"truncate", "write"} => AutoRestart
    /\ (\/ pc[Recovery] = "truncate"
        \/ pc[Recovery] \in Checking /\ memory.restarts < RestartBudget /\ AutoRestart) =>
          marker.state = "written" /\ marker.restarts = memory.restarts
    /\ pc[Recovery] = "write" => marker = TornMarker

\* A chat has an alternate model only while it uses one.
UsersOnly == \A c \in Chats : c \in alternate => pc[c] \in {"use", "release"}

ShareInv ==
    /\ \A i \in Images : Fresh(i)
    /\ RewritesOwn
    /\ UsersOnly

-----------------------------------------------------------------------------
(* ShareInv is inductive relative to IInv.                                 *)

LEMMA OwnFresh ==
    ASSUME IInv, NEW i \in Images, Fresh(i), ImageBegin(i) \/ ImageStep(i)
    PROVE  Fresh(i)'
<1> i \in Procs /\ TypeOK
  BY DEF Procs, IInv
<1> USE DEF TypeOK, Goto, Step, At, filevars, gpuvars, Fresh, Quiet, QueueEmpty, Blocked
<1>1. CASE ImageRecheck(i)
  BY <1>1 DEF ImageRecheck, IInv, UnquietIsReserved
<1>2. CASE ImageUnload(i)
  BY <1>2 DEF ImageUnload, UnloadOllama
<1>3. CASE ImageInspect(i)
  BY <1>3 DEF ImageInspect
<1>4. CASE ImageTruncate(i)
  BY <1>4 DEF ImageTruncate, TornMarker
<1>5. CASE ImageWrite(i)
  BY <1>5 DEF ImageWrite
<1>6. CASE ImageSubmit(i) \/ ImageDelete(i) \/ ImageUnlink(i)
  BY <1>6 DEF ImageSubmit, ImageDelete, ImageUnlink
<1>7. CASE ImageBegin(i) \/ ImageLock(i)
  BY <1>7 DEF ImageBegin, ImageLock, TryLock
<1>8. CASE ImageRejected(i) \/ ImagePoll(i) \/ ImageStop(i) \/ ImageConfirm(i)
              \/ ImageWait(i) \/ ImageRelease(i)
  BY <1>8 DEF ImageRejected, ImagePoll, ImageStop, ImageConfirm, ImageWait, CleanupOutcome,
         ImageRelease
<1> QED
  BY <1>1, <1>2, <1>3, <1>4, <1>5, <1>6, <1>7, <1>8 DEF ImageStep

\* A thread that does not step, while the marker and the server stay.
LEMMA FreshStays ==
    ASSUME NEW i \in Images, Fresh(i), pc'[i] = pc[i],
           pc[i] \in Waiting \/ (marker'.state = marker.state /\ UNCHANGED server)
    PROVE  Fresh(i)'
BY DEF Fresh, Waiting, Quiet, QueueEmpty, Blocked

LEMMA RewritesStays ==
    ASSUME RewritesOwn, pc'[Recovery] = pc[Recovery],
           pc[Recovery] \in Waiting \/ UNCHANGED <<marker, memory>>
    PROVE  RewritesOwn'
BY DEF RewritesOwn, Checking, Waiting

LEMMA ImageShare ==
    ASSUME IInv, ShareInv, NEW i \in Images, ImageBegin(i) \/ ImageStep(i)
    PROVE  ShareInv'
<1> TypeOK /\ Images \subseteq Procs /\ Chats \subseteq Procs /\ Recovery \in Procs
  BY DEF Procs, IInv
<1>1. /\ \A q \in Procs : q # i => pc'[q] = pc[q]
      /\ UNCHANGED alternate
  BY ImageFrame, ProcessAssumption
<1>2. pc[i] \in Waiting => UNCHANGED <<marker, memory, server>>
  BY ImageFrame, ProcessAssumption DEF Waiting, ImageTruncate, ImageWrite, ImageUnlink,
         ImageSubmit, ImageDelete, Step, At
<1>3. ASSUME NEW j \in Images PROVE Fresh(j)'
  <2>1. CASE j = i
    BY <2>1, OwnFresh DEF ShareInv
  <2>2. CASE j # i
    <3>1. pc[j] \in Waiting \/ UNCHANGED <<marker, server>>
      BY <1>2, <2>2, ImageAlone, ProcessAssumption
    <3> QED
      BY <1>1, <2>2, <3>1, FreshStays DEF ShareInv
  <2> QED
    BY <2>1, <2>2
<1>4. RewritesOwn'
  <2>1. pc[Recovery] \in Waiting \/ UNCHANGED <<marker, memory>>
    BY <1>2, ImageAlone, ProcessAssumption
  <2> QED
    BY <1>1, <2>1, RewritesStays, ProcessAssumption DEF ShareInv
<1>5. UsersOnly'
  BY <1>1, ProcessAssumption DEF ShareInv, UsersOnly
<1> QED
  BY <1>3, <1>4, <1>5 DEF ShareInv

LEMMA ChatShare ==
    ASSUME IInv, ShareInv, NEW c \in Chats, ChatBegin(c) \/ ChatStep(c)
    PROVE  ShareInv'
<1> TypeOK /\ Images \subseteq Procs /\ Chats \subseteq Procs /\ Recovery \in Procs
  BY DEF Procs, IInv
<1>1. /\ \A q \in Procs : q # c => pc'[q] = pc[q]
      /\ UNCHANGED <<marker, server, memory>>
      /\ \A d \in Chats : d # c => (d \in alternate' <=> d \in alternate)
  BY ChatFrame, ProcessAssumption
<1>2. \A i \in Images : Fresh(i)'
  BY <1>1, FreshStays, ProcessAssumption DEF ShareInv
<1>3. RewritesOwn'
  BY <1>1, RewritesStays, ProcessAssumption DEF ShareInv
<1>4. c \in alternate' => pc'[c] \in {"use", "release"}
  BY DEF ShareInv, UsersOnly, TypeOK, Goto, Step, At, gpuvars, ChatBegin, ChatStep, ChatLock,
         TryLock, ChatRecheck, ChatEnd, ChatRelease
<1>5. UsersOnly'
  BY <1>1, <1>4 DEF ShareInv, UsersOnly
<1> QED
  BY <1>2, <1>3, <1>5 DEF ShareInv

LEMMA MeshShares ==
    ASSUME IInv, ShareInv, MeshAny
    PROVE  ShareInv'
<1> TypeOK /\ Images \subseteq Procs /\ Chats \subseteq Procs /\ Recovery \in Procs
  BY DEF Procs, IInv
<1>1. /\ \A q \in Procs : q # Hunyuan => pc'[q] = pc[q]
      /\ UNCHANGED <<marker, server, memory>>
      /\ \A d \in Chats : d \in alternate' <=> d \in alternate
  BY MeshFrame, ProcessAssumption
<1>2. \A i \in Images : Fresh(i)'
  BY <1>1, FreshStays, ProcessAssumption DEF ShareInv
<1>3. RewritesOwn'
  BY <1>1, RewritesStays, ProcessAssumption DEF ShareInv
<1>4. UsersOnly'
  BY <1>1, ProcessAssumption DEF ShareInv, UsersOnly
<1> QED
  BY <1>2, <1>3, <1>4 DEF ShareInv

LEMMA OwnRewrite ==
    ASSUME IInv, RewritesOwn, RecoveryStep
    PROVE  RewritesOwn'
<1> Recovery \in Procs /\ TypeOK
  BY DEF Procs, IInv
<1> USE DEF TypeOK, Goto, RecoveryGoto, Remember, Step, At, filevars, RewritesOwn, Checking
<1>1. CASE RecoveryBegin \/ RecoveryLock \/ RecoveryRelease
  BY <1>1 DEF RecoveryBegin, RecoveryLock, TryLock, RecoveryRelease
<1>2. CASE RecoveryRead
  <2>1. memory' = Recalled => memory'.restarts = marker.restarts
    BY DEF Recalled, Memory
  <2> QED
    BY <1>2, <2>1 DEF RecoveryRead
<1>3. CASE RecoveryUnload
  BY <1>3 DEF RecoveryUnload, UnloadOllama
<1>4. CASE RecoveryInspect
  <2>1. memory'.restarts = memory.restarts
    BY <1>4 DEF RecoveryInspect, Memory
  <2> QED
    BY <1>4, <2>1 DEF RecoveryInspect
<1>5. CASE RecoverySample
  BY <1>5 DEF RecoverySample
<1>6. CASE RecoveryUnlink
  BY <1>6 DEF RecoveryUnlink, Blocked
<1>7. CASE RecoveryFailed
  <2>1. memory'.restarts = memory.restarts
    BY <1>7 DEF RecoveryFailed, Failed, Memory
  <2> QED
    BY <1>7, <2>1 DEF RecoveryFailed, MayRestart
<1>8. CASE RecoveryTruncate
  BY <1>8 DEF RecoveryTruncate
<1>9. CASE RecoveryWrite \/ RecoveryRestart
  BY <1>9 DEF RecoveryWrite, RecoveryRestart
<1> QED
  BY <1>1, <1>2, <1>3, <1>4, <1>5, <1>6, <1>7, <1>8, <1>9 DEF RecoveryStep

LEMMA RecoveryShare ==
    ASSUME IInv, ShareInv, RecoveryStep
    PROVE  ShareInv'
<1> TypeOK /\ Images \subseteq Procs /\ Chats \subseteq Procs
  BY DEF Procs, IInv
<1>1. /\ \A q \in Procs : q # Recovery => pc'[q] = pc[q]
      /\ UNCHANGED alternate
      /\ pc[Recovery] \in Waiting => UNCHANGED <<marker, server>>
  BY RecoveryFrame, ProcessAssumption
<1>2. pc[Recovery] \notin Waiting => \A i \in Images : pc[i] \in Waiting
  BY Alone, ProcessAssumption DEF IInv
<1>3. \A i \in Images : Fresh(i)'
  BY <1>1, <1>2, FreshStays, ProcessAssumption DEF ShareInv
<1>4. UsersOnly'
  BY <1>1, ProcessAssumption DEF ShareInv, UsersOnly
<1> QED
  BY <1>3, <1>4, OwnRewrite DEF ShareInv

\* The administrator comes only when the recovery thread may not go on.
LEMMA AdministratorWaits ==
    ASSUME IInv, RewritesOwn, Administrator
    PROVE  RewritesOwn'
<1> Recovery \in Procs
  BY DEF Procs
<1>1. UNCHANGED <<pc, memory>>
  BY DEF Administrator
<1>2. memory.restarts \in Nat /\ RestartBudget \in Nat
  BY SettingsAssumption DEF IInv, TypeOK, Memory
<1>3. pc[Recovery] \in {"truncate", "write"} => memory.restarts < RestartBudget
  BY DEF IInv, RecoveryKnows
<1>4. pc[Recovery] \notin {"truncate", "write"}
  BY <1>2, <1>3 DEF Administrator, NeedsAdministrator, Unreadable, RewritesOwn, Checking,
         At, TornMarker
<1>5. pc[Recovery] \in Checking => ~(memory.restarts < RestartBudget /\ AutoRestart)
  BY <1>2 DEF Administrator, NeedsAdministrator, Unreadable, RewritesOwn
<1> QED
  BY <1>1, <1>4, <1>5 DEF RewritesOwn

LEMMA WorldShare ==
    ASSUME IInv, ShareInv, WorldStep
    PROVE  ShareInv'
<1> TypeOK /\ Images \subseteq Procs /\ Chats \subseteq Procs /\ Recovery \in Procs
  BY DEF Procs, IInv
<1>1. CASE ServerStart \/ ServerFinish \/ ServerFree
  <2>1. UNCHANGED <<pc, marker, memory, alternate>>
    BY <1>1 DEF ServerStart, ServerFinish, ServerFree, filevars
  <2>2. ~Quiet
    BY <1>1 DEF ServerStart, ServerFinish, ServerFree, Quiet, QueueEmpty
  <2>3. \A i \in Images : Fresh(i)'
    BY <2>1, <2>2 DEF ShareInv, Fresh, Blocked
  <2> QED
    BY <2>1, <2>3, RewritesStays DEF ShareInv, UsersOnly
<1>2. CASE CoolDown
  <2>1. /\ UNCHANGED <<pc, server, memory, alternate>>
        /\ marker'.state = marker.state /\ marker'.restarts = marker.restarts
    BY <1>2 DEF CoolDown, TypeOK, Marker, gpuvars
  <2>2. RewritesOwn'
    BY <1>2, <2>1 DEF ShareInv, RewritesOwn, CoolDown, TornMarker
  <2> QED
    BY <2>1, <2>2, FreshStays DEF ShareInv, UsersOnly
<1>3. CASE ApiCrash
  <2>1. \A p \in Procs : p # Hunyuan => pc'[p] = "idle"
    BY <1>3 DEF ApiCrash
  <2>2. \A c \in Chats : c \notin alternate'
    BY <1>3, ProcessAssumption DEF ApiCrash
  <2>3. /\ \A i \in Images : pc'[i] = "idle"
        /\ pc'[Recovery] = "idle"
    BY <2>1, ProcessAssumption
  <2> QED
    BY <2>2, <2>3 DEF ShareInv, Fresh, RewritesOwn, Checking, UsersOnly
<1>4. CASE Administrator
  <2>1. UNCHANGED <<pc, alternate>> /\ \A i \in Images : pc[i] \in Waiting
    BY <1>4 DEF Administrator, NeedsAdministrator, IInv, Places, Waiting
  <2> QED
    BY <1>4, <2>1, FreshStays, AdministratorWaits DEF ShareInv, UsersOnly
<1> QED
  BY <1>1, <1>2, <1>3, <1>4 DEF WorldStep

LEMMA ShareInvariance == Spec => []ShareInv
<1>1. Init => ShareInv
  BY DEF Init, ShareInv, Fresh, RewritesOwn, Checking, UsersOnly, Procs
<1>2. IInv /\ ShareInv /\ [Next]_vars => ShareInv'
  <2> SUFFICES ASSUME IInv, ShareInv, [Next]_vars PROVE ShareInv'
    OBVIOUS
  <2>1. CASE UNCHANGED vars
    BY <2>1 DEF vars, filevars, gpuvars, ShareInv, Fresh, RewritesOwn, UsersOnly, Quiet, QueueEmpty,
           Blocked
  <2> QED
    BY <2>1, ImageShare, ChatShare, MeshShares, RecoveryShare, WorldShare
       DEF Next, MeshAny, WorldStep
<1> QED
  BY <1>1, <1>2, Invariance, PTL DEF Spec

-----------------------------------------------------------------------------
(* Every step is a step of GpuSharing or a stutter.                        *)

Users == {c \in Chats : At(c, "use")}
Moved == {c \in Chats : At(c, "use") /\ c \in alternate}

LEMMA SameUsers ==
    ASSUME \A c \in Chats : pc'[c] = pc[c] /\ (c \in alternate' <=> c \in alternate)
    PROVE  Users' = Users /\ Moved' = Moved
BY DEF Users, Moved, At

\* Nobody chats beside a process that holds the lock exclusively.
LEMMA NoUsers ==
    ASSUME IInv
    PROVE  /\ \A i \in Images : pc[i] \notin Waiting => Users = {}
           /\ pc[Recovery] \notin Waiting => Users = {}
           /\ Grantable(Hunyuan, "exclusive") \/ mode[Hunyuan] = "exclusive" => Users = {}
<1>1. \A c \in Chats : At(c, "use") => pc[c] \notin Waiting /\ mode[c] = "shared" /\ c \in Procs
  BY DEF IInv, Places, At, Waiting, Procs
<1>2. Hunyuan \in Procs /\ Hunyuan \notin Chats
  BY ProcessAssumption DEF Procs
<1>3. Grantable(Hunyuan, "exclusive") \/ mode[Hunyuan] = "exclusive" => Users = {}
  BY <1>1, <1>2 DEF Grantable, Users, IInv, Exclusion
<1>4. \A i \in Images : pc[i] \notin Waiting => Users = {}
  BY <1>1, Alone, ProcessAssumption DEF Users, IInv
<1>5. pc[Recovery] \notin Waiting => Users = {}
  BY <1>1, Alone, ProcessAssumption DEF Users, IInv
<1> QED
  BY <1>3, <1>4, <1>5

LEMMA ImageShares ==
    ASSUME IInv, ShareInv, NEW i \in Images, ImageBegin(i) \/ ImageStep(i)
    PROVE  [Sharing!Next]_(Sharing!vars)
<1> TypeOK /\ Fresh(i) /\ Chats \subseteq Procs
  BY DEF IInv, ShareInv, Procs
<1>1. Users' = Users /\ Moved' = Moved /\ UNCHANGED lease
  BY ImageFrame, SameUsers, ProcessAssumption
<1>2. CASE ImageTruncate(i)
  <2>1. ~Blocked /\ Quiet /\ Users = {}
    BY <1>2, NoUsers DEF ImageTruncate, Step, At, Fresh, Waiting
  <2>2. Blocked' /\ Quiet' /\ attempts' = 0
    BY <1>2, <2>1 DEF ImageTruncate, TornMarker, Blocked, Quiet, QueueEmpty, gpuvars
  <2>3. Sharing!Reserve
    BY <1>1, <2>1, <2>2 DEF Sharing!Reserve, Users, Moved
  <2> QED
    BY <2>3 DEF Sharing!Next
<1>3. CASE ImageSubmit(i)
  <2>1. Blocked /\ Quiet /\ Users = {}
    BY <1>3, NoUsers DEF ImageSubmit, At, Fresh, Waiting, IInv, ImageKnows, Knows
  <2>2. Blocked' /\ attempts' = attempts
    BY <1>3, <2>1 DEF ImageSubmit, Blocked, filevars
  <2>3. CASE Quiet'
    BY <1>1, <2>1, <2>2, <2>3 DEF Sharing!vars, Users, Moved
  <2>4. CASE ~Quiet'
    <3>1. Sharing!Work
      BY <1>1, <2>1, <2>2, <2>4 DEF Sharing!Work, Users, Moved
    <3> QED
      BY <3>1 DEF Sharing!Next
  <2> QED
    BY <2>3, <2>4
<1>4. CASE ImageDelete(i)
  <2>1. UNCHANGED marker /\ attempts' = attempts /\ (Quiet => Quiet')
    BY <1>4 DEF ImageDelete, filevars, Quiet, QueueEmpty, TypeOK, Server
  <2>2. CASE Quiet'
    <3>1. Sharing!Settle
      BY <1>1, <2>1, <2>2 DEF Sharing!Settle, Users, Moved, Blocked
    <3> QED
      BY <3>1 DEF Sharing!Next
  <2>3. CASE ~Quiet'
    BY <1>1, <2>1, <2>3 DEF Sharing!vars, Users, Moved, Blocked
  <2> QED
    BY <2>2, <2>3
<1>5. CASE ImageUnlink(i)
  <2>1. ~Blocked' /\ Quiet' /\ attempts' = attempts
    BY <1>5 DEF ImageUnlink, Step, At, NoMarker, Blocked, gpuvars, Quiet, QueueEmpty, IInv,
           ImageKnows, Knows
  <2>2. Sharing!Free
    BY <1>1, <2>1 DEF Sharing!Free, Users, Moved
  <2> QED
    BY <2>2 DEF Sharing!Next
<1>6. CASE ImageWrite(i)
  <2>1. Blocked /\ Blocked' /\ UNCHANGED <<server, attempts>>
    BY <1>6 DEF ImageWrite, At, Written, Blocked, gpuvars, Fresh
  <2> QED
    BY <1>1, <2>1 DEF Sharing!vars, Users, Moved, Quiet, QueueEmpty
<1>7. CASE UNCHANGED <<marker, server, attempts>>
  BY <1>1, <1>7 DEF Sharing!vars, Users, Moved, Quiet, QueueEmpty, Blocked
<1> QED
  BY <1>2, <1>3, <1>4, <1>5, <1>6, <1>7, ImageFrame, ProcessAssumption

LEMMA ChatShares ==
    ASSUME IInv, ShareInv, NEW c \in Chats, ChatBegin(c) \/ ChatStep(c)
    PROVE  [Sharing!Next]_(Sharing!vars)
<1> TypeOK /\ c \in Procs /\ Chats \subseteq Procs
  BY DEF IInv, Procs
<1>1. /\ \A d \in Chats : d # c => pc'[d] = pc[d] /\ (d \in alternate' <=> d \in alternate)
      /\ UNCHANGED <<marker, lease, server, attempts>>
  BY ChatFrame, ProcessAssumption
<1>2. Blocked' = Blocked /\ Quiet' = Quiet
  BY <1>1 DEF Blocked, Quiet, QueueEmpty
<1>3. CASE pc'[c] = "use"
  <2>1. ~Blocked /\ (c \in alternate' <=> c \in alternate \/ lease)
    BY <1>3, ChatFrame, ProcessAssumption DEF ChatRecheck, Goto, TypeOK
  <2>2. c \notin alternate
    BY <1>3, ChatFrame, ProcessAssumption DEF ChatRecheck, At, ShareInv, UsersOnly
  <2>3. Users' = Users \cup {c} /\ Moved' = IF lease THEN Moved \cup {c} ELSE Moved
    BY <1>1, <1>3, <2>1, <2>2 DEF Users, Moved, At
  <2>4. Sharing!Use(c)
    BY <1>1, <1>2, <2>1, <2>3 DEF Sharing!Use, Users, Moved
  <2> QED
    BY <2>4 DEF Sharing!Next
<1>4. CASE pc'[c] # "use"
  <2>1. Users' = Users \ {c} /\ Moved' = Moved \cap Users'
    BY <1>1, <1>4 DEF Users, Moved, At
  <2>2. Sharing!Leave
    BY <1>1, <1>2, <2>1 DEF Sharing!Leave, Users, Moved
  <2> QED
    BY <2>2 DEF Sharing!Next
<1> QED
  BY <1>3, <1>4

LEMMA MeshLends ==
    ASSUME IInv, MeshAny
    PROVE  [Sharing!Next]_(Sharing!vars)
<1> TypeOK /\ Chats \subseteq Procs
  BY DEF IInv, Procs
<1>1. UNCHANGED <<marker, server, attempts>> /\ Users' = Users /\ Moved' = Moved
  BY MeshFrame, SameUsers, ProcessAssumption
<1>2. Blocked' = Blocked /\ Quiet' = Quiet
  BY <1>1 DEF Blocked, Quiet, QueueEmpty
<1>3. CASE UNCHANGED lease
  BY <1>1, <1>2, <1>3 DEF Sharing!vars, Users, Moved
<1>4. CASE ~UNCHANGED lease
  <2>1. MeshPublish \/ MeshRestore \/ MeshRestart
    BY <1>4 DEF MeshAny, MeshStep, MeshPost, MeshSubmit, MeshUnload, MeshShare, MeshStart, MeshEnd,
           MeshUpgrade, MeshRelease, MeshCrash, filevars
  <2>2. Grantable(Hunyuan, "exclusive") \/ mode[Hunyuan] = "exclusive"
    BY <2>1 DEF MeshPublish, MeshRestore, MeshRestart, Step, At, IInv, Places, Unlocked
  <2>3. lease' = ~lease
    BY <1>4, <2>1 DEF MeshPublish, MeshRestore, MeshRestart, TypeOK
  <2>4. Sharing!Lend
    BY <1>1, <1>2, <2>2, <2>3, NoUsers DEF Sharing!Lend, Users, Moved
  <2> QED
    BY <2>4 DEF Sharing!Next
<1> QED
  BY <1>3, <1>4

LEMMA RecoveryShares ==
    ASSUME IInv, ShareInv, RecoveryStep
    PROVE  [Sharing!Next]_(Sharing!vars)
<1> TypeOK /\ Chats \subseteq Procs /\ Recovery \notin Chats
  BY ProcessAssumption DEF IInv, Procs
<1>1. Users' = Users /\ Moved' = Moved /\ UNCHANGED lease
  BY RecoveryFrame, SameUsers, ProcessAssumption
<1>2. CASE RecoveryRestart
  <2>1. Users = {} /\ attempts < RestartBudget
    BY <1>2, NoUsers DEF RecoveryRestart, Step, At, Waiting, IInv, RecoveryKnows
  <2>2. attempts' = attempts + 1 /\ UNCHANGED marker /\ (UNCHANGED server \/ Quiet')
    BY <1>2 DEF RecoveryRestart, filevars, Quiet, QueueEmpty, IdleServer
  <2>3. (~Quiet)' \in {~Quiet, FALSE}
    BY <2>2 DEF Quiet, QueueEmpty
  <2>4. Sharing!Restart
    BY <1>1, <2>1, <2>2, <2>3 DEF Sharing!Restart, Users, Moved, Blocked
  <2> QED
    BY <2>4 DEF Sharing!Next
<1>3. CASE RecoveryUnlink /\ Blocked
  <2>1. Quiet' /\ ~Blocked' /\ attempts' = attempts
    BY <1>3 DEF RecoveryUnlink, At, IInv, RecoveryKnows, NoMarker, Blocked, gpuvars, Quiet, QueueEmpty
  <2>2. Sharing!Free
    BY <1>1, <2>1 DEF Sharing!Free, Users, Moved
  <2> QED
    BY <2>2 DEF Sharing!Next
<1>4. CASE RecoveryTruncate \/ RecoveryWrite
  <2>1. Blocked
    BY <1>4 DEF RecoveryTruncate, RecoveryWrite, Step, At, ShareInv, RewritesOwn, Blocked, TornMarker
  <2>2. Blocked' /\ UNCHANGED <<server, attempts>>
    BY <1>4, <2>1 DEF RecoveryTruncate, RecoveryWrite, TornMarker, Persisted, Written, Blocked, gpuvars
  <2> QED
    BY <1>1, <2>1, <2>2 DEF Sharing!vars, Users, Moved, Quiet, QueueEmpty
<1>5. CASE UNCHANGED <<marker, server, attempts>>
  BY <1>1, <1>5 DEF Sharing!vars, Users, Moved, Quiet, QueueEmpty, Blocked
<1>6. \/ RecoveryRestart \/ RecoveryTruncate \/ RecoveryWrite \/ (RecoveryUnlink /\ Blocked)
      \/ UNCHANGED <<marker, server, attempts>>
  BY DEF RecoveryStep, RecoveryBegin, RecoveryLock, RecoveryRead, RecoveryUnload, RecoveryInspect,
         RecoverySample, RecoveryUnlink, RecoveryFailed, RecoveryRelease, filevars, gpuvars
<1> QED
  BY <1>2, <1>3, <1>4, <1>5, <1>6

LEMMA WorldShares ==
    ASSUME IInv, WorldStep
    PROVE  [Sharing!Next]_(Sharing!vars)
<1> TypeOK /\ Chats \subseteq Procs /\ Hunyuan \notin Chats
  BY ProcessAssumption DEF IInv, Procs
<1>1. CASE ServerStart \/ ServerFinish \/ ServerFree
  <2>1. UNCHANGED <<pc, alternate, marker, lease, attempts>> /\ ~Quiet
    BY <1>1 DEF ServerStart, ServerFinish, ServerFree, filevars, Quiet, QueueEmpty
  <2>2. Users' = Users /\ Moved' = Moved
    BY <2>1, SameUsers
  <2>3. CASE Quiet'
    <3>1. Sharing!Settle
      BY <2>1, <2>2, <2>3 DEF Sharing!Settle, Users, Moved, Blocked
    <3> QED
      BY <3>1 DEF Sharing!Next
  <2>4. CASE ~Quiet'
    BY <2>1, <2>2, <2>4 DEF Sharing!vars, Users, Moved, Blocked
  <2> QED
    BY <2>3, <2>4
<1>2. CASE CoolDown
  <2>1. UNCHANGED <<pc, alternate, server, lease, attempts>> /\ marker'.state = marker.state
    BY <1>2 DEF CoolDown, gpuvars, TypeOK, Marker
  <2>2. Users' = Users /\ Moved' = Moved
    BY <2>1, SameUsers
  <2> QED
    BY <2>1, <2>2 DEF Sharing!vars, Users, Moved, Quiet, QueueEmpty, Blocked
<1>3. CASE ApiCrash
  <2>1. UNCHANGED <<marker, server, lease, attempts>>
    BY <1>3 DEF ApiCrash, filevars, gpuvars
  <2>2. \A c \in Chats : pc'[c] = "idle"
    BY <1>3 DEF ApiCrash
  <2>3. Users' = {} /\ Moved' = {}
    BY <2>2 DEF Users, Moved, At
  <2>4. Blocked' = Blocked /\ Quiet' = Quiet
    BY <2>1 DEF Blocked, Quiet, QueueEmpty
  <2>5. Sharing!Leave
    BY <2>1, <2>3, <2>4 DEF Sharing!Leave, Users, Moved
  <2> QED
    BY <2>5 DEF Sharing!Next
<1>4. CASE Administrator
  <2>1. UNCHANGED <<pc, alternate, lease, attempts>> /\ ~Blocked' /\ Quiet'
    BY <1>4 DEF Administrator, NoMarker, IdleServer, Blocked, Quiet, QueueEmpty
  <2>2. Users' = Users /\ Moved' = Moved
    BY <2>1, SameUsers
  <2>3. Sharing!Free
    BY <2>1, <2>2 DEF Sharing!Free, Users, Moved
  <2> QED
    BY <2>3 DEF Sharing!Next
<1> QED
  BY <1>1, <1>2, <1>3, <1>4 DEF WorldStep

\* Image threads, chats, the 3D worker and the recovery thread, with whatever
\* crashes, share the GPU as GpuSharing says: reservations begin on a quiet GPU
\* without chats, are not taken over, and end quiet; leases come and go between
\* chats (image_gpu, gpu_reservation, run_job, tick).
THEOREM ImplementsSharing == Spec => SharingPromise
<1>1. Init => Sharing!Init
  <2> SUFFICES ASSUME Init PROVE Sharing!Init
    OBVIOUS
  <2>1. Quiet /\ ~Blocked /\ Users = {} /\ Moved = {}
    BY DEF Init, Quiet, QueueEmpty, IdleServer, NoMarker, Blocked, Users, Moved, At, Procs
  <2> QED
    BY <2>1 DEF Init, Sharing!Init, Users, Moved
<1>2. IInv /\ ShareInv /\ [Next]_vars => [Sharing!Next]_(Sharing!vars)
  <2> SUFFICES ASSUME IInv, ShareInv, [Next]_vars PROVE [Sharing!Next]_(Sharing!vars)
    OBVIOUS
  <2>1. CASE UNCHANGED vars
    BY <2>1 DEF vars, filevars, gpuvars, Sharing!vars, Blocked, Quiet, QueueEmpty, At
  <2> QED
    BY <2>1, ImageShares, ChatShares, MeshLends, RecoveryShares, WorldShares
       DEF Next, MeshAny, WorldStep
<1> QED
  BY <1>1, <1>2, Invariance, ShareInvariance, PTL DEF Spec, SharingPromise, Sharing!Spec

\* The marker an image job is about to write is the first one, on a quiet GPU.
NeverTakenOver == \A i \in Images : At(i, "truncate") => ~Blocked /\ Quiet

\* No image job takes over a reservation that another one, or a crash, left
\* behind: its marker, and with it the count of restarts, is never overwritten
\* (image_gpu looks at the marker again under its lock).
THEOREM ReservationsAreFresh == Spec => []NeverTakenOver
<1>1. ShareInv => NeverTakenOver
  BY DEF ShareInv, Fresh, NeverTakenOver, At
<1> QED
  BY <1>1, ShareInvariance, PTL
=============================================================================
