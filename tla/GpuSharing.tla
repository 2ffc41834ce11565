------------------------------ MODULE GpuSharing ------------------------------
(***************************************************************************)
(* What the users of the one GPU promise each other, whatever locks, files *)
(* and threads they do it with and whichever of them crash: it is reserved *)
(* for the image server while no chat uses it, and stays reserved until    *)
(* the server is quiet; chats come only while it is not reserved; and it   *)
(* is lent to a 3D job, or taken back, only between chats.                 *)
(* GpuLease implements it.                                                 *)
(***************************************************************************)
EXTENDS Naturals

CONSTANTS
    Chats,
    RestartBudget  \* restarts of the image server per reservation

VARIABLES
    reserved,  \* for the image server
    busy,      \* the image server has a job, or holds its memory
    users,     \* chats that use a model
    moved,     \* those of them that use the alternate model
    lent,      \* to a 3D job: chats use the alternate model
    restarts   \* of the image server, since the reservation

vars == <<reserved, busy, users, moved, lent, restarts>>

Init ==
    /\ ~reserved /\ ~busy /\ ~lent
    /\ users = {} /\ moved = {}
    /\ restarts = 0

\* A reservation is never taken over: each one begins on a quiet GPU.
Reserve ==
    /\ ~reserved /\ ~busy /\ users = {}
    /\ reserved' = TRUE /\ restarts' = 0
    /\ UNCHANGED <<busy, users, moved, lent>>

\* One job at a time reaches the image server.
Work ==
    /\ reserved /\ ~busy /\ users = {}
    /\ busy' = TRUE
    /\ UNCHANGED <<reserved, users, moved, lent, restarts>>

Settle ==
    /\ busy' = FALSE
    /\ UNCHANGED <<reserved, users, moved, lent, restarts>>

\* The image server is quiet, or an administrator has stopped it.
Free ==
    /\ reserved' = FALSE /\ busy' = FALSE
    /\ UNCHANGED <<users, moved, lent, restarts>>

Restart ==
    /\ users = {} /\ restarts < RestartBudget
    /\ restarts' = restarts + 1
    /\ busy' \in {busy, FALSE}
    /\ UNCHANGED <<reserved, users, moved, lent>>

Use(c) ==
    /\ ~reserved
    /\ users' = users \cup {c}
    /\ moved' = IF lent THEN moved \cup {c} ELSE moved
    /\ UNCHANGED <<reserved, busy, lent, restarts>>

\* A chat ends, or all do when their process stops.
Leave ==
    /\ users' \subseteq users
    /\ moved' = moved \cap users'
    /\ UNCHANGED <<reserved, busy, lent, restarts>>

\* Between chats, so that none of them shares the GPU with the job.
Lend ==
    /\ users = {}
    /\ lent' = ~lent
    /\ UNCHANGED <<reserved, busy, users, moved, restarts>>

Next ==
    \/ Reserve \/ Work \/ Settle \/ Free \/ Restart
    \/ \E c \in Chats : Use(c)
    \/ Leave \/ Lend

Spec == Init /\ [][Next]_vars
=============================================================================
