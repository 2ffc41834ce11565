----------------------------- MODULE SyncLifecycle -----------------------------
(***************************************************************************)
(* The life of an accepted sync as whoever asked for it may rely on it,    *)
(* whatever processes, threads, locks and stale readings bring it about:   *)
(* a source has one open sync; few run at once; a sync that somebody works *)
(* on ends by his hand only; what was cancelled does not commit, and what  *)
(* commits is not cancelled; and nothing that ended begins again.          *)
(* SourceSync implements it.                                               *)
(***************************************************************************)
EXTENDS Naturals, FiniteSets

CONSTANTS
    Sources,
    Syncs,
    Limit    \* syncs at once

VARIABLES
    life,    \* where a sync is in its life
    of,      \* its source
    asked,   \* syncs whose cancellation was accepted
    tended   \* syncs that a thread has in hand

vars == <<life, of, asked, tended>>

AtWork == {"running", "committing"}
Unended == {"queued"} \cup AtWork
Ended == {"succeeded", "failed", "cancelled", "interrupted"}

InLife(states) == {j \in Syncs : life[j] \in states}

Init ==
    /\ life = [j \in Syncs |-> "absent"]
    /\ of \in [Syncs -> Sources]
    /\ asked = {} /\ tended = {}

Move(j, from, to) ==
    /\ life[j] = from
    /\ life' = [life EXCEPT ![j] = to]

Accept(j, s) ==
    /\ \A k \in InLife(Unended) : of[k] # s
    /\ Move(j, "absent", "queued")
    /\ of' = [of EXCEPT ![j] = s]
    /\ UNCHANGED <<asked, tended>>

Start(j) ==
    /\ j \notin asked /\ Cardinality(InLife(AtWork)) < Limit
    /\ Move(j, "queued", "running")
    /\ tended' = tended \cup {j}
    /\ UNCHANGED <<of, asked>>

\* A sync that runs is cancelled by its worker; one whose worker is gone, too late.
Cancel(j) ==
    /\ Move(j, "queued", "cancelled") \/ Move(j, "running", "running")
    /\ asked' = asked \cup {j}
    /\ UNCHANGED <<of, tended>>

Commit(j) ==
    /\ j \in tended /\ j \notin asked
    /\ Move(j, "running", "committing")
    /\ UNCHANGED <<of, asked, tended>>

\* A sync ends, and the oldest ended ones leave the history of its source.
EndAs(j, outcome) ==
    \E forgotten \in SUBSET {k \in InLife(Ended) \cup {j} : of[k] = of[j]} :
        life' = [k \in Syncs |-> CASE k \in forgotten -> "deleted"
                                   [] k = j /\ k \notin forgotten -> outcome
                                   [] OTHER -> life[k]]

Outcomes(j) ==
    IF life[j] = "committing" THEN {"succeeded", "failed"}
    ELSE {"failed"} \cup {o \in {"cancelled"} : j \in asked}

\* Whoever has the sync in hand ends it.
Conclude(j) ==
    /\ j \in tended
    /\ \E outcome \in Outcomes(j) : EndAs(j, outcome)
    /\ tended' = tended \ {j}
    /\ UNCHANGED <<of, asked>>

\* A process ends.
Abandon ==
    /\ tended' \subseteq tended
    /\ UNCHANGED <<life, of, asked>>

\* A sync that nobody has in hand is found so.
Interrupt(j) ==
    /\ j \notin tended /\ life[j] \in AtWork
    /\ EndAs(j, "interrupted")
    /\ UNCHANGED <<of, asked, tended>>

\* The source has changed since the sync was accepted; it may have run meanwhile.
Drop(j) ==
    /\ j \notin tended /\ life[j] \in Unended \cup Ended
    /\ EndAs(j, "cancelled")
    /\ UNCHANGED <<of, asked, tended>>

\* A source is removed with its syncs.
Remove(s) ==
    /\ \A j \in tended : of[j] # s
    /\ life' = [j \in Syncs |-> IF life[j] # "absent" /\ of[j] = s THEN "deleted" ELSE life[j]]
    /\ UNCHANGED <<of, asked, tended>>

SyncStep(j) ==
    \/ \E s \in Sources : Accept(j, s)
    \/ Start(j) \/ Cancel(j) \/ Commit(j) \/ Conclude(j) \/ Interrupt(j) \/ Drop(j)

Next ==
    \/ Abandon
    \/ \E j \in Syncs : SyncStep(j)
    \/ \E s \in Sources : Remove(s)

Spec == Init /\ [][Next]_vars
=============================================================================
