------------------------------ MODULE SourceIndex ------------------------------
(***************************************************************************)
(* What source synchronisation promises of the documents of a source,        *)
(* whatever becomes of jobs, threads, locks and processes (SourceSync shows  *)
(* that the code keeps it).                                                  *)
(***************************************************************************)
CONSTANTS Sources, Docs

VARIABLES
    origin,   \* documents at the configured origin
    held,     \* documents whose present version is in the index
    skipped   \* documents the next sync does not ask for

vars == <<origin, held, skipped>>

Init ==
    /\ origin \in [Sources -> SUBSET Docs]
    /\ held = [s \in Sources |-> {}]
    /\ skipped = [s \in Sources |-> {}]

\* A new version is neither held nor skipped.
Publish(s, d) ==
    /\ origin' = [origin EXCEPT ![s] = @ \cup {d}]
    /\ held' = [held EXCEPT ![s] = @ \ {d}]
    /\ skipped' = [skipped EXCEPT ![s] = @ \ {d}]

Remove(s, d) ==
    /\ origin' = [origin EXCEPT ![s] = @ \ {d}]
    /\ UNCHANGED <<held, skipped>>

Ingest(s) ==
    /\ \E batch \in SUBSET origin[s] : held' = [held EXCEPT ![s] = @ \cup batch]
    /\ UNCHANGED <<origin, skipped>>

\* Only documents that have left the origin are dropped...
Drop(s) ==
    /\ \E gone \in SUBSET (held[s] \ origin[s]) : held' = [held EXCEPT ![s] = @ \ gone]
    /\ UNCHANGED <<origin, skipped>>

\* ... and only documents that are held are skipped; what was skipped stays so.
Advance(s) ==
    /\ \E read \in SUBSET Docs :
         /\ read \cap origin[s] \subseteq held[s]
         /\ skipped[s] \cap origin[s] \subseteq read
         /\ skipped' = [skipped EXCEPT ![s] = read]
    /\ UNCHANGED <<origin, held>>

\* A source is reset before it is purged and purged before it points elsewhere.
Reset(s) ==
    /\ skipped' = [skipped EXCEPT ![s] = {}]
    /\ UNCHANGED <<origin, held>>

Purge(s) ==
    /\ skipped[s] = {}
    /\ held' = [held EXCEPT ![s] = {}]
    /\ UNCHANGED <<origin, skipped>>

Repoint(s) ==
    /\ skipped[s] = {} /\ held[s] = {}
    /\ \E docs \in SUBSET Docs : origin' = [origin EXCEPT ![s] = docs]
    /\ UNCHANGED <<held, skipped>>

Next ==
    \E s \in Sources :
        \/ Ingest(s) \/ Drop(s) \/ Advance(s) \/ Reset(s) \/ Purge(s) \/ Repoint(s)
        \/ \E d \in Docs : Publish(s, d) \/ Remove(s, d)

Spec == Init /\ [][Next]_vars
=============================================================================
