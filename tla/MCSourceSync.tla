----------------------------- MODULE MCSourceSync -----------------------------
EXTENDS SourceSync, TLC

CONSTANTS a, b, s1, s2, d1

\* Four stories share an instance: the whole life of one source in one process,
\* the documents of a source that handlers sync, two processes that compete for a
\* source, and two sources, synced by both processes, for the capacity.
NoDocuments ==
    /\ \A s \in Sources : remote[s] \cup index[s] \cup covered[s] = {} /\ source[s].snapshot
    /\ \A j \in Jobs : worker[j].started \cup worker[j].seen = {}
Unedited    == \A s \in Sources : source[s].revision = 1 /\ lock[s] \notin Servers \X {"edit"}
NoSchedule  == stopping = {} /\ listing = {} /\ \A s \in Sources : ~schedule[s].enabled
HandlersOnly == NoSchedule /\ leader = NoOne
Unused(s)   == source[s] = [present |-> TRUE, enabled |-> TRUE, revision |-> 1,
                            snapshot |-> TRUE, state |-> "idle"]
               /\ remote[s] \cup index[s] = {} /\ lock[s] = NoOne /\ ~schedule[s].enabled
Idle(p)     == /\ p \in up \ stopping /\ \A j \in Jobs : worker[j].pc # "none" => worker[j].server # p
               /\ \A t \in Thread : t[1] = p => At(t, "idle")
               /\ \A l \in listing : l[1] # p
               /\ \A s \in Sources : lock[s] # <<p, "edit">>

LifeStory ==
    /\ NoDocuments /\ Idle(b) /\ Unused(s2)
    /\ listing = {} \/ (leader = NoOne /\ stopping = {} /\ crashes = 0)
    /\ schedule[s1].enabled => source[s1].revision = 1
DocumentStory == HandlersOnly /\ Idle(b) /\ Unused(s2)
ProcessStory == NoDocuments /\ Unedited /\ NoSchedule /\ Unused(s2)
CapacityStory == NoDocuments /\ Unedited /\ HandlersOnly /\ crashes = 0
Story == LifeStory \/ DocumentStory \/ ProcessStory \/ CapacityStory
=============================================================================
