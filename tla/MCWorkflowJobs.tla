--------------------------- MODULE MCWorkflowJobs ---------------------------
(* Small instances of WorkflowJobs for TLC. *)
EXTENDS WorkflowJobs, TLC

CONSTANTS kid, r1, r2, d1, d2

MCOwnerOf == [r \in Runs |-> kid]

Image1 == [op |-> "image", digest |-> d1, input |-> 1]
Image2 == [op |-> "image", digest |-> d2, input |-> 1]
\* A copy of what the run was given, and one of what its first step made.
CopyGiven  == [op |-> "copy", digest |-> d1, input |-> 1]
CopyOutput == [op |-> "copy", digest |-> d1, input |-> 2]

MCImage     == [r \in Runs |-> <<Image1>>]
MCImageOrCopy    == [r \in Runs |-> IF r = r1 THEN <<Image1>> ELSE <<CopyGiven>>]
MCImageCopyImage == [r \in Runs |-> <<Image1, CopyOutput, Image2>>]

\* For the instances with two runs: the account stays, no week passes
\* and no operation outlives its timeout.  All three are explored with one run.
ShortStory ==
    /\ \A o \in Owners : account[o].present
    /\ \A k \in ReviewId : ~review[k].aged
    /\ \A r \in Runs : ~At(r, "idle") => WorkerAt("tool") /\ Current = r

\* Two runs and one birthdate, or one run and everything.
OneStory ==
    \/ ShortStory /\ \A o \in Owners : account[o].revision = 0
    \/ \A r, q \in Runs : run[r].state # "absent" /\ run[q].state # "absent" => r = q

\* One run and everything, or a second run once the first one has completed or was deleted.
CopyStory ==
    \/ run[r2].state = "absent"
    \/ ShortStory /\ Cardinality(calls) <= 1 /\ run[r1].state \in {"completed", "deleted"}

Symmetry == Permutations(Runs)
=============================================================================
