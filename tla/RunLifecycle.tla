----------------------------- MODULE RunLifecycle -----------------------------
(***************************************************************************)
(* The life of a saved-workflow run as its owner may rely on it, whatever  *)
(* handlers, polls, timeouts, decisions and restarts do meanwhile: one run *)
(* at a time executes; a run whose cancellation was recorded begins no     *)
(* further step and is never resumed; a run completes only with all its    *)
(* steps done; and an ended run stays as it ended until it is deleted.     *)
(* WorkflowJobs implements it.                                             *)
(***************************************************************************)
EXTENDS Naturals

CONSTANTS
    Runs,
    StepsOf    \* the number of steps of a run

VARIABLES
    life,      \* where a run is in its life
    asked,     \* runs whose cancellation was recorded
    steps      \* the steps of a run that are done

vars == <<life, asked, steps>>

\* Between two steps, during one, and with the last one found done.
Taken == {"running", "active", "finishing"}

Init ==
    /\ life = [r \in Runs |-> "absent"]
    /\ asked = {}
    /\ steps = [r \in Runs |-> 0]

Move(r, from, to) ==
    /\ life[r] \in from
    /\ life' = [life EXCEPT ![r] = to]
    /\ UNCHANGED asked

Pass(r, from, to) == Move(r, from, to) /\ UNCHANGED steps

Submit(r) == Pass(r, {"absent"}, "queued")

Take(r) ==
    /\ \A q \in Runs : life[q] \notin Taken
    /\ Pass(r, {"queued"}, "running")

Start(r) ==
    /\ r \notin asked /\ steps[r] < StepsOf[r]
    /\ Pass(r, {"running"}, "active")

Succeed(r) ==
    /\ Move(r, {"active"}, "running")
    /\ steps' = [steps EXCEPT ![r] = @ + 1]

\* A step waits for a review, also when its run was cancelled meanwhile.
Hold(r) == Pass(r, {"active"}, "awaiting_review")

Resume(r) ==
    /\ r \notin asked
    /\ Pass(r, {"awaiting_review"}, "queued")

\* The last look at the cancellation, and the end it leads to.
Close(r) ==
    /\ r \notin asked /\ steps[r] = StepsOf[r]
    /\ Pass(r, {"running"}, "finishing")

End(r) ==
    \/ Pass(r, {"finishing"}, "completed")
    \/ Pass(r, {"running"}, "cancelled")
    \/ Pass(r, {"running", "active"}, "failed")

Ask(r) ==
    /\ life[r] \notin {"absent", "deleted"}
    /\ asked' = asked \cup {r}
    /\ life' = [life EXCEPT ![r] = IF @ = "awaiting_review" THEN "cancelled" ELSE @]
    /\ UNCHANGED steps

Delete(r) ==
    Pass(r, {"awaiting_review", "completed", "failed", "cancelled"}, "deleted")

\* The server restarts: what was queued or taken has failed.
Interrupt ==
    /\ life' = [r \in Runs |-> IF life[r] \in {"queued"} \cup Taken THEN "failed" ELSE life[r]]
    /\ UNCHANGED <<asked, steps>>

RunStep(r) ==
    \/ Submit(r) \/ Take(r) \/ Start(r) \/ Succeed(r) \/ Hold(r) \/ Resume(r)
    \/ Close(r) \/ End(r) \/ Ask(r) \/ Delete(r)

Next == Interrupt \/ \E r \in Runs : RunStep(r)

Spec == Init /\ [][Next]_vars
=============================================================================
