----------------------------- MODULE TwoApprovals -----------------------------
(***************************************************************************)
(* What the review of a protected account's images promises, whatever      *)
(* threads, crashes, expiry, birthdays and administrators do meanwhile:    *)
(* an image is generated at most once and only after its request was       *)
(* allowed, it is released only after it was approved itself, decisions    *)
(* are made for the present birthdate only, and a refusal is final.        *)
(* ContentReview implements it.                                            *)
(***************************************************************************)
EXTENDS Naturals

CONSTANTS
    Owners,
    Requests,     \* requests of protected accounts
    AccountOf,    \* the account a request is made for
    RevisionOf    \* the birthdate revision it is made under

VARIABLES
    stage,        \* how far a request has come
    generations,  \* how often the image server was asked for its image
    released,     \* requests whose image is in the account's store
    revision      \* the present birthdate revision of an account

vars == <<stage, generations, released, revision>>

Init ==
    /\ stage = [q \in Requests |-> "new"]
    /\ generations = [q \in Requests |-> 0]
    /\ released = {}
    /\ revision = [o \in Owners |-> 0]

Move(q, from, to) ==
    /\ stage[q] \in from
    /\ stage' = [stage EXCEPT ![q] = to]
    /\ UNCHANGED <<released, revision>>

\* An administrator decides for the birthdate the request was made under.
Decide(q) ==
    /\ revision[AccountOf[q]] = RevisionOf[q]
    /\ \/ Move(q, {"new"}, "allowed")
       \/ Move(q, {"generated"}, "approved")
       \/ Move(q, {"new", "generated"}, "refused")
    /\ UNCHANGED generations

\* The image server is asked; the birthdate may have changed since the decision.
Generate(q) ==
    /\ Move(q, {"allowed"}, "generated")
    /\ generations' = [generations EXCEPT ![q] = @ + 1]

Release(q) ==
    /\ stage[q] = "approved"
    /\ released' = released \cup {q}
    /\ UNCHANGED <<stage, generations, revision>>

SetBirthdate(o) ==
    /\ revision' = [revision EXCEPT ![o] = @ + 1]
    /\ UNCHANGED <<stage, generations, released>>

Next ==
    \/ \E q \in Requests : Decide(q) \/ Generate(q) \/ Release(q)
    \/ \E o \in Owners : SetBirthdate(o)

Spec == Init /\ [][Next]_vars
=============================================================================
