--------------------------- MODULE MCContentReview ---------------------------
(* A small instance of ContentReview for TLC. *)
EXTENDS ContentReview

CONSTANTS kid, r1, d1

MCOwnerOf == [r \in Runs |-> kid]
=============================================================================
