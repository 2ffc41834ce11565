------------------------------ MODULE MCGpuLease ------------------------------
(* Values of GpuLease's constants for TLC. *)
EXTENDS GpuLease, TLC

CONSTANTS i1, i2, c1, c2, mesh, monitor

Symmetry == Permutations(Images) \cup Permutations(Chats)
=============================================================================
