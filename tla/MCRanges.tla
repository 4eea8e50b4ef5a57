------------------------------ MODULE MCRanges ------------------------------
(* Instances of Ranges for TLC. *)
EXTENDS Ranges, TLC

\* The two allocations are interchangeable.
Symmetric == Permutations(Objects)
=============================================================================
