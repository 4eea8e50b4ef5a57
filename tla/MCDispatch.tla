----------------------------- MODULE MCDispatch -----------------------------
(* Instances of Dispatch for TLC. *)
EXTENDS Dispatch, TLC

\* Calls, ops and wrappers are interchangeable.
Symmetric == Permutations(Calls) \cup Permutations(Ops) \cup Permutations(Tracked)
=============================================================================
