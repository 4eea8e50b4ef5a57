----------------------------- MODULE MCExecutor -----------------------------
(* The instance of Executor for TLC: MCExecutor.cfg gives the constants. *)
EXTENDS Executor
=============================================================================
