--------------------------- MODULE MCVirtualBuffer ---------------------------
(* Instances of VirtualBuffer for TLC. *)
EXTENDS VirtualBuffer
=============================================================================
