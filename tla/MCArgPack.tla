------------------------------ MODULE MCArgPack ------------------------------
(* An instance of ArgPack for TLC: sizes scaled down so that slots run out,  *)
(* the arena moves, and Reset sometimes keeps it and sometimes drops it.     *)
EXTENDS ArgPack

MCTypes == {"small", "wide"}
MCSizeOf == [t \in MCTypes |-> IF t = "small" THEN 1 ELSE 3]
=============================================================================
