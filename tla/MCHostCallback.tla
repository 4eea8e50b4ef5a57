--------------------------- MODULE MCHostCallback ---------------------------
(* Instances of HostCallback for TLC. *)
EXTENDS HostCallback, TLC

CONSTANTS l1, l2, l3, l4, s1, s2, c1, c2

\* Two streams, one with three launches.
MCStreamOf == (l1 :> s1) @@ (l2 :> s1) @@ (l3 :> s1) @@ (l4 :> s2)

\* Each in a context of its own, so that one may be closed and the other not.
MCContextOf == (s1 :> c1) @@ (s2 :> c2)
=============================================================================
