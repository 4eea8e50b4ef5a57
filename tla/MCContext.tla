------------------------------ MODULE MCContext ------------------------------
(* Instances of Context for TLC. *)
EXTENDS Context, TLC

CONSTANTS w1, w2, w3, d1, h1, h2

\* Two waits and a destroy share a stream, the third wait has its own.
LaneHandle == (w1 :> h1) @@ (w2 :> h1) @@ (w3 :> h2) @@ (d1 :> h1)

\* One wait and one destroy on a stream, while Close is called and retried.
CloseHandle == (w1 :> h1) @@ (d1 :> h1)
=============================================================================
