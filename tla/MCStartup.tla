----------------------------- MODULE MCStartup -----------------------------
(* Instances of Startup and Features for TLC. *)
EXTENDS Features, TLC

\* Libraries that export everything, only what is required, everything but one
\* required entry point, or everything but one that a resource here needs.
MCExports ==
  {Symbols, requiredSymbols}
    \cup {Symbols \ {s} : s \in requiredSymbols \cup link.feature \cup vmm.feature
                                 \cup {"MemHostRegister", "MemHostUnregister"}}

\* Goroutines are interchangeable.
Symmetric == Permutations(Goroutines)
=============================================================================
