------------------------------ MODULE Startup ------------------------------
(***************************************************************************)
(* Start-up: cuda/init.go with cudasys.Load, dynload.OpenAny and           *)
(* Driver.Close, GetDevice, and Device.Primary.                            *)
(*                                                                         *)
(* Init runs under the package lock: it opens the first library that       *)
(* opens, binds its entry points, calls cuInit, and installs the driver;   *)
(* when any of these fails it closes the library again, and a later Init   *)
(* starts over.  Primary takes the installed driver, starts an executor    *)
(* and retains the device's primary context on its thread, and undoes what *)
(* it has done when a later call fails.  Closing a context is one step     *)
(* here; module Context has its inside.                                    *)
(***************************************************************************)
EXTENDS Naturals, FiniteSets, Symbols

CONSTANTS Goroutines, Nobody,
          Paths,      \* how many candidate paths OpenAny is given
          Exports,    \* sets of entry points a library may export
          MaxOpens,   \* bound: libraries opened in a behaviour
          MaxLeaks    \* bound: releases that fail inside Primary

ASSUME StartupAssumption ==
  /\ IsFiniteSet(Goroutines) /\ Nobody \notin Goroutines
  /\ Paths \in Nat \ {0} /\ MaxOpens \in Nat /\ MaxLeaks \in Nat
  /\ Exports \subseteq SUBSET Symbols

VARIABLES mu,       \* the goroutine in a critical section of cuda.mu
          driver,   \* the installed driver's library, 0 if none
          lib,      \* lib[h]: "unopened", "open", "closed", or "stuck" when
                    \* closing it failed
          exports,  \* exports[h]: what library h exports
          bound,    \* bound[h]: the fields set in the Driver over library h
          inited,   \* libraries whose cuInit succeeded
          pc,       \* where each goroutine is
          path,     \* the candidate Init tries next
          hand,     \* the library a goroutine's Init or Primary works with
          dev,      \* goroutines that hold a Device
          thread,   \* thread[g]: "none", "pinned", or "current" when the
                    \* primary context is current on it
          ctx,      \* ctx[g]: the driver of the Context g holds, 0 if none
          retains,  \* the driver's count of retains of the primary context
          leaked    \* retains whose release failed on the way out of Primary

libVars == <<mu, driver, lib, exports, bound, inited, path>>
ctxVars == <<dev, thread, ctx, retains, leaked>>
svars == <<libVars, pc, hand, ctxVars>>

Libs == 1 .. MaxOpens
InitSteps == {"open", "required", "optional", "cuInit"}
PrimarySteps == {"retain", "setCurrent", "release", "closeExec"}

Init == /\ mu = Nobody /\ driver = 0
        /\ lib = [h \in Libs |-> "unopened"]
        /\ exports = [h \in Libs |-> {}] /\ bound = [h \in Libs |-> {}]
        /\ inited = {}
        /\ pc = [g \in Goroutines |-> "idle"]
        /\ path = 0
        /\ hand = [g \in Goroutines |-> 0]
        /\ dev = {}
        /\ thread = [g \in Goroutines |-> "none"]
        /\ ctx = [g \in Goroutines |-> 0]
        /\ retains = 0 /\ leaked = 0

Goto(g, p) == pc' = [pc EXCEPT ![g] = p]

----------------------------------------------------------------------------
(* Init.  A call that finds the driver installed returns at once.          *)

InitBegin(g) == /\ pc[g] = "idle" /\ mu = Nobody
                /\ driver = 0
                /\ mu' = g /\ path' = 1 /\ Goto(g, "open")
                /\ UNCHANGED <<driver, lib, exports, bound, inited, hand, ctxVars>>

\* Init returns: the lock is given back.
Leave(g) == mu' = Nobody /\ path' = 0 /\ Goto(g, "idle")

\* The next handle dlopen hands out, while the bound allows one.
Fresh(h) == h \in Libs /\ lib[h] = "unopened" /\ \A k \in 1 .. h - 1 : lib[k] # "unopened"

\* OpenAny: the first path that opens ...
OpenSucceeds(g) ==
  /\ pc[g] = "open" /\ path <= Paths
  /\ \E h \in Libs, e \in Exports :
       /\ Fresh(h)
       /\ lib' = [lib EXCEPT ![h] = "open"]
       /\ exports' = [exports EXCEPT ![h] = e]
       /\ hand' = [hand EXCEPT ![g] = h]
  /\ Goto(g, "required")
  /\ UNCHANGED <<mu, driver, bound, inited, path, ctxVars>>

\* ... and an error when none does.
OpenFails(g) ==
  /\ pc[g] = "open"
  /\ IF path < Paths THEN path' = path + 1 /\ UNCHANGED <<mu, pc>> ELSE Leave(g)
  /\ UNCHANGED <<driver, lib, exports, bound, inited, hand, ctxVars>>

\* lib.Close and Driver.Close: the error is dropped by both callers.
CloseLibrary(g) ==
  \E r \in {"closed", "stuck"} :
    /\ lib' = [lib EXCEPT ![hand[g]] = r]
    /\ exports' = [exports EXCEPT ![hand[g]] = {}]
    /\ bound' = [bound EXCEPT ![hand[g]] = {}]
    /\ hand' = [hand EXCEPT ![g] = 0]

\* A missing required entry point is noticed only when it is called.
BugLookupRequired(g) ==
  /\ pc[g] = "required" /\ Goto(g, "optional")
  /\ bound' = [bound EXCEPT ![hand[g]] = requiredSymbols \cap exports[hand[g]]]
  /\ UNCHANGED <<mu, driver, lib, exports, inited, path, hand, ctxVars>>

\* Load: one missing required entry point closes the library.
LookupRequired(g) ==
  /\ pc[g] = "required"
  /\ IF requiredSymbols \subseteq exports[hand[g]]
     THEN /\ bound' = [bound EXCEPT ![hand[g]] = requiredSymbols]
          /\ Goto(g, "optional")
          /\ UNCHANGED <<mu, lib, exports, path, hand>>
     ELSE Leave(g) /\ CloseLibrary(g)
  /\ UNCHANGED <<driver, inited, ctxVars>>

\* Optional entry points bind where they exist; the registered binding of the
\* two by-value ones can fail on its own.
LookupOptional(g) ==
  /\ pc[g] = "optional" /\ Goto(g, "cuInit")
  /\ \E registered \in {bindByValueIPC, {}} :
       bound' = [bound EXCEPT ![hand[g]] =
                   @ \cup ((optionalSymbols \cup registered) \cap exports[hand[g]])]
  /\ UNCHANGED <<mu, driver, lib, exports, inited, path, hand, ctxVars>>

\* A failed cuInit leaves the library open.
BugCuInitKeepsLibrary(g) ==
  /\ pc[g] = "cuInit" /\ Leave(g)
  /\ hand' = [hand EXCEPT ![g] = 0]
  /\ \/ driver' = hand[g] /\ inited' = inited \cup {hand[g]}
     \/ UNCHANGED <<driver, inited>>
  /\ UNCHANGED <<lib, exports, bound, ctxVars>>

CuInit(g) ==
  /\ pc[g] = "cuInit" /\ Leave(g)
  /\ \/ /\ Answer(bound[hand[g]], "Init") = "call"
        /\ driver' = hand[g] /\ inited' = inited \cup {hand[g]}
        /\ hand' = [hand EXCEPT ![g] = 0]
        /\ UNCHANGED <<lib, exports, bound>>
     \/ CloseLibrary(g) /\ UNCHANGED <<driver, inited>>
  /\ UNCHANGED ctxVars

----------------------------------------------------------------------------
(* GetDevice and Primary.  Without a driver both return ErrNotInitialized. *)

GetDevice(g) == /\ pc[g] = "idle" /\ mu = Nobody /\ driver # 0
                /\ g \notin dev /\ dev' = dev \cup {g}
                /\ UNCHANGED <<libVars, pc, hand, thread, ctx, retains, leaked>>

\* currentDriver under the lock, then a new executor.
PrimaryBegin(g) ==
  /\ pc[g] = "idle" /\ mu = Nobody /\ driver # 0
  /\ g \in dev /\ ctx[g] = 0
  /\ hand' = [hand EXCEPT ![g] = driver]
  /\ thread' = [thread EXCEPT ![g] = "pinned"]
  /\ Goto(g, "retain")
  /\ UNCHANGED <<libVars, dev, ctx, retains, leaked>>

Retain(g) ==
  /\ pc[g] = "retain"
  /\ \/ retains' = retains + 1 /\ Goto(g, "setCurrent")
     \/ UNCHANGED retains /\ Goto(g, "closeExec")
  /\ UNCHANGED <<libVars, hand, dev, thread, ctx, leaked>>

SetCurrent(g) ==
  /\ pc[g] = "setCurrent"
  /\ \/ /\ thread' = [thread EXCEPT ![g] = "current"]
        /\ ctx' = [ctx EXCEPT ![g] = hand[g]]
        /\ hand' = [hand EXCEPT ![g] = 0]
        /\ Goto(g, "idle")
     \/ Goto(g, "release") /\ UNCHANGED <<thread, ctx, hand>>
  /\ UNCHANGED <<libVars, dev, retains, leaked>>

\* The error of a failed release is joined to that of the failed call.
Release(g) ==
  /\ pc[g] = "release" /\ Goto(g, "closeExec")
  /\ \/ retains' = retains - 1 /\ UNCHANGED leaked
     \/ leaked < MaxLeaks /\ leaked' = leaked + 1 /\ UNCHANGED retains
  /\ UNCHANGED <<libVars, hand, dev, thread, ctx>>

CloseExec(g) ==
  /\ pc[g] = "closeExec" /\ Goto(g, "idle")
  /\ thread' = [thread EXCEPT ![g] = "none"]
  /\ hand' = [hand EXCEPT ![g] = 0]
  /\ UNCHANGED <<libVars, dev, ctx, retains, leaked>>

\* A Close that succeeds; one that fails leaves the context open.
CloseContext(g) ==
  /\ pc[g] = "idle" /\ ctx[g] # 0
  /\ ctx' = [ctx EXCEPT ![g] = 0]
  /\ thread' = [thread EXCEPT ![g] = "none"]
  /\ retains' = retains - 1
  /\ UNCHANGED <<libVars, pc, hand, dev, leaked>>

InitStep(g) == \/ InitBegin(g) \/ OpenSucceeds(g) \/ OpenFails(g)
               \/ LookupRequired(g) \/ LookupOptional(g) \/ CuInit(g)
PrimaryStep(g) == \/ PrimaryBegin(g) \/ Retain(g) \/ SetCurrent(g)
                  \/ Release(g) \/ CloseExec(g)

\* The steps of start-up that no resource above notices.
StartupStep == \E g \in Goroutines : InitStep(g) \/ GetDevice(g) \/ PrimaryStep(g)

----------------------------------------------------------------------------
TypeOK == /\ mu \in Goroutines \cup {Nobody}
          /\ driver \in 0 .. MaxOpens
          /\ lib \in [Libs -> {"unopened", "open", "closed", "stuck"}]
          /\ exports \in [Libs -> SUBSET Symbols]
          /\ bound \in [Libs -> SUBSET Symbols]
          /\ inited \subseteq Libs
          /\ pc \in [Goroutines -> {"idle"} \cup InitSteps \cup PrimarySteps]
          /\ path \in 0 .. Paths
          /\ hand \in [Goroutines -> 0 .. MaxOpens]
          /\ dev \subseteq Goroutines
          /\ thread \in [Goroutines -> {"none", "pinned", "current"}]
          /\ ctx \in [Goroutines -> 0 .. MaxOpens]
          /\ retains \in Nat /\ leaked \in Nat

\* The drivers that somebody outside Init can make calls through.
InUse == ({driver} \cup {ctx[g] : g \in Goroutines}
            \cup {hand[g] : g \in {k \in Goroutines : pc[k] \in PrimarySteps}}) \ {0}

\* Whoever calls the driver calls one whose library is open and whose cuInit
\* succeeded.  Every core wrapper of cudaresult then reaches the driver:
\* "Core symbols are always required at init" (cudaresult/error.go), so
\* ErrNotInitialized cannot come back after a successful Init; and a feature
\* the library exports is available.
UsableDriver ==
  \A h \in InUse :
    /\ lib[h] = "open" /\ h \in inited
    /\ \A s \in CoreCalls : Answer(bound[h], s) = "call"
    /\ \A s \in (FeatureCalls \cap exports[h]) \ bindByValueIPC :
         Answer(bound[h], s) = "call"

\* The goroutines with a Context, or in a Primary that has its retain.
Owners == {g \in Goroutines : ctx[g] # 0 \/ pc[g] \in {"setCurrent", "release"}}

LibrariesOwned ==
  \A h \in Libs : lib[h] = "open" =>
    \/ h = driver
    \/ \E g \in Goroutines : pc[g] \in InitSteps /\ hand[g] = h

RetainsOwned == retains = leaked + Cardinality(Owners)

ThreadsOwned ==
  \A g \in Goroutines :
    /\ thread[g] = "none" <=> ctx[g] = 0 /\ pc[g] \notin PrimarySteps
    /\ thread[g] = "current" <=> ctx[g] # 0

\* Failure leaves nothing behind, on any path and after any number of
\* retries: an open library is the installed driver's or in the hands of the
\* Init in progress; every retain of the primary context belongs to a Context
\* or to a Primary still at work, but for those whose release failed; every
\* pinned thread has such an owner, with the context current only for a
\* Context.
NothingLeaks == TypeOK /\ LibrariesOwned /\ RetainsOwned /\ ThreadsOwned
=============================================================================
