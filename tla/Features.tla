------------------------------ MODULE Features ------------------------------
(***************************************************************************)
(* Resources that need optional entry points, on top of start-up: the JIT  *)
(* linker (cuda/link.go), registered host memory (cuda/hostregister.go)    *)
(* and the availability of virtual memory (cuda/vmm.go).                   *)
(*                                                                         *)
(* A linker lends the driver its option arrays and log buffers, a          *)
(* registration its caller's slice: Go memory the driver keeps using after *)
(* the call that told it so.  It is pinned for that long.  A context that  *)
(* is closed answers ErrContextClosed from then on, also to the Close of   *)
(* what was made in it.                                                    *)
(***************************************************************************)
EXTENDS Startup

CONSTANTS Linkers, Registrations, Virtuals

ASSUME FeaturesAssumption == /\ Linkers \cap Registrations = {}
                             /\ Virtuals \cap (Linkers \cup Registrations) = {}

Resources == Linkers \cup Registrations \cup Virtuals

VARIABLES rpc,     \* rpc[r]: "none", "create", "unpin", "live" or "destroyed"
          home,    \* home[r]: whose context r lives in, Nobody once it closed
          via,     \* via[r]: the driver of that context
          pinned,  \* resources whose memory is pinned
          lent     \* resources whose memory the driver may use

rvars == <<rpc, home, via, pinned, lent>>
vars == <<svars, rvars>>

FInit == /\ Init
         /\ rpc = [r \in Resources |-> "none"]
         /\ home = [r \in Resources |-> Nobody]
         /\ via = [r \in Resources |-> 0]
         /\ pinned = {} /\ lent = {}

Step(r, p) == rpc' = [rpc EXCEPT ![r] = p]

\* The context of g is open and gets a resource.
In(g, r) == /\ rpc[r] = "none" /\ ctx[g] # 0
            /\ home' = [home EXCEPT ![r] = g]
            /\ via' = [via EXCEPT ![r] = ctx[g]]

\* doWait and doBarrier on the context of r reach a driver that has s.
Reaches(r, s) == home[r] # Nobody /\ Answer(bound[via[r]], s) = "call"

\* Only the entry point that is called next is looked for.
BugNewLinkerChecksCreate(g, l) ==
  /\ In(g, l)
  /\ "LinkCreate" \in bound[ctx[g]]
  /\ pinned' = pinned \cup {l} /\ Step(l, "create")
  /\ UNCHANGED <<svars, lent>>

\* NewLinker refuses a driver that lacks any of the four, then pins the
\* buffers and the option arrays.
NewLinker(g, l) ==
  /\ In(g, l)
  /\ {"LinkCreate", "LinkAddData", "LinkComplete", "LinkDestroy"} \subseteq bound[ctx[g]]
  /\ pinned' = pinned \cup {l} /\ Step(l, "create")
  /\ UNCHANGED <<svars, lent>>

\* RegisterHost pins first; a missing entry point shows in the call.
RegisterHost(g, r) ==
  /\ In(g, r)
  /\ pinned' = pinned \cup {r} /\ Step(r, "create")
  /\ UNCHANGED <<svars, lent>>

Creates(r) == IF r \in Linkers THEN "LinkCreate" ELSE "MemHostRegister"
Destroys(r) == IF r \in Linkers THEN "LinkDestroy" ELSE "MemHostUnregister"

Create(r) == /\ rpc[r] = "create" /\ Reaches(r, Creates(r))
             /\ lent' = lent \cup {r} /\ Step(r, "live")
             /\ UNCHANGED <<svars, home, via, pinned>>

CreateFails(r) == /\ rpc[r] = "create" /\ Step(r, "unpin")
                  /\ UNCHANGED <<svars, home, via, pinned, lent>>

\* The memory is unpinned first, whatever the driver then says.
BugDestroyUnpinsFirst(r) ==
  /\ rpc[r] = "live"
  /\ pinned' = pinned \ {r}
  /\ IF Reaches(r, Destroys(r)) THEN lent' = lent \ {r} /\ Step(r, "destroyed")
                                ELSE UNCHANGED <<lent, rpc>>
  /\ UNCHANGED <<svars, home, via>>

\* Close: a failed call leaves the resource as it is, to be closed again.
Destroy(r) == /\ rpc[r] = "live" /\ Reaches(r, Destroys(r))
              /\ lent' = lent \ {r} /\ Step(r, "destroyed")
              /\ UNCHANGED <<svars, home, via, pinned>>

\* After a failed creation or a successful Close; the caller may then start
\* over with a new linker or registration.
Unpin(r) == /\ rpc[r] \in {"unpin", "destroyed"} /\ Step(r, "none")
            /\ pinned' = pinned \ {r}
            /\ home' = [home EXCEPT ![r] = Nobody]
            /\ via' = [via EXCEPT ![r] = 0]
            /\ UNCHANGED <<svars, lent>>

\* vmmAvailable: all eight are looked for together.
vmmAvailable(h) ==
  {"MemGetAllocationGranularity", "MemCreate", "MemAddressReserve", "MemMap",
   "MemSetAccess", "MemUnmap", "MemAddressFree", "MemRelease"} \subseteq bound[h]

\* AllocVirtual and VirtualBuffer.Close as one step each; module
\* VirtualBuffer has their inside.
AllocVirtual(g, v) == /\ In(g, v) /\ vmmAvailable(ctx[g])
                      /\ Step(v, "live")
                      /\ UNCHANGED <<svars, pinned, lent>>

CloseVirtual(v) == /\ rpc[v] = "live"
                   /\ \A s \in {"MemUnmap", "MemRelease", "MemAddressFree"} : Reaches(v, s)
                   /\ Step(v, "none")
                   /\ home' = [home EXCEPT ![v] = Nobody]
                   /\ via' = [via EXCEPT ![v] = 0]
                   /\ UNCHANGED <<svars, pinned, lent>>

\* Closing a context leaves its resources without one.
CloseHome(g) == /\ CloseContext(g)
                /\ home' = [r \in Resources |-> IF home[r] = g THEN Nobody ELSE home[r]]
                /\ UNCHANGED <<rpc, via, pinned, lent>>

Next == \/ StartupStep /\ UNCHANGED rvars
        \/ \E g \in Goroutines : \/ CloseHome(g)
                                 \/ \E l \in Linkers : NewLinker(g, l)
                                 \/ \E r \in Registrations : RegisterHost(g, r)
                                 \/ \E v \in Virtuals : AllocVirtual(g, v)
        \/ \E r \in Linkers \cup Registrations : \/ Create(r) \/ CreateFails(r)
                                                 \/ Destroy(r) \/ Unpin(r)
        \/ \E v \in Virtuals : CloseVirtual(v)

Spec == FInit /\ [][Next]_vars

----------------------------------------------------------------------------
\* While the driver may write to a log buffer or transfer from registered
\* memory, that memory is pinned: on every path of creation, failure, failed
\* Close and retry, also when the context was closed underneath.  Nothing
\* stays pinned for a resource that is gone.
LentMemoryPinned == /\ lent \subseteq pinned
                    /\ \A r \in pinned : rpc[r] # "none"

\* A link session and a virtual buffer that exist can be destroyed: the
\* driver they came from exports what their Close calls ("the group is
\* all-or-nothing, or a created state could never be destroyed", link.go).
\* Registrations are no part of this: RegisterHost does not ask for
\* cuMemHostUnregister, and without it Close fails and the memory stays pinned.
Disposable ==
  /\ \A l \in Linkers : rpc[l] = "live" =>
       Answer(bound[via[l]], "LinkDestroy") = "call"
  /\ \A v \in Virtuals : rpc[v] = "live" =>
       \A s \in {"MemUnmap", "MemRelease", "MemAddressFree"} :
         Answer(bound[via[v]], s) = "call"
=============================================================================
