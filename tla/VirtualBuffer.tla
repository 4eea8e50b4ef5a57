---------------------------- MODULE VirtualBuffer ----------------------------
(***************************************************************************)
(* cuda/vmm.go: one buffer of the virtual memory management API.  Three    *)
(* driver resources (a physical allocation, an address range, a mapping)   *)
(* are acquired by a transaction that rolls back when a step fails; Close  *)
(* gives back what is still live, may fail part way and may be retried;    *)
(* copies run meanwhile under the read lock.                               *)
(*                                                                         *)
(* The driver is external: any call may fail and then changes nothing.     *)
(* drv is what the driver holds, live what the flags of the buffer say.    *)
(* VInit, VNext and the like leave the plain names to Startup: the proofs  *)
(* are about both.                                                         *)
(***************************************************************************)
EXTENDS Naturals

CONSTANTS Users,    \* calls of CopyFrom and CopyTo
          Closers   \* calls of Close

VARIABLES apc,          \* where AllocVirtual stands
          rollbackErr,  \* a rollback call failed, and AllocVirtual says so
          upc, cpc,     \* where each copy and each Close stands
          errs,         \* the Close in progress has collected an error
          live,         \* the flags mapped, reserved, created that are set
          closed,
          drv,          \* driver resources: "created", "reserved", "mapped", "access"
          misuse        \* the driver was asked for something it forbids

allocVars == <<apc, rollbackErr>>
closeVars == <<cpc, errs, live, closed>>
vvars == <<allocVars, upc, closeVars, drv, misuse>>

Flags == {"created", "reserved", "mapped"}

VInit == /\ apc = "create" /\ rollbackErr = FALSE
         /\ upc = [u \in Users |-> "start"]
         /\ cpc = [x \in Closers |-> "start"]
         /\ errs = FALSE /\ live = {} /\ closed = FALSE
         /\ drv = {} /\ misuse = FALSE

----------------------------------------------------------------------------
(* The driver.                                                             *)

Ask(legal) == misuse' = (misuse \/ ~legal)

CallUnmap(ok) ==
  /\ Ask("mapped" \in drv)
  /\ drv' = IF ok THEN drv \ {"mapped", "access"} ELSE drv

CallAddressFree(ok) ==
  /\ Ask("reserved" \in drv /\ "mapped" \notin drv)
  /\ drv' = IF ok THEN drv \ {"reserved"} ELSE drv

CallRelease(ok) ==
  /\ Ask("created" \in drv)
  /\ drv' = IF ok THEN drv \ {"created"} ELSE drv

----------------------------------------------------------------------------
(* AllocVirtual and acquireVirtual.                                        *)

\* The early returns: the granularity query, its value, the rounded size.
AllocRefused == /\ apc = "create" /\ apc' = "failed"
                /\ UNCHANGED <<rollbackErr, upc, closeVars, drv, misuse>>

\* A step of the transaction succeeds, or starts the rollback it needs.
Acquire(at, r, next, undo) ==
  /\ apc = at
  /\ \/ drv' = drv \cup {r} /\ apc' = next
     \/ apc' = undo /\ UNCHANGED drv
  /\ UNCHANGED <<rollbackErr, upc, closeVars, misuse>>

MemCreate == Acquire("create", "created", "reserve", "failed")
MemAddressReserve == Acquire("reserve", "reserved", "map", "undoCreate")

\* The range is not freed when the mapping fails.
BugMapLeaksRange == Acquire("map", "mapped", "access", "undoCreate")

MemMap == Acquire("map", "mapped", "access", "undoReserve")
MemSetAccess == Acquire("access", "access", "filled", "undoMap")

\* The flags of the buffer are set and it is returned.
AllocDone == /\ apc = "filled" /\ apc' = "open"
             /\ live' = Flags
             /\ UNCHANGED <<rollbackErr, upc, cpc, errs, closed, drv, misuse>>

\* A range that could not be unmapped is not freed; the allocation is.
UndoMap == /\ apc = "undoMap"
           /\ \E ok \in BOOLEAN :
                /\ CallUnmap(ok)
                /\ apc' = IF ok THEN "undoReserve" ELSE "undoCreate"
                /\ rollbackErr' = (rollbackErr \/ ~ok)
           /\ UNCHANGED <<upc, closeVars>>

UndoReserve == /\ apc = "undoReserve" /\ apc' = "undoCreate"
               /\ \E ok \in BOOLEAN : /\ CallAddressFree(ok)
                                      /\ rollbackErr' = (rollbackErr \/ ~ok)
               /\ UNCHANGED <<upc, closeVars>>

UndoCreate == /\ apc = "undoCreate" /\ apc' = "failed"
              /\ \E ok \in BOOLEAN : /\ CallRelease(ok)
                                     /\ rollbackErr' = (rollbackErr \/ ~ok)
              /\ UNCHANGED <<upc, closeVars>>

----------------------------------------------------------------------------
(* CopyFrom and CopyTo, under the read lock.                               *)

Writing == \E x \in Closers : cpc[x] \notin {"start", "done"}

\* Only closed is checked.
BugCopyIgnoresMapped(u) ==
  /\ apc = "open" /\ upc[u] = "start" /\ ~Writing
  /\ upc' = [upc EXCEPT ![u] = IF closed THEN "done" ELSE "copying"]
  /\ UNCHANGED <<allocVars, closeVars, drv, misuse>>

\* Refused when closed or unmapped, or by a length that does not match.
CopyBegin(u) ==
  /\ apc = "open" /\ upc[u] = "start" /\ ~Writing
  /\ \/ ~closed /\ "mapped" \in live /\ upc' = [upc EXCEPT ![u] = "copying"]
     \/ upc' = [upc EXCEPT ![u] = "done"]
  /\ UNCHANGED <<allocVars, closeVars, drv, misuse>>

CopyEnd(u) == /\ upc[u] = "copying"
              /\ upc' = [upc EXCEPT ![u] = "done"]
              /\ UNCHANGED <<allocVars, closeVars, drv, misuse>>

----------------------------------------------------------------------------
(* Close, under the write lock.                                            *)

VGoto(x, l) == cpc' = [cpc EXCEPT ![x] = l]

\* Lock is requested: new copies wait, and so does another Close.
CloseQueue(x) == /\ apc = "open" /\ cpc[x] = "start" /\ ~Writing
                 /\ VGoto(x, "queued")
                 /\ UNCHANGED <<allocVars, upc, errs, live, closed, drv, misuse>>

\* Granted.  Already closed, refused by the context, or on to the teardown.
CloseLock(x) == /\ cpc[x] = "queued"
                /\ \A u \in Users : upc[u] # "copying"
                /\ errs' = FALSE
                /\ \/ VGoto(x, "done")
                   \/ ~closed /\ VGoto(x, "unmap")
                /\ UNCHANGED <<allocVars, upc, live, closed, drv, misuse>>

\* The call that gives r back.
CallFor(r, ok) == \/ r = "mapped" /\ CallUnmap(ok)
                  \/ r = "created" /\ CallRelease(ok)
                  \/ r = "reserved" /\ CallAddressFree(ok)

\* tryFree: call the driver for a live resource, and keep the error or clear
\* the flag.
TryFree(r) ==
  IF r \in live
  THEN \E ok \in BOOLEAN : /\ CallFor(r, ok)
                           /\ live' = IF ok THEN live \ {r} ELSE live
                           /\ errs' = (errs \/ ~ok)
  ELSE UNCHANGED <<live, errs, drv, misuse>>

CloseUnmap(x) == /\ cpc[x] = "unmap" /\ VGoto(x, "release")
                 /\ TryFree("mapped")
                 /\ UNCHANGED <<allocVars, upc, closed>>

CloseRelease(x) == /\ cpc[x] = "release" /\ VGoto(x, "free")
                   /\ TryFree("created")
                   /\ UNCHANGED <<allocVars, upc, closed>>

\* The range is freed although it is still mapped.
BugFreeWhileMapped(x) ==
  /\ cpc[x] = "free" /\ VGoto(x, "finish")
  /\ TryFree("reserved")
  /\ UNCHANGED <<allocVars, upc, closed>>

CloseFree(x) == /\ cpc[x] = "free" /\ VGoto(x, "finish")
                /\ IF "mapped" \notin live
                   THEN TryFree("reserved")
                   ELSE UNCHANGED <<live, errs, drv, misuse>>
                /\ UNCHANGED <<allocVars, upc, closed>>

\* The errors collected are not looked at.
BugCloseIgnoresErrors(x) ==
  /\ cpc[x] = "finish" /\ VGoto(x, "done") /\ closed' = TRUE
  /\ UNCHANGED <<allocVars, upc, errs, live, drv, misuse>>

\* Closed only if nothing failed; otherwise Close can be called again.
CloseFinish(x) == /\ cpc[x] = "finish" /\ VGoto(x, "done")
                  /\ closed' = (closed \/ ~errs)
                  /\ UNCHANGED <<allocVars, upc, errs, live, drv, misuse>>

----------------------------------------------------------------------------
Alloc == AllocRefused \/ MemCreate \/ MemAddressReserve \/ MemMap
           \/ MemSetAccess \/ AllocDone \/ UndoMap \/ UndoReserve \/ UndoCreate

Close(x) == CloseQueue(x) \/ CloseLock(x) \/ CloseUnmap(x) \/ CloseRelease(x)
              \/ CloseFree(x) \/ CloseFinish(x)

VNext == \/ Alloc
         \/ \E u \in Users : CopyBegin(u) \/ CopyEnd(u)
         \/ \E x \in Closers : Close(x)

VSpec == VInit /\ [][VNext]_vvars

----------------------------------------------------------------------------
APCs == {"create", "reserve", "map", "access", "filled", "open", "undoMap",
         "undoReserve", "undoCreate", "failed"}

\* Types of the locals of AllocVirtual, the copies and Close, of the fields of
\* VirtualBuffer and of what the driver holds.
VTypeOK == /\ apc \in APCs /\ rollbackErr \in BOOLEAN
           /\ upc \in [Users -> {"start", "copying", "done"}]
           /\ cpc \in [Closers -> {"start", "queued", "unmap", "release",
                                   "free", "finish", "done"}]
           /\ errs \in BOOLEAN /\ live \subseteq Flags /\ closed \in BOOLEAN
           /\ drv \subseteq Flags \cup {"access"} /\ misuse \in BOOLEAN

\* The driver is never asked to unmap what is not mapped, to release what is
\* not there or to free a range that is mapped: neither by the rollback of a
\* failed allocation nor by a Close that is retried after failing part way.
NeverMisused == ~misuse

\* A failed AllocVirtual leaves nothing behind unless a rollback call failed,
\* which its error then tells.
RollbackComplete == apc = "failed" /\ ~rollbackErr => drv = {}

\* A buffer is closed only when the driver holds nothing of it any more.
CloseComplete == closed => drv = {}

\* A copy is in the driver only while the range is mapped and accessible,
\* whatever a Close that failed has torn down before.
CopyOnMapped ==
  \A u \in Users : upc[u] = "copying" => {"mapped", "access"} \subseteq drv

----------------------------------------------------------------------------
(* The inductive invariant: what the driver holds at each step of the      *)
(* transaction, that the flags are exact once the buffer is open, and that *)
(* the write lock excludes copies.                                         *)

Transaction ==
  /\ apc = "create" => drv = {}
  /\ apc = "reserve" => drv = {"created"}
  /\ apc \in {"map", "undoReserve"} => drv = {"created", "reserved"}
  /\ apc \in {"access", "undoMap"} => drv = Flags
  /\ apc = "filled" => drv = Flags \cup {"access"}
  /\ apc = "undoCreate" => /\ "created" \in drv
                           /\ ~rollbackErr => drv = {"created"}
  /\ apc = "open" => /\ live = drv \ {"access"}
                     /\ "access" \in drv <=> "mapped" \in drv

Locking ==
  /\ apc # "open" => /\ \A x \in Closers : cpc[x] = "start"
                     /\ \A u \in Users : upc[u] # "copying"
                     /\ ~closed
  /\ \A x \in Closers : cpc[x] \notin {"start", "queued", "done"} =>
       /\ ~closed
       /\ \A u \in Users : upc[u] # "copying"
  /\ \A x, y \in Closers :
       cpc[x] \notin {"start", "done"} /\ cpc[y] \notin {"start", "done"}
         => x = y

Teardown ==
  \A x \in Closers :
    /\ cpc[x] \in {"release", "free", "finish"} /\ ~errs => "mapped" \notin live
    /\ cpc[x] \in {"free", "finish"} /\ ~errs => "created" \notin live
    /\ cpc[x] = "finish" /\ ~errs => "reserved" \notin live
    /\ cpc[x] = "finish" /\ ~errs => live = {}

\* The invariant on which the proofs rest: at every step of acquireVirtual,
\* Close and the copies the flags and the driver agree, and the four
\* properties above hold.
IInv == /\ VTypeOK /\ Transaction /\ Locking /\ Teardown
        /\ NeverMisused /\ RollbackComplete /\ CloseComplete /\ CopyOnMapped
=============================================================================
