------------------------------- MODULE Handles -------------------------------
(***************************************************************************)
(* Calls of the methods of package cuda, running concurrently: each        *)
(* goroutine works through the lock plan (module LockPlans) of the method  *)
(* it calls, makes its driver call under the locks and releases them.      *)
(*                                                                         *)
(* The interplay with the executors is in Context; here a driver call is   *)
(* one step.  A handle that a call creates is not yet known to anyone else *)
(* and does not appear.                                                    *)
(***************************************************************************)
EXTENDS LockPlans, FiniteSets

CONSTANTS Procs,  \* goroutines, each making one call
          Work    \* the assignments of plans to goroutines to try

VARIABLES op,      \* the operation each goroutine is in, fixed by Init
          pc,      \* "lock", "call" or "done"
          held,    \* how many requests of its plan a goroutine was granted
          queued,  \* goroutines in Lock that already keep new readers out
          closed   \* the handles that are closed

vars == <<op, pc, held, queued, closed>>

Init == /\ op \in Work
        /\ pc = [p \in Procs |-> "lock"]
        /\ held = [p \in Procs |-> 0]
        /\ queued = {}
        /\ closed = {}

Want(p) == op[p].locks[held[p] + 1]

\* sync.RWMutex: the writer in it or announced to it, and its readers.
Writers(h) == {p \in Procs : \/ p \in queued /\ Want(p).h = h
                             \/ \E i \in 1 .. held[p] :
                                  op[p].locks[i].write /\ op[p].locks[i].h = h}
Readers(h) == {p \in Procs : \E i \in 1 .. held[p] :
                               /\ ~op[p].locks[i].write /\ op[p].locks[i].keep
                               /\ op[p].locks[i].h = h}

\* The call returns and its deferred unlocks run.
Return(p) == pc' = [pc EXCEPT ![p] = "done"] /\ held' = [held EXCEPT ![p] = 0]

\* On to the next lock or to the driver call; a call that makes none returns.
Advance(p) ==
  LET last == held[p] + 1 = Len(op[p].locks)
  IN  \/ last /\ ~op[p].drives /\ Return(p)
      \/ /\ ~last \/ op[p].drives
         /\ held' = [held EXCEPT ![p] = @ + 1]
         /\ pc' = [pc EXCEPT ![p] = IF last THEN "call" ELSE "lock"]

\* What the call can do when the lock it wants is granted.
Closed(p) == Want(p).check \cap closed # {}
Mismatch(p) == held[p] + 1 \in op[p].stops

\* No closed flag is read.
BugGrantedUnchecked(p) == Advance(p)

\* An error path returns without unlocking.
BugGrantedLeaks(p) ==
  \/ Closed(p) /\ pc' = [pc EXCEPT ![p] = "done"] /\ UNCHANGED held
  \/ Mismatch(p) /\ Return(p)
  \/ ~Closed(p) /\ Advance(p)

\* The lock is taken.  A closed handle ends the call, and so do contexts or
\* lengths that differ.
Granted(p) == \/ (Closed(p) \/ Mismatch(p)) /\ Return(p)
              \/ ~Closed(p) /\ Advance(p)

RLock(p) == /\ pc[p] = "lock" /\ ~Want(p).write
            /\ Writers(Want(p).h) = {}
            /\ Granted(p)
            /\ UNCHANGED <<op, queued, closed>>

\* Lock announces itself, which blocks new readers, then waits for the old.
Announce(p) == /\ pc[p] = "lock" /\ Want(p).write /\ p \notin queued
               /\ Writers(Want(p).h) = {}
               /\ queued' = queued \cup {p}
               /\ UNCHANGED <<op, pc, held, closed>>

Lock(p) == /\ p \in queued /\ Readers(Want(p).h) = {}
           /\ queued' = queued \ {p}
           /\ Granted(p)
           /\ UNCHANGED <<op, closed>>

\* The driver call, then every lock is released.  A destroy may fail.
Call(p) == /\ pc[p] = "call"
           /\ closed' \in {closed, closed \cup op[p].destroys}
           /\ Return(p)
           /\ UNCHANGED <<op, queued>>

Step(p) == RLock(p) \/ Announce(p) \/ Lock(p) \/ Call(p)

Next == \E p \in Procs : Step(p)

Spec == Init /\ [][Next]_vars

\* Every goroutine that can go on does; Go's RWMutex starves nobody.
FairSpec == Spec /\ \A p \in Procs : WF_vars(Step(p))

----------------------------------------------------------------------------
Touches(p) == {op[p].locks[i].h : i \in DOMAIN op[p].locks}

\* A call that returned holds no lock, on error paths too.
TypeOK == /\ pc \in [Procs -> {"lock", "call", "done"}]
          /\ \A p \in Procs : held[p] \in IF pc[p] = "done" THEN {0}
                                           ELSE 0 .. Len(op[p].locks)
          /\ queued \subseteq Procs /\ closed \subseteq Handles

\* A driver call is made only while every handle it names, and the context,
\* is open, so no handle is used after, or destroyed twice.
NeverAfterClose ==
  \A p \in Procs : pc[p] = "call" => Touches(p) \cap closed = {}

\* While a handle is being destroyed no other driver call names it: "Close
\* cannot race with an in-flight copy".
DestroyAlone ==
  \A p, q \in Procs :
    p # q /\ pc[p] = "call" /\ pc[q] = "call"
      => op[p].destroys \cap Touches(q) = {}

\* Every operation returns: locks taken in conflicting orders, with a Close
\* waiting on each, would leave all of them waiting for ever.
EveryOpReturns == \A p \in Procs : <>(pc[p] = "done")
=============================================================================
