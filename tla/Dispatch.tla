------------------------------ MODULE Dispatch ------------------------------
(***************************************************************************)
(* cuda/dispatch.go and cuda/event_dispatch.go: the pooled operations that *)
(* carry a driver call to an executor.                                     *)
(*                                                                         *)
(* A method takes an op from the pool of its type, writes the fields its   *)
(* driver call needs over whatever the previous user left there, and       *)
(* submits the op; the worker makes the call its kind selects with the     *)
(* fields that kind reads.  A memOp, a descriptor op, a launch and an      *)
(* elapsed-time query go back to the pool by the hand of the caller; a     *)
(* syncOp by that of the executor, because its caller may have gone.  A    *)
(* cancellable wait travels inside a second pooled object, trackedSyncJob. *)
(*                                                                         *)
(* The value of a field is the call that wrote it, which is all that could *)
(* go wrong with it.  An executor is the serial service of TaskService:    *)
(* phase and reply are its phase and reply for each call.                  *)
(***************************************************************************)
EXTENDS Naturals, FiniteSets

CONSTANTS Calls, NoCall,
          Ops,       \* the objects a pool can hand out
          Tracked,   \* the trackedSyncJobs
          OpTypes    \* the op types whose pool a behaviour may be about

ASSUME DispatchAssumption == NoCall \notin Calls \cup Ops \cup Tracked

----------------------------------------------------------------------------
(* The dispatching functions: the op type and kind each uses, the driver   *)
(* entry point it is for and the fields it sets.                           *)

Fn(op, kind, asks, sets) == [op |-> op, kind |-> kind, asks |-> asks, sets |-> sets]
MemOp(kind, asks, sets) == Fn("memOp", kind, asks, sets \cup {"driver"})

memcpyHtoD == MemOp("opHtoD", "MemcpyHtoD", {"dst", "host", "n"})
memcpyDtoH == MemOp("opDtoH", "MemcpyDtoH", {"host", "src", "n"})
memcpyDtoD == MemOp("opDtoD", "MemcpyDtoD", {"dst", "src", "n"})
memcpyHtoDAsync == MemOp("opHtoDAsync", "MemcpyHtoDAsync", {"dst", "host", "n", "stream"})
memcpyDtoHAsync == MemOp("opDtoHAsync", "MemcpyDtoHAsync", {"host", "src", "n", "stream"})

\* The stream is left as it was.
BugDtoDAsyncKeepsStream == MemOp("opDtoDAsync", "MemcpyDtoDAsync", {"dst", "src", "n"})

memcpyDtoDAsync == MemOp("opDtoDAsync", "MemcpyDtoDAsync", {"dst", "src", "n", "stream"})

\* base is the kind for bytes; the two wider kinds follow it.
memsetKind(base, size) ==
  CASE size = 1 -> base[1] [] size = 2 -> base[2] [] OTHER -> base[3]

memset(size) ==
  MemOp(memsetKind(<<"opMemset8", "opMemset16", "opMemset32">>, size),
        CASE size = 1 -> "MemsetD8" [] size = 2 -> "MemsetD16" [] size = 4 -> "MemsetD32",
        {"dst", "val", "n"})
memsetAsync(size) ==
  MemOp(memsetKind(<<"opMemset8Async", "opMemset16Async", "opMemset32Async">>, size),
        CASE size = 1 -> "MemsetD8Async" [] size = 2 -> "MemsetD16Async"
          [] size = 4 -> "MemsetD32Async",
        {"dst", "val", "n", "stream"})

newSyncOp(kind, asks) == Fn("syncOp", kind, asks, {"driver", "stream", "event", "flags"})
SyncFns == {newSyncOp("opStreamSync", "StreamSynchronize"),
            newSyncOp("opStreamQuery", "StreamQuery"),
            newSyncOp("opStreamWaitEvent", "StreamWaitEvent"),
            newSyncOp("opCtxSync", "CtxSynchronize"),
            newSyncOp("opEventRecord", "EventRecord"),
            newSyncOp("opEventQuery", "EventQuery"),
            newSyncOp("opEventSync", "EventSynchronize")}

memcpy2D == Fn("memcpy2DOp", "memcpy2DOp", "Memcpy2D", {"driver", "desc"})
memcpy3D == Fn("memcpy3DOp", "memcpy3DOp", "Memcpy3D", {"driver", "desc"})
memcpy2DAsync == Fn("memcpy2DAsyncOp", "memcpy2DAsyncOp", "Memcpy2DAsync",
                    {"driver", "desc", "stream"})
memcpy3DAsync == Fn("memcpy3DAsyncOp", "memcpy3DAsyncOp", "Memcpy3DAsync",
                    {"driver", "desc", "stream"})
launchKernel(coop) ==
  Fn("launchOp", IF coop THEN "launchOp cooperative" ELSE "launchOp",
     IF coop THEN "LaunchCooperativeKernel" ELSE "LaunchKernel",
     {"driver", "fn", "cfg", "stream", "params"})
graphLaunch == Fn("graphLaunchOp", "graphLaunchOp", "GraphLaunch",
                  {"driver", "exec", "stream"})
eventElapsed == Fn("eventElapsedOp", "eventElapsedOp", "EventElapsedTime",
                   {"driver", "start", "end"})

Functions ==
  {memcpyHtoD, memcpyDtoH, memcpyDtoD, memcpyHtoDAsync, memcpyDtoHAsync,
   memcpyDtoDAsync, memcpy2D, memcpy3D, memcpy2DAsync, memcpy3DAsync,
   graphLaunch, eventElapsed}
    \cup {memset(size) : size \in {1, 2, 4}}
    \cup {memsetAsync(size) : size \in {1, 2, 4}}
    \cup {launchKernel(coop) : coop \in BOOLEAN}
    \cup SyncFns

Fields == (UNION {f.sets : f \in Functions}) \cup {"ms"}

----------------------------------------------------------------------------
(* Run: the entry point each kind calls and the fields it reads.           *)

Does(calls, reads) == [calls |-> calls, reads |-> reads \cup {"driver"}]

MemOpRun ==
  [opHtoD |-> Does("MemcpyHtoD", {"dst", "host", "n"}),
   opDtoH |-> Does("MemcpyDtoH", {"host", "src", "n"}),
   opDtoD |-> Does("MemcpyDtoD", {"dst", "src", "n"}),
   opHtoDAsync |-> Does("MemcpyHtoDAsync", {"dst", "host", "n", "stream"}),
   opDtoHAsync |-> Does("MemcpyDtoHAsync", {"host", "src", "n", "stream"}),
   opDtoDAsync |-> Does("MemcpyDtoDAsync", {"dst", "src", "n", "stream"}),
   opMemset8 |-> Does("MemsetD8", {"dst", "val", "n"}),
   opMemset16 |-> Does("MemsetD16", {"dst", "val", "n"}),
   opMemset32 |-> Does("MemsetD32", {"dst", "val", "n"}),
   opMemset8Async |-> Does("MemsetD8Async", {"dst", "val", "n", "stream"}),
   opMemset16Async |-> Does("MemsetD16Async", {"dst", "val", "n", "stream"}),
   opMemset32Async |-> Does("MemsetD32Async", {"dst", "val", "n", "stream"})]

SyncOpRun ==
  [opStreamSync |-> Does("StreamSynchronize", {"stream"}),
   opStreamQuery |-> Does("StreamQuery", {"stream"}),
   opStreamWaitEvent |-> Does("StreamWaitEvent", {"stream", "event", "flags"}),
   opCtxSync |-> Does("CtxSynchronize", {}),
   opEventRecord |-> Does("EventRecord", {"event", "stream"}),
   opEventQuery |-> Does("EventQuery", {"event"}),
   opEventSync |-> Does("EventSynchronize", {"event"})]

LaunchOpRun(coop) == Does(IF coop THEN "LaunchCooperativeKernel" ELSE "LaunchKernel",
                          {"fn", "cfg", "stream", "params"})

Run(op, kind) ==
  CASE op = "memOp" -> MemOpRun[kind]
    [] op = "syncOp" -> SyncOpRun[kind]
    [] op = "memcpy2DOp" -> Does("Memcpy2D", {"desc"})
    [] op = "memcpy3DOp" -> Does("Memcpy3D", {"desc"})
    [] op = "memcpy2DAsyncOp" -> Does("Memcpy2DAsync", {"desc", "stream"})
    [] op = "memcpy3DAsyncOp" -> Does("Memcpy3DAsync", {"desc", "stream"})
    [] op = "launchOp" -> LaunchOpRun(kind = "launchOp cooperative")
    [] op = "graphLaunchOp" -> Does("GraphLaunch", {"exec", "stream"})
    [] op = "eventElapsedOp" -> Does("EventElapsedTime", {"start", "end"})

\* Synchronous copies go to the copy executor, cancellable waits to a wait
\* lane, everything else to the command executor.
Route(f) == IF f.kind \in {"opHtoD", "opDtoH", "opDtoD", "memcpy2DOp", "memcpy3DOp"}
            THEN "copy"
            ELSE IF f.kind \in {"opStreamSync", "opCtxSync", "opEventSync"} THEN "wait"
            ELSE "command"

\* memOp.recycle is exported, so the executor finds it too.
BugByExecutor(f) == f.op \in {"syncOp", "memOp"}

\* Only syncOp has the exported Recycle that RecycleJob looks for.
ByExecutor(f) == f.op = "syncOp"

\* What the caller's recycle clears.
Cleared(f) == CASE f.op = "memOp" -> {"host"}
                [] f.op = "launchOp" -> {"params"}
                [] f.op \in {"memcpy2DOp", "memcpy3DOp"} -> {"desc"}
                [] f.op \in {"memcpy2DAsyncOp", "memcpy3DAsyncOp", "eventElapsedOp"} -> Fields
                [] OTHER -> {}

----------------------------------------------------------------------------
VARIABLES type,     \* the op type this behaviour is about
          field,    \* field[o][f]: the call that last wrote field f of o
          kind,     \* kind[o]
          pool,     \* pool[o]: how often o is in its pool
          fresh,    \* objects the pool has not made yet
          tjob,     \* tjob[t]: the op inside trackedSyncJob t, NoCall if none
          tpool, tfresh,
          fn,       \* the function of each call
          op, trk,  \* the op and the trackedSyncJob a call took
          pc,       \* the caller: "idle", "filled", "wait", "back", "done"
          phase, reply, mode,  \* the executors, as in TaskService
          seen,     \* what the driver was called with for each call
          outcome,  \* "ok" or "error" from that driver call
          elapsed   \* what eventElapsed returned

poolVars == <<field, kind, pool, fresh>>
trackVars == <<tjob, tpool, tfresh>>
callVars == <<fn, op, trk, pc, elapsed>>
execVars == <<phase, reply, mode, seen, outcome>>
vars == <<type, poolVars, trackVars, callVars, execVars>>

NotRun == [calls |-> "none", from |-> {}]
AnyFn == memcpyHtoD

Init == /\ type \in OpTypes
        /\ field = [o \in Ops |-> [f \in Fields |-> NoCall]]
        /\ kind = [o \in Ops |-> "zero"]
        /\ pool = [o \in Ops |-> 0] /\ fresh = Ops
        /\ tjob = [t \in Tracked |-> NoCall]
        /\ tpool = [t \in Tracked |-> 0] /\ tfresh = Tracked
        /\ fn = [k \in Calls |-> AnyFn]
        /\ op = [k \in Calls |-> NoCall] /\ trk = [k \in Calls |-> NoCall]
        /\ pc = [k \in Calls |-> "idle"]
        /\ elapsed = [k \in Calls |-> NoCall]
        /\ phase = [k \in Calls |-> "new"]
        /\ reply = [k \in Calls |-> "none"] /\ mode = "open"
        /\ seen = [k \in Calls |-> NotRun]
        /\ outcome = [k \in Calls |-> "none"]

Goto(k, p) == pc' = [pc EXCEPT ![k] = p]

\* sync.Pool: any pooled object, or a new one.
Get(o) == \/ o \in fresh /\ fresh' = fresh \ {o} /\ UNCHANGED pool
          \/ pool[o] > 0 /\ pool' = [pool EXCEPT ![o] = @ - 1] /\ UNCHANGED fresh
Put(o) == pool' = [pool EXCEPT ![o] = @ + 1]

\* The function takes an op and sets its fields.
Begin(k) ==
  /\ pc[k] = "idle" /\ Goto(k, "filled")
  /\ \E f \in {g \in Functions : g.op = type}, o \in Ops :
       /\ Get(o)
       /\ fn' = [fn EXCEPT ![k] = f]
       /\ op' = [op EXCEPT ![k] = o]
       /\ kind' = [kind EXCEPT ![o] = f.kind]
       /\ field' = [field EXCEPT ![o] = [x \in Fields |-> IF x \in f.sets THEN k ELSE @[x]]]
  /\ UNCHANGED <<type, trackVars, trk, elapsed, execVars>>

\* doJobCtx wraps the op of a cancellable wait.
Track(k) ==
  /\ pc[k] = "filled" /\ Route(fn[k]) = "wait" /\ trk[k] = NoCall /\ phase[k] = "new"
  /\ \E t \in Tracked :
       /\ \/ t \in tfresh /\ tfresh' = tfresh \ {t} /\ UNCHANGED tpool
          \/ tpool[t] > 0 /\ tpool' = [tpool EXCEPT ![t] = @ - 1] /\ UNCHANGED tfresh
       /\ trk' = [trk EXCEPT ![k] = t]
       /\ tjob' = [tjob EXCEPT ![t] = op[k]]
  /\ UNCHANGED <<type, poolVars, fn, op, pc, elapsed, execVars>>

\* trackedSyncJob.Recycle: the op inside is recycled, then the wrapper.
RecycleTracked(t) == /\ tjob' = [tjob EXCEPT ![t] = NoCall]
                     /\ Put(tjob[t])
                     /\ tpool' = [tpool EXCEPT ![t] = @ + 1]

\* RecycleJob on what was, or would have been, submitted.
RecycleJob(k) ==
  \/ trk[k] # NoCall /\ RecycleTracked(trk[k])
  \/ trk[k] = NoCall /\ ByExecutor(fn[k]) /\ Put(op[k]) /\ UNCHANGED <<tjob, tpool>>
  \/ trk[k] = NoCall /\ ~ByExecutor(fn[k]) /\ UNCHANGED <<pool, tjob, tpool>>

\* The context or the executor turns the op away: cancelled, closed, or no
\* thread could be set up for it.
Refuse(k) ==
  /\ pc[k] = "filled" /\ phase[k] = "new" /\ Goto(k, "back")
  /\ RecycleJob(k)
  /\ phase' = [phase EXCEPT ![k] = "released"]
  /\ \/ reply' = [reply EXCEPT ![k] = "ctx"]
     \/ mode # "open" /\ reply' = [reply EXCEPT ![k] = "closed"]
  /\ UNCHANGED <<type, field, kind, fresh, tfresh, fn, op, trk, elapsed, mode, seen,
                 outcome>>

Accept(k) ==
  /\ pc[k] = "filled" /\ phase[k] = "new" /\ mode = "open" /\ Goto(k, "wait")
  /\ Route(fn[k]) = "wait" => trk[k] # NoCall
  /\ phase' = [phase EXCEPT ![k] = "accepted"]
  /\ UNCHANGED <<type, poolVars, trackVars, fn, op, trk, elapsed, reply, mode, seen, outcome>>

\* The op the worker finds: a tracked job leads to it.
JobOf(k) == IF trk[k] = NoCall THEN op[k] ELSE tjob[trk[k]]

\* Each executor runs one job at a time; waits run on lanes of their own.
Start(k) ==
  LET o == JobOf(k)
      run == Run(type, kind[o])
  IN  /\ phase[k] = "accepted"
      /\ Route(fn[k]) # "wait" =>
           \A j \in Calls : phase[j] = "running" => Route(fn[j]) # Route(fn[k])
      /\ phase' = [phase EXCEPT ![k] = "running"]
      /\ seen' = [seen EXCEPT ![k] = [calls |-> run.calls,
                                      from |-> {field[o][x] : x \in run.reads}]]
      /\ UNCHANGED <<type, poolVars, trackVars, callVars, reply, mode, outcome>>

\* The driver call returns; eventElapsedOp.Run keeps the milliseconds, zero
\* when the call failed.
Finish(k) ==
  /\ phase[k] = "running"
  /\ phase' = [phase EXCEPT ![k] = "ran"]
  /\ \E r \in IF type = "eventElapsedOp" THEN {"ok", "error"} ELSE {"ok"} :
       /\ outcome' = [outcome EXCEPT ![k] = r]
       /\ field' = IF type = "eventElapsedOp"
                   THEN [field EXCEPT ![JobOf(k)]["ms"] = IF r = "ok" THEN k ELSE NoCall]
                   ELSE field
  /\ UNCHANGED <<type, kind, pool, fresh, trackVars, callVars, reply, mode, seen>>

\* runTask recycles the job before it answers.
Release(k) ==
  /\ phase[k] = "ran"
  /\ phase' = [phase EXCEPT ![k] = "released"]
  /\ RecycleJob(k)
  /\ UNCHANGED <<type, field, kind, fresh, tfresh, callVars, reply, mode, seen, outcome>>

Answered(k) ==
  /\ pc[k] = "wait" /\ phase[k] = "released" /\ Goto(k, "back")
  /\ reply' = [reply EXCEPT ![k] = "result"]
  /\ UNCHANGED <<type, poolVars, trackVars, fn, op, trk, elapsed, phase, mode, seen, outcome>>

\* Only DoJobCtx leaves an accepted job behind.
Abandon(k) ==
  /\ pc[k] = "wait" /\ Route(fn[k]) = "wait" /\ Goto(k, "back")
  /\ reply' = [reply EXCEPT ![k] = "ctx"]
  /\ UNCHANGED <<type, poolVars, trackVars, fn, op, trk, elapsed, phase, mode, seen, outcome>>

\* The caller is back: it reads what eventElapsed left, then recycles the op
\* if that is its duty.
Return(k) ==
  /\ pc[k] = "back" /\ Goto(k, "done")
  /\ elapsed' = [elapsed EXCEPT ![k] =
       IF type = "eventElapsedOp" /\ reply[k] = "result" /\ outcome[k] = "ok"
       THEN field[op[k]]["ms"] ELSE NoCall]
  /\ IF ByExecutor(fn[k])
     THEN UNCHANGED <<field, pool>>
     ELSE /\ field' = [field EXCEPT ![op[k]] =
                         [x \in Fields |-> IF x \in Cleared(fn[k]) THEN NoCall ELSE @[x]]]
          /\ Put(op[k])
  /\ UNCHANGED <<type, kind, fresh, trackVars, fn, op, trk, execVars>>

\* The executors are closed.
Shut == /\ mode = "open" /\ mode' = "closed"
        /\ UNCHANGED <<type, poolVars, trackVars, callVars, phase, reply, seen, outcome>>

Next == \/ \E k \in Calls : \/ Begin(k) \/ Track(k) \/ Refuse(k) \/ Accept(k)
                            \/ Start(k) \/ Finish(k) \/ Release(k) \/ Answered(k)
                            \/ Abandon(k) \/ Return(k)
        \/ Shut

Spec == Init /\ [][Next]_vars

----------------------------------------------------------------------------
\* The driver call made for a method is the one it is for, and every argument
\* of it was written by this use of the op: what an earlier use left in the
\* fields is "harmless" (dispatch.go), however ops are reused and whoever is
\* slow.  The milliseconds eventElapsed returns are those of its own events.
OwnArguments ==
  \A k \in Calls :
    /\ seen[k] # NotRun => seen[k] = [calls |-> fn[k].asks, from |-> {k}]
    /\ pc[k] = "done" /\ outcome[k] = "ok" /\ reply[k] = "result"
         => elapsed[k] = IF type = "eventElapsedOp" THEN k ELSE NoCall

\* Who must still put the op of call k back.
Owns(k, o) == /\ op[k] = o
              /\ IF ByExecutor(fn[k])
                 THEN \/ pc[k] = "filled" /\ phase[k] = "new"
                      \/ phase[k] \in {"accepted", "running", "ran"}
                 ELSE pc[k] \in {"filled", "wait", "back"}
Wraps(k, t) == /\ trk[k] = t
               /\ \/ pc[k] = "filled" /\ phase[k] = "new"
                  \/ phase[k] \in {"accepted", "running", "ran"}

\* An op has one owner at a time: it is in its pool once, or one call has to
\* put it back, so that no op is put back twice or handed out while a worker
\* still reads it; and a pooled op keeps nobody's memory reachable.  The
\* wrapper of a cancellable wait is owned in the same way.
OneOwner ==
  /\ \A o \in Ops \ fresh : pool[o] + Cardinality({k \in Calls : Owns(k, o)}) = 1
  /\ \A t \in Tracked \ tfresh : tpool[t] + Cardinality({k \in Calls : Wraps(k, t)}) = 1
  /\ \A k \in Calls : phase[k] \in {"accepted", "running"} => Owns(k, JobOf(k))
  /\ \A o \in Ops : pool[o] > 0 =>
       \A x \in {"host", "params", "desc"} : field[o][x] = NoCall
  /\ \A t \in Tracked : tpool[t] > 0 => tjob[t] = NoCall
=============================================================================
