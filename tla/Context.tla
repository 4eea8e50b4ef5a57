------------------------------- MODULE Context -------------------------------
(***************************************************************************)
(* cuda/context.go: a CUDA primary context served by several pinned        *)
(* threads.  Commands run on the command executor, blocking copies on a    *)
(* lazily created copy executor, synchronization calls on a bounded pool   *)
(* of wait lanes, so that a cancelled wait keeps running on its lane after *)
(* its caller has gone.  Destroying a handle drains the lanes first; Close *)
(* stops every executor and survives a driver that fails half way.         *)
(*                                                                         *)
(* An executor is what TaskService says, with the order its channel gives: *)
(* queue[t] holds the task thread t is running and the one buffered behind *)
(* it.  The driver is external: binding, clearing and releasing may fail,  *)
(* and a call that fails changes nothing.                                  *)
(***************************************************************************)
EXTENDS Integers, Sequences, FiniteSets

CONSTANTS
  Waits,       \* calls of doJobCtx: Stream, Event and Context Synchronize
  Destroys,    \* calls of doBarrier: the Close of a handle
  Copies,      \* calls of doCopyJob and doCopyWait
  Commands,    \* calls of doJob, do and doWait
  Handle,      \* Handle[k]: the stream or event a wait or a destroy is about
  Handles,
  MaxLanes,    \* maxWaitLanes
  MaxThreads,  \* bound: threads a run may start
  MaxCloses    \* bound: calls of Context.Close

NoCall == "none"

ASSUME ContextAssumption ==
  /\ IsFiniteSet(Waits) /\ NoCall \notin Waits
  /\ Waits \cap Destroys = {} /\ (Waits \cup Destroys) \cap (Copies \cup Commands) = {}
  /\ Copies \cap Commands = {}
  /\ Handle \in [Waits \cup Destroys -> Handles]
  /\ MaxLanes \in Nat \ {0} /\ MaxThreads \in Nat \ {0} /\ MaxCloses \in Nat

VARIABLES
  pc,          \* where each call stands
  cancelled,   \* waits whose ctx is done
  lane,        \* the wait lane a wait was given
  todo,        \* lanes a destroy has still to pass through
  finished,    \* jobs run to the end whose submitter has not noticed
  destroyed,   \* handles the driver has destroyed
  thread,      \* each thread: "unborn", "pinned", "free" or "parked"
  bound,       \* threads on which the context is current
  queue,       \* tasks accepted by the executor of a thread
  waitLanes,   \* Context.waitLanes, by their threads
  pending,     \* waitLane.pending
  syncActive,  \* Context.syncActive
  creating,    \* the wait that holds laneCreateMu, if any
  exec, copyExec, commandErr, closed,
  retained,    \* retains of the primary context
  cl, closes,  \* where Close stands, and how often it was called
  leaving      \* lanes Close has taken out of waitLanes and not yet closed

callVars   == <<pc, cancelled, lane, destroyed>>
laneVars   == <<queue, waitLanes, pending, syncActive, creating, finished>>
threadVars == <<thread, bound>>
execVars   == <<exec, copyExec, commandErr, closed, retained>>
closeVars  == <<cl, closes, leaving>>
vars == <<callVars, todo, laneVars, threadVars, execVars, closeVars>>

Calls    == Waits \cup Destroys \cup Copies \cup Commands
Threads  == 1 .. MaxThreads
NoThread == 0
Unborn   == {t \in Threads : thread[t] = "unborn"}

\* The Context that Primary returns.
Init == /\ pc = [k \in Calls |-> "start"]
        /\ cancelled = {} /\ lane = [w \in Waits |-> NoThread]
        /\ todo = [d \in Destroys |-> <<>>]
        /\ destroyed = {}
        /\ thread = [t \in Threads |-> IF t = 1 THEN "pinned" ELSE "unborn"]
        /\ bound = {1} /\ exec = 1 /\ copyExec = NoThread
        /\ queue = [t \in Threads |-> <<>>]
        /\ waitLanes = <<>> /\ pending = [t \in Threads |-> 0]
        /\ syncActive = 0 /\ creating = NoCall /\ finished = {}
        /\ commandErr = FALSE /\ closed = FALSE /\ retained = 1
        /\ cl = "idle" /\ closes = 0 /\ leaving = <<>>

----------------------------------------------------------------------------
(* Threads.                                                                *)

\* newExecutor, and recoverCommandExecutor: the new thread gets the context.
Bind(t) == /\ t = CHOOSE u \in Unborn : \A v \in Unborn : u <= v
           /\ thread' = [thread EXCEPT ![t] = "pinned"]
           /\ bound' = bound \cup {t}

\* CtxSetCurrent fails on the new thread: Retire, then Close.
BindFails == \E t \in Unborn :
               /\ \A v \in Unborn : t <= v
               /\ thread' = [thread EXCEPT ![t] = "parked"]
               /\ UNCHANGED bound

\* A thread that could not be cleaned is given back.
BugCloseUnclean(t) ==
  /\ thread' = [thread EXCEPT ![t] = "free"]
  /\ bound' \in {bound, bound \ {t}}

\* closeExecutor: clear the current context on the thread, retire the
\* executor if that fails, and close it.
CloseExecutor(t) ==
  \/ /\ thread' = [thread EXCEPT ![t] = "free"]
     /\ bound' = bound \ {t}
  \/ /\ thread' = [thread EXCEPT ![t] = "parked"]
     /\ UNCHANGED bound

\* submit: the worker is idle or its one-place buffer is.
Room(t) == Len(queue[t]) < 2

----------------------------------------------------------------------------
(* Locks.  Every call holds opMu.RLock from its first check to its return; *)
(* a wait also holds its handle's RLock, a destroy its handle's Lock.      *)

InOp == {k \in Calls : pc[k] \notin {"start", "queued", "locked", "done"}}
Readable == cl = "idle"
Usable == ~closed /\ ~commandErr

Shared(h) == {w \in Waits : Handle[w] = h /\ pc[w] \notin {"start", "done"}}
Wanted(h) == {d \in Destroys : Handle[d] = h /\ pc[d] \notin {"start", "done"}}
Exclusive(h) == {d \in Wanted(h) : pc[d] # "queued"}

Goto(k, l) == pc' = [pc EXCEPT ![k] = l]

----------------------------------------------------------------------------
(* A synchronization call: doJobCtx.                                       *)

Cancel(w) == /\ pc[w] # "done" /\ w \notin cancelled
             /\ cancelled' = cancelled \cup {w}
             /\ UNCHANGED <<pc, lane, destroyed, todo, laneVars, threadVars,
                            execVars, closeVars>>

\* The handle is open and so is the context.  Their two read locks are one
\* step here; Handles takes them apart.
WaitBegin(w) == /\ pc[w] = "start" /\ Wanted(Handle[w]) = {} /\ Readable
                /\ Handle[w] \notin destroyed
                /\ Usable /\ w \notin cancelled
                /\ Goto(w, "acquire")
                /\ UNCHANGED <<cancelled, lane, destroyed, todo, laneVars,
                               threadVars, execVars, closeVars>>

\* One of the early returns: handle or context closed, ctx done, commandErr.
WaitRefused(w) == /\ pc[w] = "start" /\ Wanted(Handle[w]) = {} /\ Readable
                  /\ \/ Handle[w] \in destroyed
                     \/ ~Usable
                     \/ w \in cancelled
                  /\ Goto(w, "done")
                  /\ UNCHANGED <<cancelled, lane, destroyed, todo, laneVars,
                                 threadVars, execVars, closeVars>>

\* The first lane with the least load among those at the places in S.
LeastLoaded(S) ==
  waitLanes[CHOOSE i \in S : \A j \in S :
              \/ pending[waitLanes[i]] < pending[waitLanes[j]]
              \/ pending[waitLanes[i]] = pending[waitLanes[j]] /\ i <= j]

IdleLanes == {i \in DOMAIN waitLanes : pending[waitLanes[i]] = 0}

\* reuseWaitLane: an idle lane, or the least loaded one at the cap.
Reusable == IdleLanes # {} \/ Len(waitLanes) >= MaxLanes
ReuseLane == IF IdleLanes # {} THEN LeastLoaded(IdleLanes)
                               ELSE LeastLoaded(DOMAIN waitLanes)

Claim(w, t) == /\ lane' = [lane EXCEPT ![w] = t]
               /\ pending' = [pending EXCEPT ![t] = @ + 1]
               /\ Goto(w, "count")

\* acquireWaitLane, first try.
AcquireReuse(w) == /\ pc[w] = "acquire" /\ Reusable
                   /\ Claim(w, ReuseLane)
                   /\ UNCHANGED <<cancelled, destroyed, todo, queue, waitLanes,
                                  syncActive, creating, finished, threadVars,
                                  execVars, closeVars>>

AcquireMiss(w) == /\ pc[w] = "acquire" /\ ~Reusable
                  /\ Goto(w, "mutex")
                  /\ UNCHANGED <<cancelled, lane, destroyed, todo, laneVars,
                                 threadVars, execVars, closeVars>>

\* laneCreateMu.Lock and the second try: a lane came free, or reached the cap.
AcquireRetry(w) == /\ pc[w] = "mutex" /\ creating = NoCall /\ Reusable
                   /\ Claim(w, ReuseLane)
                   /\ UNCHANGED <<cancelled, destroyed, todo, queue, waitLanes,
                                  syncActive, creating, finished, threadVars,
                                  execVars, closeVars>>

\* The pool is not looked at again under laneCreateMu.
BugAcquireWithoutRecheck(w) ==
  /\ pc[w] = "mutex" /\ creating = NoCall
  /\ creating' = w /\ Goto(w, "create")
  /\ UNCHANGED <<cancelled, lane, destroyed, todo, queue, waitLanes, pending,
                 syncActive, finished, threadVars, execVars, closeVars>>

AcquireCreate(w) == /\ pc[w] = "mutex" /\ creating = NoCall /\ ~Reusable
                    /\ creating' = w /\ Goto(w, "create")
                    /\ UNCHANGED <<cancelled, lane, destroyed, todo, queue,
                                   waitLanes, pending, syncActive, finished,
                                   threadVars, execVars, closeVars>>

\* newExecutor succeeded; the lane is published with pending = 1.
CreateLane(w) == /\ pc[w] = "create"
                 /\ \E t \in Unborn : /\ Bind(t)
                                      /\ waitLanes' = Append(waitLanes, t)
                                      /\ Claim(w, t)
                 /\ creating' = NoCall
                 /\ UNCHANGED <<cancelled, destroyed, todo, queue, syncActive,
                                finished, execVars, closeVars>>

CreateFails(w) == /\ pc[w] = "create" /\ BindFails
                  /\ creating' = NoCall /\ Goto(w, "done")
                  /\ UNCHANGED <<cancelled, lane, destroyed, todo, queue,
                                 waitLanes, pending, syncActive, finished,
                                 execVars, closeVars>>

\* The job is never counted.
BugTrackForgotten(w) ==
  /\ pc[w] = "count" /\ Goto(w, "send")
  /\ UNCHANGED <<cancelled, lane, destroyed, todo, laneVars, threadVars,
                 execVars, closeVars>>

\* syncActive.Add(1), before the job can reach the lane.
Track(w) == /\ pc[w] = "count"
            /\ syncActive' = syncActive + 1 /\ Goto(w, "send")
            /\ UNCHANGED <<cancelled, lane, destroyed, todo, queue, waitLanes,
                           pending, creating, finished, threadVars, execVars,
                           closeVars>>

\* lane.exec.DoJobCtx: the lane accepts the tracked job.
SendWait(w) == /\ pc[w] = "send" /\ Room(lane[w])
               /\ queue' = [queue EXCEPT ![lane[w]] = Append(@, w)]
               /\ Goto(w, "await")
               /\ UNCHANGED <<cancelled, lane, destroyed, todo, waitLanes,
                              pending, syncActive, creating, finished,
                              threadVars, execVars, closeVars>>

\* trackedSyncJob.Recycle: give the lane back, then count down.  Between the
\* two a barrier only drains a lane it need not.
RecycleTracked(t) == /\ pending' = [pending EXCEPT ![t] = @ - 1]
                     /\ syncActive' = syncActive - 1

\* Cancelled before the lane accepted the job: the caller recycles it.
GiveUpWait(w) == /\ pc[w] = "send" /\ w \in cancelled
                 /\ RecycleTracked(lane[w])
                 /\ Goto(w, "done")
                 /\ UNCHANGED <<cancelled, lane, destroyed, todo, queue,
                                waitLanes, creating, finished, threadVars,
                                execVars, closeVars>>

WaitReturns(w) == /\ pc[w] = "await" /\ w \in finished
                  /\ finished' = finished \ {w} /\ Goto(w, "done")
                  /\ UNCHANGED <<cancelled, lane, destroyed, todo, queue,
                                 waitLanes, pending, syncActive, creating,
                                 threadVars, execVars, closeVars>>

\* The caller goes; its job stays on the lane and stays counted.
AbandonWait(w) == /\ pc[w] = "await" /\ w \in cancelled
                  /\ finished' = finished \ {w} /\ Goto(w, "done")
                  /\ UNCHANGED <<cancelled, lane, destroyed, todo, queue,
                                 waitLanes, pending, syncActive, creating,
                                 threadVars, execVars, closeVars>>

----------------------------------------------------------------------------
(* Destroying a handle: its Close, doBarrier and syncBarrier.              *)

\* The handle's opMu.Lock: queued, which keeps new readers out, then granted.
DestroyQueue(d) == /\ pc[d] = "start" /\ Goto(d, "queued")
                   /\ UNCHANGED <<cancelled, lane, destroyed, todo, laneVars,
                                  threadVars, execVars, closeVars>>

DestroyLock(d) == /\ pc[d] = "queued"
                  /\ Shared(Handle[d]) = {} /\ Exclusive(Handle[d]) = {}
                  /\ Goto(d, IF Handle[d] \in destroyed THEN "done"
                                                        ELSE "locked")
                  /\ UNCHANGED <<cancelled, lane, destroyed, todo, laneVars,
                                 threadVars, execVars, closeVars>>

\* doWith: opMu.RLock, then the early returns; the handle stays open.
DestroyBegin(d) == /\ pc[d] = "locked" /\ Readable
                   /\ Goto(d, IF Usable THEN "check" ELSE "done")
                   /\ UNCHANGED <<cancelled, lane, destroyed, todo, laneVars,
                                  threadVars, execVars, closeVars>>

\* The handle is destroyed without draining the lanes.
BugNoBarrier(d) == /\ pc[d] = "check" /\ Goto(d, "destroy")
                   /\ UNCHANGED <<cancelled, lane, destroyed, todo, laneVars,
                                  threadVars, execVars, closeVars>>

\* syncBarrier: nothing to drain, or a snapshot of the lanes.  A lane added
\* between the two reads serves waits on other handles.
BarrierCheck(d) == /\ pc[d] = "check"
                   /\ todo' = [todo EXCEPT ![d] =
                                 IF syncActive = 0 THEN <<>> ELSE waitLanes]
                   /\ Goto(d, "barrier")
                   /\ UNCHANGED <<cancelled, lane, destroyed, laneVars,
                                  threadVars, execVars, closeVars>>

\* lane.DoCtx(ctx, syncBarrierNoop) on the next lane ...
BarrierSend(d) == /\ pc[d] = "barrier" /\ todo[d] # <<>>
                  /\ Room(Head(todo[d]))
                  /\ queue' = [queue EXCEPT ![Head(todo[d])] = Append(@, d)]
                  /\ Goto(d, "noop")
                  /\ UNCHANGED <<cancelled, lane, destroyed, todo, waitLanes,
                                 pending, syncActive, creating, finished,
                                 threadVars, execVars, closeVars>>

\* ... which returns when everything queued before it has run.
BarrierPass(d) == /\ pc[d] = "noop" /\ d \in finished
                  /\ finished' = finished \ {d}
                  /\ todo' = [todo EXCEPT ![d] = Tail(@)]
                  /\ Goto(d, "barrier")
                  /\ UNCHANGED <<cancelled, lane, destroyed, queue, waitLanes,
                                 pending, syncActive, creating, threadVars,
                                 execVars, closeVars>>

BarrierDone(d) == /\ pc[d] = "barrier" /\ todo[d] = <<>>
                  /\ Goto(d, "destroy")
                  /\ UNCHANGED <<cancelled, lane, destroyed, todo, laneVars,
                                 threadVars, execVars, closeVars>>

\* exec.DoCtxWait: the destroy is queued on the command executor.
DestroySend(d) == /\ pc[d] = "destroy" /\ Room(exec)
                  /\ queue' = [queue EXCEPT ![exec] = Append(@, d)]
                  /\ Goto(d, "destroying")
                  /\ UNCHANGED <<cancelled, lane, destroyed, todo, waitLanes,
                                 pending, syncActive, creating, finished,
                                 threadVars, execVars, closeVars>>

DestroyReturns(d) == /\ pc[d] = "destroying" /\ d \in finished
                     /\ finished' = finished \ {d} /\ Goto(d, "done")
                     /\ UNCHANGED <<cancelled, lane, destroyed, todo, queue,
                                    waitLanes, pending, syncActive, creating,
                                    threadVars, execVars, closeVars>>

----------------------------------------------------------------------------
(* The worker of thread t finishes the task at the head of its queue.  A   *)
(* tracked job is recycled before its result is sent; a destroy succeeds   *)
(* or leaves its handle open for another Close.                            *)

\* syncBarrier keeps syncMu while it waits for a lane.
BugBarrierHoldsSyncMu(t) ==
  LET k == Head(queue[t])
  IN  /\ queue[t] # <<>>
      /\ k \in Waits => (\A d \in Destroys : pc[d] # "noop")
      /\ queue' = [queue EXCEPT ![t] = Tail(@)]
      /\ finished' = IF pc[k] = "done" THEN finished ELSE finished \cup {k}
      /\ IF k \in Waits THEN RecycleTracked(t)
                        ELSE UNCHANGED <<pending, syncActive>>
      /\ destroyed' \in {destroyed} \cup
           IF pc[k] = "destroying" THEN {destroyed \cup {Handle[k]}} ELSE {}
      /\ UNCHANGED <<pc, cancelled, lane, todo, waitLanes, creating,
                     threadVars, execVars, closeVars>>

RunTask(t) ==
  LET k == Head(queue[t])
  IN  /\ queue[t] # <<>>
      /\ queue' = [queue EXCEPT ![t] = Tail(@)]
      /\ finished' = IF pc[k] = "done" THEN finished ELSE finished \cup {k}
      /\ IF k \in Waits THEN RecycleTracked(t)
                        ELSE UNCHANGED <<pending, syncActive>>
      /\ destroyed' \in {destroyed} \cup
           IF pc[k] = "destroying" THEN {destroyed \cup {Handle[k]}} ELSE {}
      /\ UNCHANGED <<pc, cancelled, lane, todo, waitLanes, creating,
                     threadVars, execVars, closeVars>>

----------------------------------------------------------------------------
(* A blocking copy: doCopyJob, doCopyWait and copyExecutor.                *)

\* Refused by a closed or failed context, or by a ctx that is done.
CopyBegin(k) == /\ pc[k] = "start" /\ Readable
                /\ \/ Usable /\ Goto(k, "copy")
                   \/ Goto(k, "done")
                /\ UNCHANGED <<cancelled, lane, destroyed, todo, laneVars,
                               threadVars, execVars, closeVars>>

\* copyMu is held until the executor exists, so it is created once.
CopyExecutor(k) ==
  /\ pc[k] = "copy"
  /\ \/ /\ copyExec # NoThread
        /\ Goto(k, "submit")
        /\ UNCHANGED <<copyExec, threadVars>>
     \/ /\ copyExec = NoThread
        /\ \E t \in Unborn : Bind(t) /\ copyExec' = t
        /\ Goto(k, "submit")
     \/ /\ copyExec = NoThread /\ BindFails
        /\ Goto(k, "done")
        /\ UNCHANGED copyExec
  /\ UNCHANGED <<cancelled, lane, destroyed, todo, laneVars, exec, commandErr,
                 closed, retained, closeVars>>

\* DoJob and DoCtxWait: the ctx may still prevent submission ...
CopySend(k) == /\ pc[k] = "submit"
               /\ \/ /\ Room(copyExec)
                     /\ queue' = [queue EXCEPT ![copyExec] = Append(@, k)]
                     /\ Goto(k, "copying")
                  \/ Goto(k, "done") /\ UNCHANGED queue
               /\ UNCHANGED <<cancelled, lane, destroyed, todo, waitLanes,
                              pending, syncActive, creating, finished,
                              threadVars, execVars, closeVars>>

\* ... but an accepted copy finishes before the call returns.
CopyReturns(k) == /\ pc[k] = "copying" /\ k \in finished
                  /\ finished' = finished \ {k} /\ Goto(k, "done")
                  /\ UNCHANGED <<cancelled, lane, destroyed, todo, queue,
                                 waitLanes, pending, syncActive, creating,
                                 threadVars, execVars, closeVars>>

----------------------------------------------------------------------------
(* Any other operation: doJob and doWith on the command executor.  Every   *)
(* caller of the cancellable form, do, passes a ctx that is never done.    *)

CommandBegin(k) == /\ pc[k] = "start" /\ Readable
                   /\ \/ Usable /\ Goto(k, "order")
                      \/ Goto(k, "done")
                   /\ UNCHANGED <<cancelled, lane, destroyed, todo, laneVars,
                                  threadVars, execVars, closeVars>>

CommandSend(k) == /\ pc[k] = "order"
                  /\ \/ /\ Room(exec)
                        /\ queue' = [queue EXCEPT ![exec] = Append(@, k)]
                        /\ Goto(k, "running")
                     \/ Goto(k, "done") /\ UNCHANGED queue
                  /\ UNCHANGED <<cancelled, lane, destroyed, todo, waitLanes,
                                 pending, syncActive, creating, finished,
                                 threadVars, execVars, closeVars>>

CommandReturns(k) == /\ pc[k] = "running" /\ k \in finished
                     /\ finished' = finished \ {k} /\ Goto(k, "done")
                     /\ UNCHANGED <<cancelled, lane, destroyed, todo, queue,
                                    waitLanes, pending, syncActive, creating,
                                    threadVars, execVars, closeVars>>

----------------------------------------------------------------------------
(* Context.Close.                                                          *)

\* opMu.Lock is requested: it keeps new calls out until Close returns.
CloseQueue == /\ cl = "idle" /\ closes < MaxCloses
              /\ cl' = "lock" /\ closes' = closes + 1
              /\ UNCHANGED <<callVars, todo, laneVars, threadVars, execVars,
                             leaving>>

\* The lock is granted.  A closed context returns nil; a context that lost
\* its command thread first tries to get a new one; closeWaitLanes then
\* takes all lanes.
CloseLock ==
  /\ cl = "lock" /\ InOp = {}
  /\ \/ /\ closed /\ cl' = "idle"
        /\ UNCHANGED <<threadVars, exec, commandErr, waitLanes, leaving>>
     \/ /\ ~closed /\ commandErr /\ BindFails /\ cl' = "idle"
        /\ UNCHANGED <<exec, commandErr, waitLanes, leaving>>
     \/ /\ ~closed /\ cl' = "lanes"
        /\ leaving' = waitLanes /\ waitLanes' = <<>>
        /\ IF commandErr
           THEN /\ \E t \in Unborn : Bind(t) /\ exec' = t
                /\ commandErr' = FALSE
           ELSE UNCHANGED <<threadVars, exec, commandErr>>
  /\ UNCHANGED <<callVars, todo, queue, pending, syncActive, creating,
                 finished, copyExec, closed, retained, closes>>

\* closeExecutor of the next lane: its clear runs behind abandoned waits.
CloseLane == /\ cl = "lanes" /\ leaving # <<>>
             /\ queue[Head(leaving)] = <<>>
             /\ CloseExecutor(Head(leaving))
             /\ leaving' = Tail(leaving)
             /\ UNCHANGED <<callVars, todo, laneVars, execVars, cl, closes>>

\* closeCopyExecutor.
CloseCopy == /\ cl = "lanes" /\ leaving = <<>>
             /\ cl' = "command"
             /\ copyExec # NoThread => queue[copyExec] = <<>>
             /\ IF copyExec = NoThread THEN UNCHANGED threadVars
                                       ELSE CloseExecutor(copyExec)
             /\ copyExec' = NoThread
             /\ UNCHANGED <<callVars, todo, laneVars, exec, commandErr,
                            closed, retained, closes, leaving>>

\* The retain is not released.
BugReleaseForgotten ==
  /\ cl = "command" /\ queue[exec] = <<>> /\ cl' = "idle"
  /\ closed' = TRUE
  /\ CloseExecutor(exec)
  /\ UNCHANGED <<callVars, todo, laneVars, exec, copyExec, commandErr,
                 retained, closes, leaving>>

\* The last command clears the context and releases the retain.
CloseReleased == /\ cl = "command" /\ queue[exec] = <<>> /\ cl' = "idle"
                 /\ retained' = retained - 1
                 /\ closed' = TRUE
                 /\ CloseExecutor(exec)
                 /\ UNCHANGED <<callVars, todo, laneVars, exec, copyExec,
                                commandErr, closes, leaving>>

\* A failed restore is not remembered.
BugRestoreIgnored ==
  /\ cl = "command" /\ cl' = "idle"
  /\ bound' \in {bound, bound \ {exec}}
  /\ UNCHANGED <<callVars, todo, laneVars, thread, execVars, closes, leaving>>

\* The release failed: the context is made current again and stays open, or
\* that fails too, and the thread is retired and commandErr remembered.
CloseNotReleased ==
  /\ cl = "command" /\ queue[exec] = <<>> /\ cl' = "idle"
  /\ \/ /\ bound' = bound \cup {exec}
        /\ UNCHANGED <<thread, commandErr>>
     \/ /\ bound' \in {bound, bound \ {exec}}
        /\ thread' = [thread EXCEPT ![exec] = "parked"]
        /\ commandErr' = TRUE
  /\ UNCHANGED <<callVars, todo, laneVars, exec, copyExec, closed, retained,
                 closes, leaving>>

----------------------------------------------------------------------------
WaitStep(w) == WaitBegin(w) \/ WaitRefused(w) \/ AcquireReuse(w)
                 \/ AcquireMiss(w) \/ AcquireRetry(w) \/ AcquireCreate(w)
                 \/ CreateLane(w) \/ CreateFails(w) \/ Track(w) \/ SendWait(w)
                 \/ GiveUpWait(w) \/ WaitReturns(w) \/ AbandonWait(w)

DestroyStep(d) == DestroyQueue(d) \/ DestroyLock(d) \/ DestroyBegin(d)
                    \/ BarrierCheck(d) \/ BarrierSend(d) \/ BarrierPass(d)
                    \/ BarrierDone(d) \/ DestroySend(d)
                    \/ DestroyReturns(d)

CopyStep(k) == CopyBegin(k) \/ CopyExecutor(k) \/ CopySend(k) \/ CopyReturns(k)

CommandStep(k) == CommandBegin(k) \/ CommandSend(k) \/ CommandReturns(k)

CloseStep == CloseLock \/ CloseLane \/ CloseCopy \/ CloseReleased
               \/ CloseNotReleased

Next == \/ \E w \in Waits : Cancel(w) \/ WaitStep(w)
        \/ \E d \in Destroys : DestroyStep(d)
        \/ \E k \in Copies : CopyStep(k)
        \/ \E k \in Commands : CommandStep(k)
        \/ \E t \in Threads : RunTask(t)
        \/ CloseQueue
        \/ CloseStep

Spec == Init /\ [][Next]_vars

\* Go's locks and channels starve nobody, a call once made goes on, and the
\* driver's synchronization calls end.
Fairness == /\ \A w \in Waits : WF_vars(pc[w] # "start" /\ WaitStep(w))
            /\ \A d \in Destroys : WF_vars(pc[d] # "start" /\ DestroyStep(d))
            /\ \A k \in Copies : WF_vars(pc[k] # "start" /\ CopyStep(k))
            /\ \A k \in Commands : WF_vars(pc[k] # "start" /\ CommandStep(k))
            /\ \A t \in Threads : WF_vars(RunTask(t))
            /\ WF_vars(CloseStep)

FairSpec == Spec /\ Fairness

----------------------------------------------------------------------------
\* Every variable has its type; no counter goes below zero.
TypeOK == /\ pc \in [Calls -> {"start", "acquire", "mutex", "create", "count",
                               "send", "await", "queued", "locked", "check",
                               "barrier", "noop", "destroy", "destroying",
                               "copy", "submit", "copying", "order",
                               "running", "done"}]
          /\ cancelled \subseteq Waits /\ destroyed \subseteq Handles
          /\ lane \in [Waits -> Threads \cup {NoThread}]
          /\ todo \in [Destroys -> Seq(Threads)]
          /\ finished \subseteq Calls
          /\ thread \in [Threads -> {"unborn", "pinned", "free", "parked"}]
          /\ bound \subseteq Threads
          /\ queue \in [Threads -> Seq(Calls)]
          /\ waitLanes \in Seq(Threads) /\ leaving \in Seq(Threads)
          /\ pending \in [Threads -> Nat] /\ syncActive \in Nat
          /\ creating \in Waits \cup {NoCall}
          /\ exec \in Threads /\ copyExec \in Threads \cup {NoThread}
          /\ commandErr \in BOOLEAN /\ closed \in BOOLEAN
          /\ retained \in Nat
          /\ cl \in {"idle", "lock", "lanes", "command"}
          /\ closes \in 0 .. MaxCloses

Queued(t) == {queue[t][i] : i \in DOMAIN queue[t]}

\* maxWaitLanes "bounds the pinned wait threads a context can hold", however
\* many waits miss the pool at the same time.
LaneCap == Len(waitLanes) + Len(leaving) <= MaxLanes

InFlight(t) == {w \in Waits : lane[w] = t /\ (pc[w] \in {"count", "send"}
                                                  \/ w \in Queued(t))}
Tracked == {w \in Waits : pc[w] = "send" \/ \E t \in Threads : w \in Queued(t)}

\* waitLane.pending counts exactly the waits that have claimed the lane and
\* whose job has not been recycled, cancelled ones included, and syncActive
\* counts those that were tracked: neither drifts, so an idle lane looks
\* idle and a busy context never looks quiet.
CountsExact == /\ TypeOK
               /\ \A t \in Threads : pending[t] = Cardinality(InFlight(t))
               /\ syncActive = Cardinality(Tracked)

\* A stream or an event is destroyed only when no synchronization on it is
\* queued or running on any lane, even one whose caller has gone.
NoWaitOnDestroyed ==
  \A w \in Waits : Handle[w] \in destroyed =>
    \A t \in Threads : w \notin Queued(t)

Good(t) == thread[t] = "pinned" /\ t \in bound

\* Whatever a thread is asked to do, the context is current on it: every
\* task on any executor, and an open context always has a lane, a copy
\* thread and a command thread it can use, however Close failed before.
ContextCurrent == /\ \A t \in Threads : queue[t] # <<>> => Good(t)
                  /\ \A i \in DOMAIN waitLanes : Good(waitLanes[i])
                  /\ Usable => Good(exec)
                  /\ copyExec # NoThread => Good(copyExec)

\* No thread goes back to the scheduler with the context current on it, and
\* once the context is closed no thread is left running.
ThreadsClean ==
  /\ \A t \in Threads : thread[t] = "free" => t \notin bound
  /\ closed => \A t \in Threads : thread[t] # "pinned"

\* "If releasing the primary context fails the retain count was not dropped,
\* so the Context stays open": a closed context holds no retain and an open
\* one holds exactly one.
RetainBalance == retained = IF closed THEN 0 ELSE 1

\* Every call returns: no wait, destroy, copy or command is left behind by a
\* lane, a lock or a Close.
\* So does every Close, although it waits for the waits that were abandoned.
EveryCallReturns == /\ \A k \in Calls : pc[k] # "start" ~> pc[k] = "done"
                    /\ cl # "idle" ~> cl = "idle"
=============================================================================
