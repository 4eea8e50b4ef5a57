------------------------------ MODULE Executor ------------------------------
(***************************************************************************)
(* internal/executor/executor.go: one goroutine pinned to an OS thread     *)
(* (the worker), any number of calls that submit a job and wait for its    *)
(* result, a task channel of capacity 1, and a process-wide pool of        *)
(* completions (a result channel of capacity 1 and an atomic state word)   *)
(* whose ownership the two sides hand over with three atomic swaps.        *)
(*                                                                         *)
(* A call of the model is one execution of DoJob / DoCtxWait (WaitCalls)   *)
(* or of DoJobCtx / DoCtx / Do (the others); successive calls of one       *)
(* goroutine are calls that do not overlap.  A task is named by its call:  *)
(* task{job, result} of call k is k's job and the completion res[k], and   *)
(* the value a job leaves in a result channel is the name of its call.     *)
(* Polling before parking only delays a step and has no state here.        *)
(***************************************************************************)
EXTENDS Naturals

CONSTANTS Calls,      \* the calls made on the executor
          WaitCalls,  \* those that wait uncancellably once submitted
          Comps,      \* the completion objects the process ever allocates
          Closers,    \* goroutines that call Close
          NoCall, NoComp

ASSUME CallsAssumption == WaitCalls \subseteq Calls /\ NoCall \notin Calls
ASSUME CompsAssumption == NoComp \notin Comps

VARIABLES
  pc,         \* where each call stands
  res,        \* the completion a call's task carries
  ret, got,   \* how a call ends, and whose outcome it received
  cancelled,  \* calls whose ctx is done
  recycled,   \* how often Recycle ran on a call's job
  ran,        \* calls whose job has run
  state,      \* completion.state
  chan,       \* completion.result: the call whose outcome is buffered
  pool,       \* how often resultPool holds a completion
  fresh,      \* completions not allocated yet
  slot,       \* Executor.tasks, a channel of capacity 1
  cur,        \* the task in runTask
  wpc,        \* where the worker stands
  draining,   \* the worker is in drain
  cpc,        \* where each closer stands
  once,       \* closeOnce
  closed, quit, done, retire,
  thread      \* the worker's OS thread

callVars  == <<pc, res, ret, got, cancelled>>
jobVars   == <<recycled, ran>>
compVars  == <<state, chan, pool, fresh>>
workVars  == <<slot, cur, wpc, draining, thread, done>>
closeVars == <<cpc, once, closed, quit>>
vars == <<callVars, jobVars, compVars, workVars, closeVars, retire>>

PCs  == {"start", "lock", "send", "wait", "received", "put", "drain", "done"}
WPCs == {"select", "run", "recycle", "send", "deliver", "drain", "put",
         "finish", "unlock", "exited"}
CPCs == {"idle", "lock", "signal", "wait", "once", "closed"}

Init == /\ pc = [k \in Calls |-> "start"]
        /\ res = [k \in Calls |-> NoComp]
        /\ ret = [k \in Calls |-> "none"]
        /\ got = [k \in Calls |-> NoCall]
        /\ cancelled = {}
        /\ recycled = [k \in Calls |-> 0]
        /\ ran = {}
        /\ state = [c \in Comps |-> "waiting"]
        /\ chan = [c \in Comps |-> NoCall]
        /\ pool = [c \in Comps |-> 0]
        /\ fresh = Comps
        /\ slot = NoCall /\ cur = NoCall
        /\ wpc = "select" /\ draining = FALSE
        /\ cpc = [x \in Closers |-> "idle"] /\ once = "free"
        /\ closed = FALSE /\ quit = FALSE /\ done = FALSE /\ retire = FALSE
        /\ thread = "locked"

----------------------------------------------------------------------------
(* The completion pool and the ownership handshake.                        *)

\* resultPool.Get: any pooled completion, or a new one.
Get(c) == \/ /\ pool[c] > 0
             /\ pool' = [pool EXCEPT ![c] = @ - 1]
             /\ UNCHANGED fresh
          \/ /\ c \in fresh
             /\ fresh' = fresh \ {c}
             /\ UNCHANGED pool

\* The state word is not reset.
BugPutWithoutReset(c) ==
  /\ pool' = [pool EXCEPT ![c] = @ + 1] /\ UNCHANGED state

\* recycleCompletion: reset the state word, then put the object back.
Put(c) == /\ state' = [state EXCEPT ![c] = "waiting"]
          /\ pool' = [pool EXCEPT ![c] = @ + 1]

\* e.mu.RLock succeeds: no Close holds the lock or is queued for it.
Readable == \A x \in Closers : cpc[x] \notin {"lock", "signal"}

\* The calls inside e.mu.RLock: those at submit's select.
Readers == {k \in Calls : pc[k] = "send"}

----------------------------------------------------------------------------
(* The submitting side.                                                    *)

\* A call ends; RecycleJob runs on the error paths of submit.
Return(k, why) == /\ pc' = [pc EXCEPT ![k] = "done"]
                  /\ ret' = [ret EXCEPT ![k] = why]

\* A refused job is not given back.
BugRefuseWithoutRecycle(k, why) == Return(k, why) /\ UNCHANGED recycled

Refuse(k, why) == /\ Return(k, why)
                  /\ recycled' = [recycled EXCEPT ![k] = @ + 1]

\* The ctx of a call may be cancelled, or time out, whenever it likes.
Cancel(k) == /\ k \notin cancelled /\ pc[k] # "done"
             /\ cancelled' = cancelled \cup {k}
             /\ UNCHANGED <<pc, res, ret, got, jobVars, compVars, workVars,
                            closeVars, retire>>

\* submit's first check: ctx is already done.
SubmitDead(k) == /\ pc[k] = "start" /\ k \in cancelled
                 /\ Refuse(k, "ctx")
                 /\ UNCHANGED <<res, got, cancelled, ran, compVars,
                                workVars, closeVars, retire>>

SubmitGet(k) == /\ pc[k] = "start" /\ k \notin cancelled
                /\ \E c \in Comps : /\ Get(c)
                                    /\ res' = [res EXCEPT ![k] = c]
                /\ pc' = [pc EXCEPT ![k] = "lock"]
                /\ UNCHANGED <<ret, got, cancelled, jobVars, state, chan,
                               workVars, closeVars, retire>>

\* The closed flag is not read.
BugSubmitIgnoresClosed(k) ==
  /\ pc[k] = "lock" /\ Readable
  /\ pc' = [pc EXCEPT ![k] = "send"]
  /\ UNCHANGED <<res, ret, got, cancelled, jobVars, compVars,
                 workVars, closeVars, retire>>

\* RLock; the executor is still open.
SubmitLock(k) == /\ pc[k] = "lock" /\ Readable /\ ~closed
                 /\ pc' = [pc EXCEPT ![k] = "send"]
                 /\ UNCHANGED <<res, ret, got, cancelled, jobVars, compVars,
                                workVars, closeVars, retire>>

\* RLock; the executor is closed.
SubmitClosed(k) == /\ pc[k] = "lock" /\ Readable /\ closed
                   /\ Put(res[k])
                   /\ Refuse(k, "closed")
                   /\ UNCHANGED <<res, got, cancelled, ran, chan, fresh,
                                  workVars, closeVars, retire>>

\* The send of submit's select.  RUnlock follows at once: nothing that can
\* happen between the two depends on the lock being released.
SubmitSend(k) == /\ pc[k] = "send" /\ slot = NoCall
                 /\ slot' = k
                 /\ pc' = [pc EXCEPT ![k] = "wait"]
                 /\ UNCHANGED <<res, ret, got, cancelled, jobVars, compVars,
                                cur, wpc, draining, thread, done, closeVars,
                                retire>>

\* The ctx.Done branch of submit's select.  The <-e.done branch beside it
\* is unreachable, which is what DoneMeansQuiet says.
SubmitGiveUp(k) == /\ pc[k] = "send" /\ k \in cancelled
                   /\ Put(res[k])
                   /\ Refuse(k, "ctx")
                   /\ UNCHANGED <<res, got, cancelled, ran, chan, fresh,
                                  workVars, closeVars, retire>>

\* case err := <-res.result
Receive(k) == /\ pc[k] = "wait" /\ chan[res[k]] # NoCall
              /\ got' = [got EXCEPT ![k] = chan[res[k]]]
              /\ chan' = [chan EXCEPT ![res[k]] = NoCall]
              /\ pc' = [pc EXCEPT ![k] = "received"]
              /\ UNCHANGED <<res, ret, cancelled, jobVars, state, pool, fresh,
                             workVars, closeVars, retire>>

\* The caller recycles whoever swapped first.
BugReceivedAlwaysRecycles(k) ==
  /\ pc[k] = "received"
  /\ state' = [state EXCEPT ![res[k]] = "received"]
  /\ pc' = [pc EXCEPT ![k] = "put"]
  /\ UNCHANGED <<ret, res, got, cancelled, jobVars, chan, pool, fresh,
                 workVars, closeVars, retire>>

\* received(): the side that swaps second recycles the completion.
Received(k) ==
  LET c == res[k]
  IN  /\ pc[k] = "received"
      /\ state' = [state EXCEPT ![c] = "received"]
      /\ IF state[c] = "delivered"
         THEN pc' = [pc EXCEPT ![k] = "put"] /\ UNCHANGED ret
         ELSE Return(k, "result")
      /\ UNCHANGED <<res, got, cancelled, jobVars, chan, pool, fresh,
                     workVars, closeVars, retire>>

\* The recycleCompletion that follows received().
CallerPut(k) == /\ pc[k] = "put"
                /\ Put(res[k])
                /\ Return(k, "result")
                /\ UNCHANGED <<res, got, cancelled, jobVars, chan, fresh,
                               workVars, closeVars, retire>>

\* The channel is pooled with the result in it.
BugAbandonNeverDrains(k) ==
  LET c == res[k]
  IN  /\ pc[k] = "wait" /\ k \in cancelled /\ k \notin WaitCalls
      /\ Return(k, "ctx")
      /\ IF state[c] = "delivered"
         THEN Put(c)
         ELSE state' = [state EXCEPT ![c] = "abandoned"] /\ UNCHANGED pool
      /\ UNCHANGED <<res, got, cancelled, jobVars, chan, fresh,
                     workVars, closeVars, retire>>

\* DoJob listens to ctx as well.
BugEveryWaitCancellable(k) ==
  LET c == res[k]
  IN  /\ pc[k] = "wait" /\ k \in cancelled
      /\ state' = [state EXCEPT ![c] = "abandoned"]
      /\ IF state[c] = "delivered"
         THEN pc' = [pc EXCEPT ![k] = "drain"] /\ UNCHANGED ret
         ELSE Return(k, "ctx")
      /\ UNCHANGED <<res, got, cancelled, jobVars, chan, pool, fresh,
                     workVars, closeVars, retire>>

\* The ctx.Done branch of DoJobCtx: abandon() gives the completion to the
\* worker, unless the worker has already delivered.
Abandon(k) ==
  LET c == res[k]
  IN  /\ pc[k] = "wait" /\ k \in cancelled /\ k \notin WaitCalls
      /\ state' = [state EXCEPT ![c] = "abandoned"]
      /\ IF state[c] = "delivered"
         THEN pc' = [pc EXCEPT ![k] = "drain"] /\ UNCHANGED ret
         ELSE Return(k, "ctx")
      /\ UNCHANGED <<res, got, cancelled, jobVars, chan, pool, fresh,
                     workVars, closeVars, retire>>

\* abandon() lost the race: empty the channel, then recycleCompletion.
AbandonDrain(k) == /\ pc[k] = "drain" /\ chan[res[k]] # NoCall
                   /\ chan' = [chan EXCEPT ![res[k]] = NoCall]
                   /\ Put(res[k])
                   /\ Return(k, "ctx")
                   /\ UNCHANGED <<res, got, cancelled, jobVars, fresh,
                                  workVars, closeVars, retire>>

----------------------------------------------------------------------------
(* The worker.                                                             *)

\* A task arrives at run's select or, once draining, at drain's.
Take == /\ wpc = "select" /\ slot # NoCall
        /\ cur' = slot /\ slot' = NoCall
        /\ wpc' = "run"
        /\ UNCHANGED <<callVars, jobVars, compVars, draining, thread, done,
                       closeVars, retire>>

\* runOne: the job returns an error value, its own or the *PanicError made of
\* its panic; which of the two makes no difference to what follows.
RunOne == /\ wpc = "run"
          /\ ran' = ran \cup {cur}
          /\ wpc' = "recycle"
          /\ UNCHANGED <<callVars, recycled, compVars, slot, cur, draining,
                         thread, done, closeVars, retire>>

\* The worker does not recycle the job.
BugRecycleForgotten ==
  /\ wpc = "recycle" /\ wpc' = "send"
  /\ UNCHANGED <<callVars, jobVars, compVars, slot, cur, draining, thread,
                 done, closeVars, retire>>

\* RecycleJob, before the caller can learn of the result.
Recycle == /\ wpc = "recycle"
           /\ recycled' = [recycled EXCEPT ![cur] = @ + 1]
           /\ wpc' = "send"
           /\ UNCHANGED <<callVars, ran, compVars, slot, cur, draining,
                          thread, done, closeVars, retire>>

\* t.result.result <- err
SendResult == /\ wpc = "send" /\ chan[res[cur]] = NoCall
              /\ chan' = [chan EXCEPT ![res[cur]] = cur]
              /\ wpc' = "deliver"
              /\ UNCHANGED <<callVars, jobVars, state, pool, fresh, slot, cur,
                             draining, thread, done, closeVars, retire>>

\* runTask returns to the loop that called it.
Loop == wpc' = "select" /\ cur' = NoCall

\* An abandoned channel is pooled without draining it.
BugDeliveredNeverDrains ==
  LET c == res[cur]
  IN  /\ wpc = "deliver"
      /\ state' = [state EXCEPT ![c] = "delivered"]
      /\ IF state[c] = "waiting" THEN Loop
                                 ELSE wpc' = "put" /\ UNCHANGED cur
      /\ UNCHANGED <<callVars, jobVars, chan, pool, fresh, slot, draining,
                     thread, done, closeVars, retire>>

\* delivered(): whoever swaps second recycles; an abandoned channel is
\* drained first.
Delivered ==
  LET c == res[cur]
  IN  /\ wpc = "deliver"
      /\ state' = [state EXCEPT ![c] = "delivered"]
      /\ CASE state[c] = "waiting"   -> Loop
           [] state[c] = "abandoned" -> wpc' = "drain" /\ UNCHANGED cur
           [] OTHER                  -> wpc' = "put" /\ UNCHANGED cur
      /\ UNCHANGED <<callVars, jobVars, chan, pool, fresh, slot, draining,
                     thread, done, closeVars, retire>>

WorkerDrain == /\ wpc = "drain" /\ chan[res[cur]] # NoCall
               /\ chan' = [chan EXCEPT ![res[cur]] = NoCall]
               /\ wpc' = "put"
               /\ UNCHANGED <<callVars, jobVars, state, pool, fresh, slot,
                              cur, draining, thread, done, closeVars, retire>>

WorkerPut == /\ wpc = "put"
             /\ Put(res[cur])
             /\ Loop
             /\ UNCHANGED <<callVars, jobVars, chan, fresh, slot, draining,
                            thread, done, closeVars, retire>>

\* The worker leaves at quit whatever is buffered.
BugQuitWithoutDrain ==
  /\ wpc = "select" /\ quit /\ ~draining
  /\ draining' = TRUE /\ wpc' = "finish"
  /\ UNCHANGED <<callVars, jobVars, compVars, slot, cur, thread,
                 done, closeVars, retire>>

\* The quit branch of run's select: whatever is still buffered is run next.
Quit == /\ wpc = "select" /\ quit /\ ~draining
        /\ draining' = TRUE
        /\ UNCHANGED <<callVars, jobVars, compVars, slot, cur, wpc, thread,
                       done, closeVars, retire>>

\* drain's default branch.
Drained == /\ wpc = "select" /\ draining /\ slot = NoCall
           /\ wpc' = "finish"
           /\ UNCHANGED <<callVars, jobVars, compVars, slot, cur, draining,
                          thread, done, closeVars, retire>>

\* The retire flag is not read.
BugFinishThreadForgetsRetire ==
  /\ wpc = "finish" /\ wpc' = "unlock"
  /\ UNCHANGED <<callVars, jobVars, compVars, slot, cur, thread, done,
                 draining, closeVars, retire>>

\* finishThread reads retire once: a retired thread is never unlocked.
FinishThread == /\ wpc = "finish"
                /\ IF retire
                   THEN /\ thread' = "quarantined" /\ done' = TRUE
                        /\ wpc' = "exited"
                   ELSE /\ wpc' = "unlock" /\ UNCHANGED <<thread, done>>
                /\ UNCHANGED <<callVars, jobVars, compVars, slot, cur,
                               draining, closeVars, retire>>

UnlockThread == /\ wpc = "unlock"
                /\ thread' = "free" /\ done' = TRUE /\ wpc' = "exited"
                /\ UNCHANGED <<callVars, jobVars, compVars, slot, cur,
                               draining, closeVars, retire>>

----------------------------------------------------------------------------
(* Retire and Close.                                                       *)

Retire == /\ ~retire /\ retire' = TRUE
          /\ UNCHANGED <<callVars, jobVars, compVars, workVars, closeVars>>

\* closeOnce.Do: the first closer queues for e.mu.Lock, the others wait.
CloseOnce(x) == /\ cpc[x] = "idle"
                /\ IF once = "free"
                   THEN /\ once' = "running"
                        /\ cpc' = [cpc EXCEPT ![x] = "lock"]
                   ELSE /\ cpc' = [cpc EXCEPT ![x] = "once"]
                        /\ UNCHANGED once
                /\ UNCHANGED <<callVars, jobVars, compVars, workVars, closed,
                               quit, retire>>

\* Close does not wait for the readers.
BugCloseWithoutLock(x) ==
  /\ cpc[x] = "lock"
  /\ cpc' = [cpc EXCEPT ![x] = "signal"]
  /\ UNCHANGED <<callVars, jobVars, compVars, workVars, once,
                 closed, quit, retire>>

\* e.mu.Lock is granted when the last reader has left.
CloseLock(x) == /\ cpc[x] = "lock" /\ Readers = {}
                /\ cpc' = [cpc EXCEPT ![x] = "signal"]
                /\ UNCHANGED <<callVars, jobVars, compVars, workVars, once,
                               closed, quit, retire>>

\* closed = true; close(e.quit); e.mu.Unlock
CloseSignal(x) == /\ cpc[x] = "signal"
                  /\ closed' = TRUE /\ quit' = TRUE
                  /\ cpc' = [cpc EXCEPT ![x] = "wait"]
                  /\ UNCHANGED <<callVars, jobVars, compVars, workVars, once,
                                 retire>>

\* <-e.done, and closeOnce is complete.
CloseDone(x) == /\ cpc[x] = "wait" /\ done
                /\ cpc' = [cpc EXCEPT ![x] = "closed"] /\ once' = "done"
                /\ UNCHANGED <<callVars, jobVars, compVars, workVars, closed,
                               quit, retire>>

\* A later Close returns when the first one has.
CloseAgain(x) == /\ cpc[x] = "once" /\ once = "done"
                 /\ cpc' = [cpc EXCEPT ![x] = "closed"]
                 /\ UNCHANGED <<callVars, jobVars, compVars, workVars, once,
                                closed, quit, retire>>

----------------------------------------------------------------------------
Submit(k) == SubmitDead(k) \/ SubmitGet(k) \/ SubmitLock(k) \/ SubmitClosed(k)
               \/ SubmitSend(k) \/ SubmitGiveUp(k)

Await(k) == Receive(k) \/ Received(k) \/ CallerPut(k) \/ Abandon(k)
              \/ AbandonDrain(k)

Worker == Take \/ RunOne \/ Recycle \/ SendResult \/ Delivered \/ WorkerDrain
            \/ WorkerPut \/ Quit \/ Drained \/ FinishThread \/ UnlockThread

Close(x) == CloseOnce(x) \/ CloseLock(x) \/ CloseSignal(x) \/ CloseDone(x)
              \/ CloseAgain(x)

Next == \/ \E k \in Calls : Cancel(k) \/ Submit(k) \/ Await(k)
        \/ Worker
        \/ Retire
        \/ \E x \in Closers : Close(x)

Spec == Init /\ [][Next]_vars

\* A goroutine that can run eventually runs.  A call need not be made and a
\* ctx need not be cancelled; a closer need not start.  The spin loops yield
\* (spinYieldEvery), so polling starves nobody, and a job is assumed to end.
Fairness == /\ \A k \in Calls : /\ WF_vars(pc[k] # "start" /\ Submit(k))
                                /\ WF_vars(Await(k))
            /\ WF_vars(Worker)
            /\ \A x \in Closers : WF_vars(cpc[x] # "idle" /\ Close(x))

FairSpec == Spec /\ Fairness

----------------------------------------------------------------------------
(* Safety.                                                                 *)

\* Every variable has its type; a pool never holds less than nothing.
TypeOK == /\ pc \in [Calls -> PCs]
          /\ res \in [Calls -> Comps \cup {NoComp}]
          /\ ret \in [Calls -> {"none", "ctx", "closed", "result"}]
          /\ got \in [Calls -> Calls \cup {NoCall}]
          /\ cancelled \subseteq Calls
          /\ recycled \in [Calls -> Nat]
          /\ ran \subseteq Calls
          /\ state \in [Comps -> {"waiting", "abandoned", "received",
                                  "delivered"}]
          /\ chan \in [Comps -> Calls \cup {NoCall}]
          /\ pool \in [Comps -> Nat]
          /\ fresh \subseteq Comps
          /\ slot \in Calls \cup {NoCall} /\ cur \in Calls \cup {NoCall}
          /\ wpc \in WPCs
          /\ draining \in BOOLEAN
          /\ cpc \in [Closers -> CPCs]
          /\ once \in {"free", "running", "done"}
          /\ closed \in BOOLEAN /\ quit \in BOOLEAN /\ done \in BOOLEAN
          /\ retire \in BOOLEAN
          /\ thread \in {"locked", "free", "quarantined"}

\* The call still refers to its completion; the worker still does.
CallerHolds(k) == pc[k] \notin {"start", "done"}
WorkerHolds(k) == slot = k \/ cur = k
Holds(k) == CallerHolds(k) \/ WorkerHolds(k)

\* "The ownership handshake guarantees every pooled channel is empty,
\* including when a caller cancels after submission": a completion in
\* resultPool is there once, is reset, has an empty channel, and neither a
\* caller nor the worker still refers to it.
PoolClean ==
  \A c \in Comps : pool[c] > 0 =>
    /\ pool[c] = 1
    /\ state[c] = "waiting" /\ chan[c] = NoCall
    /\ \A k \in Calls : Holds(k) => res[k] # c

\* A call that ends with a result has the outcome of its own job, and that
\* job did run: recycled result channels never mix two calls up.
OwnResult ==
  \A k \in Calls : ret[k] = "result" => got[k] = k /\ k \in ran

\* The channel operations outside a select never block: the worker's send
\* of a result, and the two drains of an abandoned channel.
NeverStuck ==
  /\ wpc = "send" => chan[res[cur]] = NoCall
  /\ wpc = "drain" => chan[res[cur]] # NoCall
  /\ \A k \in Calls : pc[k] = "drain" => chan[res[k]] # NoCall

\* Recycle runs exactly once on every job: by the time its call returns, or,
\* if the call abandoned it, by the time the worker lets go of it.
RecycledOnce ==
  \A k \in Calls :
    /\ recycled[k] <= 1
    /\ pc[k] = "done" /\ ~WorkerHolds(k) => recycled[k] = 1
    /\ ret[k] = "result" => recycled[k] = 1

\* DoJob and DoCtxWait: once the call has returned, its job is not waiting,
\* running or about to run, so memory lent to it is the caller's again.
WaitMeansFinished ==
  \A k \in WaitCalls :
    pc[k] = "done" => slot # k /\ (cur = k => wpc \in {"deliver", "put"})

\* Once done is closed nobody is inside submit's select (so its <-e.done
\* branch is dead code), no task was left in the channel, and no worker is
\* in a task.
DoneMeansQuiet ==
  done => closed /\ Readers = {} /\ slot = NoCall /\ cur = NoCall

----------------------------------------------------------------------------
(* The inductive invariant behind the safety properties: who owns each     *)
(* completion, what its state word and its channel hold at every point of  *)
(* the handshake, and what the locks around Close exclude.                 *)

Early(k)   == pc[k] \in {"start", "lock", "send"}
Working(k) == slot = k \/ (cur = k /\ wpc \in {"run", "recycle", "send"})
Sent(k)    == cur = k /\ wpc = "deliver"
Is(c, s, v) == state[c] = s /\ chan[c] = v

\* A completion has one holder, and a pooled or fresh one has none.
Ownership ==
  /\ \A k \in Calls : Holds(k) =>
       /\ res[k] \in Comps \ fresh
       /\ pool[res[k]] = 0
       /\ \A j \in Calls : Holds(j) /\ res[j] = res[k] => j = k
  /\ \A c \in Comps : /\ pool[c] \in {0, 1}
                      /\ c \in fresh => pool[c] = 0
                      /\ c \in fresh \/ pool[c] = 1 => Is(c, "waiting", NoCall)

\* Where the two sides can stand, and what the completion then holds.
Handshake ==
  \A k \in Calls :
    /\ Early(k) => ~WorkerHolds(k)
    /\ pc[k] \in {"lock", "send"} => Is(res[k], "waiting", NoCall)
    /\ pc[k] = "wait" =>
         \/ Working(k) /\ Is(res[k], "waiting", NoCall)
         \/ Sent(k) /\ Is(res[k], "waiting", k)
         \/ ~WorkerHolds(k) /\ Is(res[k], "delivered", k)
    /\ pc[k] = "received" =>
         \/ Sent(k) /\ Is(res[k], "waiting", NoCall)
         \/ ~WorkerHolds(k) /\ Is(res[k], "delivered", NoCall)
    /\ pc[k] = "put" => ~WorkerHolds(k) /\ Is(res[k], "received", NoCall)
    /\ pc[k] = "drain" => /\ ~WorkerHolds(k) /\ Is(res[k], "abandoned", k)
                          /\ k \notin WaitCalls
    /\ pc[k] = "done" /\ WorkerHolds(k) =>
         \/ Working(k) /\ Is(res[k], "abandoned", NoCall) /\ k \notin WaitCalls
         \/ Sent(k) /\ Is(res[k], "abandoned", k) /\ k \notin WaitCalls
         \/ Sent(k) /\ Is(res[k], "received", NoCall)
         \/ cur = k /\ wpc = "drain" /\ Is(res[k], "delivered", k)
                    /\ k \notin WaitCalls
         \/ cur = k /\ wpc = "put" /\ Is(res[k], "delivered", NoCall)

\* A job is recycled once and has run by the time its outcome is out.
JobOwnership ==
  \A k \in Calls :
    /\ recycled[k] = IF Early(k) \/ slot = k
                          \/ (cur = k /\ wpc \in {"run", "recycle"})
                     THEN 0 ELSE 1
    /\ k \in ran => ~Early(k) /\ slot # k /\ (cur = k => wpc # "run")
    /\ cur = k /\ wpc # "run" => k \in ran
    /\ pc[k] \in {"wait", "received", "put", "drain"} /\ ~WorkerHolds(k)
         => k \in ran
    /\ pc[k] # "done" <=> ret[k] = "none"
    /\ pc[k] \in {"received", "put"} \/ ret[k] = "result"
         => got[k] = k /\ k \in ran /\ ~Working(k)

\* The read lock keeps submit's select and Close apart.
Closing ==
  /\ slot = NoCall \/ slot # cur
  /\ cur = NoCall <=> wpc \in {"select", "finish", "unlock", "exited"}
  /\ closed => Readers = {}
  /\ \A x \in Closers : cpc[x] = "signal" => Readers = {}
  /\ closed = quit
  /\ draining => quit
  /\ wpc \in {"finish", "unlock", "exited"} => draining /\ slot = NoCall
  /\ done => wpc = "exited"

\* At every moment exactly one side is entitled to recycle a completion.
IInv == TypeOK /\ Ownership /\ Handshake /\ JobOwnership /\ Closing

----------------------------------------------------------------------------
(* The abstract service, and progress.                                     *)

phase == [k \in Calls |->
            CASE recycled[k] = 1 -> "released"
              [] recycled[k] = 0 /\ k \in ran -> "ran"
              [] recycled[k] = 0 /\ k \notin ran /\ cur = k -> "running"
              [] recycled[k] = 0 /\ k \notin ran /\ slot = k -> "accepted"
              [] recycled[k] = 0 /\ k \notin ran /\ ~WorkerHolds(k) -> "new"
              [] OTHER -> "impossible"]

reply == [k \in Calls |->
            IF pc[k] # "done" THEN "none"
            ELSE IF ret[k] = "result" /\ got[k] # k THEN "someone else's"
            ELSE ret[k]]

mode == IF done THEN "stopped" ELSE IF closed THEN "closed" ELSE "open"

Service == INSTANCE TaskService
             WITH Calls <- Calls, WaitCalls <- WaitCalls,
                  phase <- phase, reply <- reply, mode <- mode

\* The executor implements the service its callers rely on: jobs run one at
\* a time and exactly once, results go home, nothing accepted is lost when
\* the executor closes.
ImplementsService == Service!SSpec

\* If Retire came before the first Close, the thread is never given back to
\* the scheduler, whatever else happens.
RetireHonoured == [](retire /\ once = "free" => [](thread # "free"))

\* A call that was made returns, even if the executor is closed while its
\* task is in the buffer ("abandoning it would hang its caller").
\* So does every Close, also on a retired executor, whose thread never ends.
EveryCallReturns == /\ \A k \in Calls : pc[k] # "start" ~> pc[k] = "done"
                    /\ \A x \in Closers : cpc[x] # "idle" ~> cpc[x] = "closed"

\* A job that was accepted is recycled even if nobody waits for it any more.
EveryJobRecycled == \A k \in Calls : slot = k ~> recycled[k] = 1
=============================================================================
