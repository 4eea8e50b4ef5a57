--------------------------- MODULE ExecutorProofs ---------------------------
(***************************************************************************)
(* Proofs about Executor.  IInv, the inductive invariant, is preserved by  *)
(* every action; the safety properties follow from it.  Ownership,         *)
(* Handshake and JobOwnership strengthen each other: that a completion has *)
(* one holder is what makes a swap on it leave every other call alone, and *)
(* the handshake tells who that holder is.                                 *)
(***************************************************************************)
EXTENDS Executor, TLAPS

----------------------------------------------------------------------------
(* Steps that touch no call, job or completion.                            *)

\* What no step on the worker, a closer or the retire flag alone can disturb.
LEMMA Frame ==
  ASSUME IInv,
         UNCHANGED <<pc, res, ret, got, jobVars, compVars, slot, cur>>,
         wpc' = wpc \/ cur = NoCall
  PROVE  Ownership' /\ Handshake' /\ JobOwnership'
<1> USE CallsAssumption DEF IInv, jobVars, compVars
<1>1. Ownership'
  BY DEF Ownership, Holds, CallerHolds, WorkerHolds, Is
<1>2. Handshake'
  BY DEF Handshake, WorkerHolds, Early, Working, Sent, Is
<1>3. JobOwnership'
  BY DEF JobOwnership, WorkerHolds, Early, Working
<1> QED BY <1>1, <1>2, <1>3

\* A ctx becoming done touches nothing the invariant speaks of.
LEMMA CancelStep == ASSUME IInv, NEW k \in Calls, Cancel(k) PROVE IInv'
<1> USE CallsAssumption
    DEF IInv, callVars, jobVars, compVars, workVars, closeVars
<1>1. TypeOK'
  BY DEF TypeOK, WPCs, CPCs, Cancel
<1>2. Ownership' /\ Handshake' /\ JobOwnership'
  BY Frame DEF Closing, Cancel
<1>3. Closing'
  BY DEF TypeOK, Closing, Readers, Cancel
<1> QED BY <1>1, <1>2, <1>3

\* A call refused before it took a completion recycles its job once.
LEMMA SubmitDeadStep == ASSUME IInv, NEW k \in Calls, SubmitDead(k) PROVE IInv'
<1> USE CallsAssumption, CompsAssumption DEF IInv, callVars, jobVars,
        compVars, workVars, closeVars
<1>1. TypeOK'
  BY DEF TypeOK, PCs, WPCs, CPCs, Ownership, Closing, Holds, CallerHolds,
       WorkerHolds, SubmitDead, Refuse, Return
<1>2. Ownership'
  BY DEF TypeOK, Ownership, Handshake, Closing, Holds, CallerHolds,
       WorkerHolds, Early, Is, SubmitDead, Refuse, Return
<1>3. Handshake'
  BY DEF TypeOK, Ownership, Handshake, Closing, Holds, CallerHolds,
       WorkerHolds, Early, Working, Sent, Is, SubmitDead, Refuse, Return
<1>4. JobOwnership'
  BY DEF TypeOK, Handshake, JobOwnership, Closing, WorkerHolds, Early,
       Working, Sent, Is, SubmitDead, Refuse, Return
<1>5. Closing'
  BY DEF TypeOK, Closing, Handshake, WorkerHolds, Early, Readers, Readable,
       SubmitDead, Refuse, Return
<1> QED BY <1>1, <1>2, <1>3, <1>4, <1>5

\* A completion leaves the pool, or is made, for exactly one call.
LEMMA SubmitGetStep == ASSUME IInv, NEW k \in Calls, SubmitGet(k) PROVE IInv'
<1> USE CallsAssumption, CompsAssumption DEF IInv, callVars, jobVars,
        compVars, workVars, closeVars
<1>1. TypeOK'
  BY DEF TypeOK, PCs, WPCs, CPCs, Ownership, Closing, Holds, CallerHolds,
       WorkerHolds, SubmitGet, Get
<1>2. Ownership'
  BY DEF TypeOK, Ownership, Handshake, Closing, Holds, CallerHolds,
       WorkerHolds, Early, Is, SubmitGet, Get
<1>3. Handshake'
  BY DEF TypeOK, Ownership, Handshake, Closing, Holds, CallerHolds,
       WorkerHolds, Early, Working, Sent, Is, SubmitGet, Get
<1>4. JobOwnership'
  BY DEF TypeOK, Handshake, JobOwnership, Closing, WorkerHolds, Early,
       Working, Sent, Is, SubmitGet, Get
<1>5. Closing'
  BY DEF TypeOK, Closing, Handshake, WorkerHolds, Early, Readers, Readable,
       SubmitGet, Get
<1> QED BY <1>1, <1>2, <1>3, <1>4, <1>5

\* A call enters the select only while no Close holds or awaits e.mu.
LEMMA SubmitLockStep == ASSUME IInv, NEW k \in Calls, SubmitLock(k) PROVE IInv'
<1> USE CallsAssumption, CompsAssumption DEF IInv, callVars, jobVars,
        compVars, workVars, closeVars
<1>1. TypeOK'
  BY DEF TypeOK, PCs, WPCs, CPCs, Ownership, Closing, Holds, CallerHolds,
       WorkerHolds, SubmitLock, Readable
<1>2. Ownership'
  BY DEF TypeOK, Ownership, Handshake, Closing, Holds, CallerHolds,
       WorkerHolds, Early, Is, SubmitLock, Readable
<1>3. Handshake'
  BY DEF TypeOK, Ownership, Handshake, Closing, Holds, CallerHolds,
       WorkerHolds, Early, Working, Sent, Is, SubmitLock, Readable
<1>4. JobOwnership'
  BY DEF TypeOK, Handshake, JobOwnership, Closing, WorkerHolds, Early,
       Working, Sent, Is, SubmitLock, Readable
<1>5. Closing'
  BY DEF TypeOK, Closing, Handshake, WorkerHolds, Early, Readers, Readable,
       SubmitLock, Readable
<1> QED BY <1>1, <1>2, <1>3, <1>4, <1>5

\* A refusal by a closed executor returns a clean completion to the pool.
LEMMA SubmitClosedStep ==
  ASSUME IInv, NEW k \in Calls, SubmitClosed(k) PROVE IInv'
<1> USE CallsAssumption, CompsAssumption DEF IInv, callVars, jobVars,
        compVars, workVars, closeVars
<1>1. TypeOK'
  <2>1. pc[k] \in {"lock"} /\ res[k] \in Comps
    BY DEF SubmitClosed, Ownership, Holds, CallerHolds
  <2> QED
    BY <2>1 DEF TypeOK, PCs, WPCs, CPCs, SubmitClosed, Put, Refuse, Return
<1>2. Ownership'
  BY DEF TypeOK, Ownership, Handshake, Closing, Holds, CallerHolds,
       WorkerHolds, Early, Is, SubmitClosed, Readable, Put, Refuse, Return
<1>3. Handshake'
  BY DEF TypeOK, Ownership, Handshake, Closing, Holds, CallerHolds,
       WorkerHolds, Early, Working, Sent, Is, SubmitClosed, Readable, Put,
       Refuse, Return
<1>4. JobOwnership'
  BY DEF TypeOK, Handshake, JobOwnership, Closing, WorkerHolds, Early,
       Working, Sent, Is, SubmitClosed, Readable, Put, Refuse, Return
<1>5. Closing'
  BY DEF TypeOK, Closing, Handshake, WorkerHolds, Early, Readers, Readable,
       SubmitClosed, Readable, Put, Refuse, Return
<1> QED BY <1>1, <1>2, <1>3, <1>4, <1>5

\* The task channel takes over a task whose completion is untouched.
LEMMA SubmitSendStep == ASSUME IInv, NEW k \in Calls, SubmitSend(k) PROVE IInv'
<1> USE CallsAssumption, CompsAssumption DEF IInv, callVars, jobVars,
        compVars, workVars, closeVars
<1>1. TypeOK'
  BY DEF TypeOK, PCs, WPCs, CPCs, Ownership, Closing, Holds, CallerHolds,
       WorkerHolds, SubmitSend
<1>2. Ownership'
  BY DEF TypeOK, Ownership, Handshake, Closing, Holds, CallerHolds,
       WorkerHolds, Early, Is, SubmitSend
<1>3. Handshake'
  BY DEF TypeOK, Ownership, Handshake, Closing, Holds, CallerHolds,
       WorkerHolds, Early, Working, Sent, Is, SubmitSend
<1>4. JobOwnership'
  BY DEF TypeOK, Handshake, JobOwnership, Closing, WorkerHolds, Early,
       Working, Sent, Is, SubmitSend
<1>5. Closing'
  BY DEF TypeOK, Closing, Handshake, WorkerHolds, Early, Readers, Readable,
       SubmitSend
<1> QED BY <1>1, <1>2, <1>3, <1>4, <1>5

\* A cancelled submission returns a clean completion to the pool.
LEMMA SubmitGiveUpStep ==
  ASSUME IInv, NEW k \in Calls, SubmitGiveUp(k) PROVE IInv'
<1> USE CallsAssumption, CompsAssumption DEF IInv, callVars, jobVars,
        compVars, workVars, closeVars
<1>1. TypeOK'
  BY DEF TypeOK, PCs, WPCs, CPCs, Ownership, Closing, Holds, CallerHolds,
       WorkerHolds, SubmitGiveUp, Put, Refuse, Return
<1>2. Ownership'
  BY DEF TypeOK, Ownership, Handshake, Closing, Holds, CallerHolds,
       WorkerHolds, Early, Is, SubmitGiveUp, Put, Refuse, Return
<1>3. Handshake'
  BY DEF TypeOK, Ownership, Handshake, Closing, Holds, CallerHolds,
       WorkerHolds, Early, Working, Sent, Is, SubmitGiveUp, Put, Refuse,
       Return
<1>4. JobOwnership'
  BY DEF TypeOK, Handshake, JobOwnership, Closing, WorkerHolds, Early,
       Working, Sent, Is, SubmitGiveUp, Put, Refuse, Return
<1>5. Closing'
  BY DEF TypeOK, Closing, Handshake, WorkerHolds, Early, Readers, Readable,
       SubmitGiveUp, Put, Refuse, Return
<1> QED BY <1>1, <1>2, <1>3, <1>4, <1>5

\* The outcome in the channel of a waiting call is its own.
LEMMA ReceiveStep == ASSUME IInv, NEW k \in Calls, Receive(k) PROVE IInv'
<1> USE CallsAssumption, CompsAssumption DEF IInv, callVars, jobVars,
        compVars, workVars, closeVars
<1>1. TypeOK'
  BY DEF TypeOK, PCs, WPCs, CPCs, Ownership, Closing, Holds, CallerHolds,
       WorkerHolds, Receive
<1>2. Ownership'
  BY DEF TypeOK, Ownership, Handshake, Closing, Holds, CallerHolds,
       WorkerHolds, Early, Is, Receive
<1>3. Handshake'
  BY DEF TypeOK, Ownership, Handshake, Closing, Holds, CallerHolds,
       WorkerHolds, Early, Working, Sent, Is, Receive
<1>4. JobOwnership'
  BY DEF TypeOK, Handshake, JobOwnership, Closing, WorkerHolds, Early,
       Working, Sent, Is, Receive
<1>5. Closing'
  BY DEF TypeOK, Closing, Handshake, WorkerHolds, Early, Readers, Readable,
       Receive
<1> QED BY <1>1, <1>2, <1>3, <1>4, <1>5

\* received() leaves exactly one side to recycle the completion.
LEMMA ReceivedStep == ASSUME IInv, NEW k \in Calls, Received(k) PROVE IInv'
<1> USE CallsAssumption, CompsAssumption DEF IInv, callVars, jobVars,
        compVars, workVars, closeVars
<1>1. TypeOK'
  BY DEF TypeOK, PCs, WPCs, CPCs, Ownership, Closing, Holds, CallerHolds,
       WorkerHolds, Received, Return
<1>2. Ownership'
  BY DEF TypeOK, Ownership, Handshake, Closing, Holds, CallerHolds,
       WorkerHolds, Early, Is, Received, Return
<1>3. Handshake'
  BY DEF TypeOK, Ownership, Handshake, Closing, Holds, CallerHolds,
       WorkerHolds, Early, Working, Sent, Is, Received, Return
<1>4. JobOwnership'
  BY DEF TypeOK, Handshake, JobOwnership, Closing, WorkerHolds, Early,
       Working, Sent, Is, Received, Return
<1>5. Closing'
  BY DEF TypeOK, Closing, Handshake, WorkerHolds, Early, Readers, Readable,
       Received, Return
<1> QED BY <1>1, <1>2, <1>3, <1>4, <1>5

\* The caller pools the completion only when the worker has let go.
LEMMA CallerPutStep == ASSUME IInv, NEW k \in Calls, CallerPut(k) PROVE IInv'
<1> USE CallsAssumption, CompsAssumption DEF IInv, callVars, jobVars,
        compVars, workVars, closeVars
<1>1. TypeOK'
  BY DEF TypeOK, PCs, WPCs, CPCs, Ownership, Closing, Holds, CallerHolds,
       WorkerHolds, CallerPut, Put, Return
<1>2. Ownership'
  BY DEF TypeOK, Ownership, Handshake, Closing, Holds, CallerHolds,
       WorkerHolds, Early, Is, CallerPut, Put, Return
<1>3. Handshake'
  BY DEF TypeOK, Ownership, Handshake, Closing, Holds, CallerHolds,
       WorkerHolds, Early, Working, Sent, Is, CallerPut, Put, Return
<1>4. JobOwnership'
  BY DEF TypeOK, Handshake, JobOwnership, Closing, WorkerHolds, Early,
       Working, Sent, Is, CallerPut, Put, Return
<1>5. Closing'
  BY DEF TypeOK, Closing, Handshake, WorkerHolds, Early, Readers, Readable,
       CallerPut, Put, Return
<1> QED BY <1>1, <1>2, <1>3, <1>4, <1>5

\* abandon() leaves the completion to the worker, or a drain to the caller.
LEMMA AbandonStep == ASSUME IInv, NEW k \in Calls, Abandon(k) PROVE IInv'
<1> USE CallsAssumption, CompsAssumption DEF IInv, callVars, jobVars,
        compVars, workVars, closeVars
<1>1. TypeOK'
  BY DEF TypeOK, PCs, WPCs, CPCs, Ownership, Closing, Holds, CallerHolds,
       WorkerHolds, Abandon, Return
<1>2. Ownership'
  BY DEF TypeOK, Ownership, Handshake, Closing, Holds, CallerHolds,
       WorkerHolds, Early, Is, Abandon, Return
<1>3. Handshake'
  BY DEF TypeOK, Ownership, Handshake, Closing, Holds, CallerHolds,
       WorkerHolds, Early, Working, Sent, Is, Abandon, Return
<1>4. JobOwnership'
  BY DEF TypeOK, Handshake, JobOwnership, Closing, WorkerHolds, Early,
       Working, Sent, Is, Abandon, Return
<1>5. Closing'
  BY DEF TypeOK, Closing, Handshake, WorkerHolds, Early, Readers, Readable,
       Abandon, Return
<1> QED BY <1>1, <1>2, <1>3, <1>4, <1>5

\* The caller empties the channel before pooling the completion.
LEMMA AbandonDrainStep ==
  ASSUME IInv, NEW k \in Calls, AbandonDrain(k) PROVE IInv'
<1> USE CallsAssumption, CompsAssumption DEF IInv, callVars, jobVars,
        compVars, workVars, closeVars
<1>1. TypeOK'
  BY DEF TypeOK, PCs, WPCs, CPCs, Ownership, Closing, Holds, CallerHolds,
       WorkerHolds, AbandonDrain, Put, Return
<1>2. Ownership'
  BY DEF TypeOK, Ownership, Handshake, Closing, Holds, CallerHolds,
       WorkerHolds, Early, Is, AbandonDrain, Put, Return
<1>3. Handshake'
  BY DEF TypeOK, Ownership, Handshake, Closing, Holds, CallerHolds,
       WorkerHolds, Early, Working, Sent, Is, AbandonDrain, Put, Return
<1>4. JobOwnership'
  BY DEF TypeOK, Handshake, JobOwnership, Closing, WorkerHolds, Early,
       Working, Sent, Is, AbandonDrain, Put, Return
<1>5. Closing'
  BY DEF TypeOK, Closing, Handshake, WorkerHolds, Early, Readers, Readable,
       AbandonDrain, Put, Return
<1> QED BY <1>1, <1>2, <1>3, <1>4, <1>5

\* The worker takes over the task the channel held.
LEMMA TakeStep == ASSUME IInv, Take PROVE IInv'
<1> USE CallsAssumption, CompsAssumption DEF IInv, callVars, jobVars,
        compVars, workVars, closeVars
<1>1. TypeOK'
  BY DEF TypeOK, PCs, WPCs, CPCs, Ownership, Closing, Holds, CallerHolds,
       WorkerHolds, Take
<1>2. Ownership'
  BY DEF TypeOK, Ownership, Handshake, Closing, Holds, CallerHolds,
       WorkerHolds, Early, Is, Take
<1>3. Handshake'
  BY DEF TypeOK, Ownership, Handshake, Closing, Holds, CallerHolds,
       WorkerHolds, Early, Working, Sent, Is, Take
<1>4. JobOwnership'
  BY DEF TypeOK, Handshake, JobOwnership, Closing, WorkerHolds, Early,
       Working, Sent, Is, Take
<1>5. Closing'
  BY DEF TypeOK, Closing, Handshake, WorkerHolds, Early, Readers, Readable,
       Take
<1> QED BY <1>1, <1>2, <1>3, <1>4, <1>5

\* A job runs before its outcome is sent.
LEMMA RunOneStep == ASSUME IInv, RunOne PROVE IInv'
<1> USE CallsAssumption, CompsAssumption DEF IInv, callVars, jobVars,
        compVars, workVars, closeVars
<1>1. TypeOK'
  BY DEF TypeOK, PCs, WPCs, CPCs, Ownership, Closing, Holds, CallerHolds,
       WorkerHolds, RunOne
<1>2. Ownership'
  BY DEF TypeOK, Ownership, Handshake, Closing, Holds, CallerHolds,
       WorkerHolds, Early, Is, RunOne
<1>3. Handshake'
  BY DEF TypeOK, Ownership, Handshake, Closing, Holds, CallerHolds,
       WorkerHolds, Early, Working, Sent, Is, RunOne
<1>4. JobOwnership'
  BY DEF TypeOK, Handshake, JobOwnership, Closing, WorkerHolds, Early,
       Working, Sent, Is, RunOne
<1>5. Closing'
  BY DEF TypeOK, Closing, Handshake, WorkerHolds, Early, Readers, Readable,
       RunOne
<1> QED BY <1>1, <1>2, <1>3, <1>4, <1>5

\* The worker recycles a job nobody recycled before.
LEMMA RecycleStep == ASSUME IInv, Recycle PROVE IInv'
<1> USE CallsAssumption, CompsAssumption DEF IInv, callVars, jobVars,
        compVars, workVars, closeVars
<1>1. TypeOK'
  BY DEF TypeOK, PCs, WPCs, CPCs, Ownership, Closing, Holds, CallerHolds,
       WorkerHolds, Recycle
<1>2. Ownership'
  BY DEF TypeOK, Ownership, Handshake, Closing, Holds, CallerHolds,
       WorkerHolds, Early, Is, Recycle
<1>3. Handshake'
  BY DEF TypeOK, Ownership, Handshake, Closing, Holds, CallerHolds,
       WorkerHolds, Early, Working, Sent, Is, Recycle
<1>4. JobOwnership'
  BY DEF TypeOK, Handshake, JobOwnership, Closing, WorkerHolds, Early,
       Working, Sent, Is, Recycle
<1>5. Closing'
  BY DEF TypeOK, Closing, Handshake, WorkerHolds, Early, Readers, Readable,
       Recycle
<1> QED BY <1>1, <1>2, <1>3, <1>4, <1>5

\* The result goes into an empty channel.
LEMMA SendResultStep == ASSUME IInv, SendResult PROVE IInv'
<1> USE CallsAssumption, CompsAssumption DEF IInv, callVars, jobVars,
        compVars, workVars, closeVars
<1>1. TypeOK'
  BY DEF TypeOK, PCs, WPCs, CPCs, Ownership, Closing, Holds, CallerHolds,
       WorkerHolds, SendResult
<1>2. Ownership'
  BY DEF TypeOK, Ownership, Handshake, Closing, Holds, CallerHolds,
       WorkerHolds, Early, Is, SendResult
<1>3. Handshake'
  BY DEF TypeOK, Ownership, Handshake, Closing, Holds, CallerHolds,
       WorkerHolds, Early, Working, Sent, Is, SendResult
<1>4. JobOwnership'
  BY DEF TypeOK, Handshake, JobOwnership, Closing, WorkerHolds, Early,
       Working, Sent, Is, SendResult
<1>5. Closing'
  BY DEF TypeOK, Closing, Handshake, WorkerHolds, Early, Readers, Readable,
       SendResult
<1> QED BY <1>1, <1>2, <1>3, <1>4, <1>5

\* delivered() leaves exactly one side to recycle the completion.
LEMMA DeliveredStep == ASSUME IInv, Delivered PROVE IInv'
<1> USE CallsAssumption, CompsAssumption DEF IInv, callVars, jobVars,
        compVars, workVars, closeVars
<1>1. TypeOK'
  BY DEF TypeOK, PCs, WPCs, CPCs, Ownership, Closing, Holds, CallerHolds,
       WorkerHolds, Delivered, Loop
<1>2. Ownership'
  BY DEF TypeOK, Ownership, Handshake, Closing, Holds, CallerHolds,
       WorkerHolds, Early, Is, Delivered, Loop
<1>3. Handshake'
  BY DEF TypeOK, Ownership, Handshake, Closing, Holds, CallerHolds,
       WorkerHolds, Early, Working, Sent, Is, Delivered, Loop
<1>4. JobOwnership'
  BY DEF TypeOK, Handshake, JobOwnership, Closing, WorkerHolds, Early,
       Working, Sent, Is, Delivered, Loop
<1>5. Closing'
  BY DEF TypeOK, Closing, Handshake, WorkerHolds, Early, Readers, Readable,
       Delivered, Loop
<1> QED BY <1>1, <1>2, <1>3, <1>4, <1>5

\* The worker empties the channel of a caller that went.
LEMMA WorkerDrainStep == ASSUME IInv, WorkerDrain PROVE IInv'
<1> USE CallsAssumption, CompsAssumption DEF IInv, callVars, jobVars,
        compVars, workVars, closeVars
<1>1. TypeOK'
  BY DEF TypeOK, PCs, WPCs, CPCs, Ownership, Closing, Holds, CallerHolds,
       WorkerHolds, WorkerDrain
<1>2. Ownership'
  BY DEF TypeOK, Ownership, Handshake, Closing, Holds, CallerHolds,
       WorkerHolds, Early, Is, WorkerDrain
<1>3. Handshake'
  BY DEF TypeOK, Ownership, Handshake, Closing, Holds, CallerHolds,
       WorkerHolds, Early, Working, Sent, Is, WorkerDrain
<1>4. JobOwnership'
  BY DEF TypeOK, Handshake, JobOwnership, Closing, WorkerHolds, Early,
       Working, Sent, Is, WorkerDrain
<1>5. Closing'
  BY DEF TypeOK, Closing, Handshake, WorkerHolds, Early, Readers, Readable,
       WorkerDrain
<1> QED BY <1>1, <1>2, <1>3, <1>4, <1>5

\* The worker pools the completion only when the caller has let go.
LEMMA WorkerPutStep == ASSUME IInv, WorkerPut PROVE IInv'
<1> USE CallsAssumption, CompsAssumption DEF IInv, callVars, jobVars,
        compVars, workVars, closeVars
<1>1. TypeOK'
  BY DEF TypeOK, PCs, WPCs, CPCs, Ownership, Closing, Holds, CallerHolds,
       WorkerHolds, WorkerPut, Put, Loop
<1>2. Ownership'
  <2>1. cur \in Calls /\ slot # cur
    BY DEF TypeOK, Closing, WorkerPut
  <2>2. pc[cur] \in PCs
    BY <2>1 DEF TypeOK
  <2>3. pc[cur] = "done"
    BY <2>1, <2>2
       DEF PCs, Handshake, WorkerHolds, Early, Working, Sent, WorkerPut
  <2>4. res[cur] \in Comps \ fresh /\ pool[res[cur]] = 0
    BY <2>1 DEF Ownership, Holds, WorkerHolds
  <2>5. \A k \in Calls : Holds(k)' => Holds(k) /\ k # cur
    BY <2>1, <2>3 DEF Closing, Holds, CallerHolds, WorkerHolds, WorkerPut, Loop
  <2>6. chan[res[cur]] = NoCall
    BY <2>1, <2>3 DEF Handshake, WorkerHolds, Working, Sent, Is, WorkerPut
  <2> QED
    BY <2>1, <2>3, <2>4, <2>5, <2>6
       DEF TypeOK, Ownership, Holds, WorkerHolds, Is, WorkerPut, Put
<1>3. Handshake'
  BY DEF TypeOK, Ownership, Handshake, Closing, Holds, CallerHolds,
       WorkerHolds, Early, Working, Sent, Is, WorkerPut, Put, Loop
<1>4. JobOwnership'
  BY DEF TypeOK, Handshake, JobOwnership, Closing, WorkerHolds, Early,
       Working, Sent, Is, WorkerPut, Put, Loop
<1>5. Closing'
  BY DEF TypeOK, Closing, Handshake, WorkerHolds, Early, Readers, Readable,
       WorkerPut, Put, Loop
<1> QED BY <1>1, <1>2, <1>3, <1>4, <1>5

\* Draining starts only after quit.
LEMMA QuitStep == ASSUME IInv, Quit PROVE IInv'
<1> USE CallsAssumption
    DEF IInv, callVars, jobVars, compVars, workVars, closeVars
<1>1. TypeOK'
  BY DEF TypeOK, WPCs, CPCs, Quit
<1>2. Ownership' /\ Handshake' /\ JobOwnership'
  BY Frame DEF Closing, Quit
<1>3. Closing'
  BY DEF TypeOK, Closing, Readers, Quit
<1> QED BY <1>1, <1>2, <1>3

\* The drain ends with an empty task channel, and no sender is left.
LEMMA DrainedStep == ASSUME IInv, Drained PROVE IInv'
<1> USE CallsAssumption
    DEF IInv, callVars, jobVars, compVars, workVars, closeVars
<1>1. TypeOK'
  BY DEF TypeOK, WPCs, CPCs, Drained
<1>2. Ownership' /\ Handshake' /\ JobOwnership'
  BY Frame DEF Closing, Drained
<1>3. Closing'
  BY DEF TypeOK, Closing, Readers, Drained
<1> QED BY <1>1, <1>2, <1>3

\* A retired thread finishes with nothing accepted left behind.
LEMMA FinishThreadStep == ASSUME IInv, FinishThread PROVE IInv'
<1> USE CallsAssumption
    DEF IInv, callVars, jobVars, compVars, workVars, closeVars
<1>1. TypeOK'
  BY ZenonT(60) DEF TypeOK, WPCs, CPCs, FinishThread
<1>2. Ownership' /\ Handshake' /\ JobOwnership'
  BY Frame DEF Closing, FinishThread
<1>3. Closing'
  BY DEF TypeOK, Closing, Readers, FinishThread
<1> QED BY <1>1, <1>2, <1>3

\* So does one that is given back.
LEMMA UnlockThreadStep == ASSUME IInv, UnlockThread PROVE IInv'
<1> USE CallsAssumption
    DEF IInv, callVars, jobVars, compVars, workVars, closeVars
<1>1. TypeOK'
  BY DEF TypeOK, WPCs, CPCs, UnlockThread
<1>2. Ownership' /\ Handshake' /\ JobOwnership'
  BY Frame DEF Closing, UnlockThread
<1>3. Closing'
  BY DEF TypeOK, Closing, Readers, UnlockThread
<1> QED BY <1>1, <1>2, <1>3

\* Retire only sets its flag.
LEMMA RetireStep == ASSUME IInv, Retire PROVE IInv'
<1> USE CallsAssumption
    DEF IInv, callVars, jobVars, compVars, workVars, closeVars
<1>1. TypeOK'
  BY DEF TypeOK, WPCs, CPCs, Retire
<1>2. Ownership' /\ Handshake' /\ JobOwnership'
  BY Frame DEF Closing, Retire
<1>3. Closing'
  BY DEF TypeOK, Closing, Readers, Retire
<1> QED BY <1>1, <1>2, <1>3

\* Queueing for e.mu only keeps new readers out.
LEMMA CloseOnceStep == ASSUME IInv, NEW x \in Closers, CloseOnce(x) PROVE IInv'
<1> USE CallsAssumption
    DEF IInv, callVars, jobVars, compVars, workVars, closeVars
<1>1. TypeOK'
  BY DEF TypeOK, WPCs, CPCs, CloseOnce
<1>2. Ownership' /\ Handshake' /\ JobOwnership'
  BY Frame DEF Closing, CloseOnce
<1>3. Closing'
  BY DEF TypeOK, Closing, Readers, CloseOnce
<1> QED BY <1>1, <1>2, <1>3

\* Close enters when the last reader has left.
LEMMA CloseLockStep == ASSUME IInv, NEW x \in Closers, CloseLock(x) PROVE IInv'
<1> USE CallsAssumption
    DEF IInv, callVars, jobVars, compVars, workVars, closeVars
<1>1. TypeOK'
  BY DEF TypeOK, WPCs, CPCs, CloseLock
<1>2. Ownership' /\ Handshake' /\ JobOwnership'
  BY Frame DEF Closing, CloseLock
<1>3. Closing'
  BY DEF TypeOK, Closing, Readers, CloseLock
<1> QED BY <1>1, <1>2, <1>3

\* closed and quit are set together, with no reader inside.
LEMMA CloseSignalStep ==
  ASSUME IInv, NEW x \in Closers, CloseSignal(x) PROVE IInv'
<1> USE CallsAssumption
    DEF IInv, callVars, jobVars, compVars, workVars, closeVars
<1>1. TypeOK'
  BY DEF TypeOK, WPCs, CPCs, CloseSignal
<1>2. Ownership' /\ Handshake' /\ JobOwnership'
  BY Frame DEF Closing, CloseSignal
<1>3. Closing'
  BY DEF TypeOK, Closing, Readers, CloseSignal
<1> QED BY <1>1, <1>2, <1>3

\* The first Close returns.
LEMMA CloseDoneStep == ASSUME IInv, NEW x \in Closers, CloseDone(x) PROVE IInv'
<1> USE CallsAssumption
    DEF IInv, callVars, jobVars, compVars, workVars, closeVars
<1>1. TypeOK'
  BY DEF TypeOK, WPCs, CPCs, CloseDone
<1>2. Ownership' /\ Handshake' /\ JobOwnership'
  BY Frame DEF Closing, CloseDone
<1>3. Closing'
  BY DEF TypeOK, Closing, Readers, CloseDone
<1> QED BY <1>1, <1>2, <1>3

\* A later Close returns.
LEMMA CloseAgainStep ==
  ASSUME IInv, NEW x \in Closers, CloseAgain(x) PROVE IInv'
<1> USE CallsAssumption
    DEF IInv, callVars, jobVars, compVars, workVars, closeVars
<1>1. TypeOK'
  BY DEF TypeOK, WPCs, CPCs, CloseAgain
<1>2. Ownership' /\ Handshake' /\ JobOwnership'
  BY Frame DEF Closing, CloseAgain
<1>3. Closing'
  BY DEF TypeOK, Closing, Readers, CloseAgain
<1> QED BY <1>1, <1>2, <1>3

\* A stuttering step keeps the invariant.
LEMMA StutterStep == ASSUME IInv, UNCHANGED vars PROVE IInv'
<1> USE CallsAssumption
    DEF IInv, vars, callVars, jobVars, compVars, workVars, closeVars
<1>1. TypeOK'
  BY DEF TypeOK
<1>2. Ownership' /\ Handshake' /\ JobOwnership'
  BY Frame DEF Closing
<1>3. Closing'
  BY DEF TypeOK, Closing, Readers
<1> QED BY <1>1, <1>2, <1>3

\* The invariant holds of a new executor.
LEMMA InitInv == Init => IInv
<1> SUFFICES ASSUME Init PROVE IInv
  OBVIOUS
<1> USE CallsAssumption, CompsAssumption DEF IInv, Init
<1>1. TypeOK
  BY DEF TypeOK, PCs, WPCs, CPCs
<1>2. Ownership
  BY DEF Ownership, Holds, CallerHolds, WorkerHolds, Is
<1>3. Handshake
  BY DEF Handshake, WorkerHolds, Early, Working, Sent, Is
<1>4. JobOwnership
  BY DEF JobOwnership, WorkerHolds, Early, Working
<1>5. Closing
  BY DEF Closing, Readers
<1> QED BY <1>1, <1>2, <1>3, <1>4, <1>5

\* Every step of a call, the worker or a closer keeps the invariant.
LEMMA NextInv == IInv /\ [Next]_vars => IInv'
<1> SUFFICES ASSUME IInv, [Next]_vars PROVE IInv'
  OBVIOUS
<1>1. ASSUME NEW k \in Calls, Cancel(k) PROVE IInv'
  BY <1>1, CancelStep
<1>2. ASSUME NEW k \in Calls, Submit(k) PROVE IInv'
  BY <1>2, SubmitDeadStep, SubmitGetStep, SubmitLockStep, SubmitClosedStep,
     SubmitSendStep, SubmitGiveUpStep DEF Submit
<1>3. ASSUME NEW k \in Calls, Await(k) PROVE IInv'
  BY <1>3, ReceiveStep, ReceivedStep, CallerPutStep, AbandonStep,
     AbandonDrainStep DEF Await
<1>4. CASE Worker
  BY <1>4, TakeStep, RunOneStep, RecycleStep, SendResultStep, DeliveredStep,
     WorkerDrainStep, WorkerPutStep, QuitStep, DrainedStep, FinishThreadStep,
     UnlockThreadStep DEF Worker
<1>5. CASE Retire
  BY <1>5, RetireStep
<1>6. ASSUME NEW x \in Closers, Close(x) PROVE IInv'
  BY <1>6, CloseOnceStep, CloseLockStep, CloseSignalStep, CloseDoneStep,
     CloseAgainStep DEF Close
<1>7. CASE UNCHANGED vars
  BY <1>7, StutterStep
<1> QED BY <1>1, <1>2, <1>3, <1>4, <1>5, <1>6, <1>7 DEF Next

\* The handshake of delivered, received and abandon, and the lock around
\* submit's select, keep the inductive invariant whatever the number of calls,
\* completions and closers.
THEOREM HandshakeHolds == Spec => []IInv
BY InitInv, NextInv, PTL DEF Spec

----------------------------------------------------------------------------
(* The safety properties.                                                  *)

\* Every variable keeps its type.
THEOREM Typed == Spec => []TypeOK
<1>1. IInv => TypeOK
  BY DEF IInv
<1> QED BY <1>1, HandshakeHolds, PTL

\* A pooled completion is clean and nobody's.
THEOREM PoolStaysClean == Spec => []PoolClean
<1>1. IInv => PoolClean
  BY DEF IInv, PoolClean, Ownership, TypeOK, Is
<1> QED BY <1>1, HandshakeHolds, PTL

\* A call gets the outcome of its own job.
THEOREM ResultsGoHome == Spec => []OwnResult
<1>1. IInv => OwnResult
  BY DEF IInv, OwnResult, JobOwnership
<1> QED BY <1>1, HandshakeHolds, PTL

\* Neither the worker nor a caller blocks on a result channel outside select.
THEOREM ChannelsNeverBlock == Spec => []NeverStuck
<1>1. ASSUME IInv, wpc \in {"send", "drain"}
      PROVE  /\ wpc = "send" => chan[res[cur]] = NoCall
             /\ wpc = "drain" => chan[res[cur]] # NoCall
  <2> USE <1>1 DEF IInv
  <2>1. cur \in Calls /\ slot # cur
    BY DEF TypeOK, Closing
  <2>2. pc[cur] \in PCs
    BY <2>1 DEF TypeOK
  <2> QED
    BY <2>1, <2>2, CallsAssumption
       DEF PCs, Handshake, WorkerHolds, Early, Working, Sent, Is
<1>2. ASSUME IInv
      PROVE  \A k \in Calls : pc[k] = "drain" => chan[res[k]] # NoCall
  BY <1>2, CallsAssumption DEF IInv, Handshake, Is
<1>3. IInv => NeverStuck
  BY <1>1, <1>2 DEF NeverStuck
<1> QED BY <1>3, HandshakeHolds, PTL

\* A job goes back to its pool exactly once.
THEOREM JobsRecycledOnce == Spec => []RecycledOnce
<1>1. ASSUME IInv, NEW k \in Calls
      PROVE  /\ recycled[k] <= 1
             /\ pc[k] = "done" /\ ~WorkerHolds(k) => recycled[k] = 1
             /\ ret[k] = "result" => recycled[k] = 1
  <2> USE <1>1 DEF IInv
  <2>1. recycled[k] = 0 \/ recycled[k] = 1
    BY DEF JobOwnership
  <2>2. pc[k] = "done" /\ ~WorkerHolds(k) => recycled[k] = 1
    BY DEF JobOwnership, WorkerHolds, Early
  <2>3. ret[k] = "result" => recycled[k] = 1
    BY DEF JobOwnership, Early, Working
  <2> QED BY <2>1, <2>2, <2>3
<1>2. IInv => RecycledOnce
  BY <1>1 DEF RecycledOnce
<1> QED BY <1>2, HandshakeHolds, PTL

\* When DoJob or DoCtxWait returns, its job is over.
THEOREM WaitersOutliveJobs == Spec => []WaitMeansFinished
<1>1. IInv => WaitMeansFinished
  BY CallsAssumption
     DEF IInv, WaitMeansFinished, Handshake, Closing, WorkerHolds, Working,
         Sent
<1> QED BY <1>1, HandshakeHolds, PTL

\* Nothing is in flight once done is closed; submit's <-e.done branch is dead.
THEOREM ClosedIsQuiet == Spec => []DoneMeansQuiet
<1>1. IInv => DoneMeansQuiet
  BY DEF IInv, DoneMeansQuiet, Closing, TypeOK
<1> QED BY <1>1, HandshakeHolds, PTL

----------------------------------------------------------------------------
(* Retire.                                                                 *)

\* Before the first Close nobody closes, and only UnlockThread frees the thread.
Unclosed == /\ once = "free" => ~quit /\ \A x \in Closers : cpc[x] = "idle"
            /\ thread = "free" => wpc = "exited"

\* Retire came in time, and the worker has not passed finishThread without it.
Kept == retire /\ wpc # "unlock" /\ thread # "free"

\* What the calls do not touch.
LEMMA CallsKeep ==
  ASSUME NEW k \in Calls, Cancel(k) \/ Submit(k) \/ Await(k)
  PROVE  UNCHANGED <<wpc, thread, retire, cpc, once, quit>>
<1> USE DEF workVars, closeVars
<1>1. CASE Cancel(k) BY <1>1 DEF Cancel
<1>2. CASE Submit(k)
  BY <1>2 DEF Submit, SubmitDead, SubmitGet, SubmitLock, SubmitClosed, SubmitSend,
              SubmitGiveUp
<1>3. CASE Await(k)
  BY <1>3 DEF Await, Receive, Received, CallerPut, Abandon, AbandonDrain
<1> QED BY <1>1, <1>2, <1>3

\* What the worker does to the thread, step by step.
LEMMA WorkerKeeps ==
  ASSUME Worker
  PROVE  /\ UNCHANGED <<retire, cpc, once, quit>>
         /\ \/ wpc' # "unlock" /\ wpc # "exited" /\ thread' = thread
            \/ wpc' = "unlock" /\ wpc # "exited" /\ ~retire /\ thread' = thread
            \/ wpc' = "exited" /\ thread' = "quarantined"
            \/ wpc' = "exited" /\ wpc = "unlock" /\ thread' = "free"
<1> USE DEF closeVars, Loop
<1>1. CASE Take BY <1>1 DEF Take
<1>2. CASE RunOne BY <1>2 DEF RunOne
<1>3. CASE Recycle BY <1>3 DEF Recycle
<1>4. CASE SendResult BY <1>4 DEF SendResult
<1>5. CASE Delivered BY <1>5 DEF Delivered
<1>6. CASE WorkerDrain BY <1>6 DEF WorkerDrain
<1>7. CASE WorkerPut BY <1>7 DEF WorkerPut
<1>8. CASE Quit BY <1>8 DEF Quit
<1>9. CASE Drained BY <1>9 DEF Drained
<1>10. CASE FinishThread BY <1>10 DEF FinishThread
<1>11. CASE UnlockThread BY <1>11 DEF UnlockThread
<1> QED
  BY <1>1, <1>2, <1>3, <1>4, <1>5, <1>6, <1>7, <1>8, <1>9, <1>10, <1>11 DEF Worker

\* What Close does.
LEMMA CloseKeeps ==
  ASSUME Unclosed, NEW x \in Closers, Close(x)
  PROVE  UNCHANGED <<wpc, thread, retire>> /\ once' # "free"
<1> USE DEF workVars, Unclosed
<1>1. cpc[x] # "idle" => once # "free"
  OBVIOUS
<1>2. CASE CloseOnce(x) BY <1>2 DEF CloseOnce
<1>3. CASE CloseLock(x) BY <1>1, <1>3 DEF CloseLock
<1>4. CASE CloseSignal(x) BY <1>1, <1>4 DEF CloseSignal
<1>5. CASE CloseDone(x) BY <1>5 DEF CloseDone
<1>6. CASE CloseAgain(x) BY <1>6 DEF CloseAgain
<1> QED BY <1>2, <1>3, <1>4, <1>5, <1>6 DEF Close

\* Both are kept by every step.
LEMMA RetireNext ==
  ASSUME Unclosed, [Next]_vars
  PROVE  Unclosed' /\ (Kept => Kept')
<1> USE DEF Unclosed, Kept
<1>1. ASSUME NEW k \in Calls, Cancel(k) \/ Submit(k) \/ Await(k)
      PROVE  Unclosed' /\ (Kept => Kept')
  BY <1>1, CallsKeep
<1>2. CASE Worker BY <1>2, WorkerKeeps
<1>3. CASE Retire BY <1>3 DEF Retire, workVars, closeVars
<1>4. ASSUME NEW x \in Closers, Close(x) PROVE Unclosed' /\ (Kept => Kept')
  BY <1>4, CloseKeeps
<1>5. CASE UNCHANGED vars BY <1>5 DEF vars, workVars, closeVars
<1> QED BY <1>1, <1>2, <1>3, <1>4, <1>5 DEF Next

\* A thread retired before the first Close is never given back to the scheduler.
THEOREM RetiredStaysLocked == Spec => RetireHonoured
<1>1. Init => Unclosed BY DEF Init, Unclosed
<1>2. Unclosed /\ [Next]_vars => Unclosed' /\ (Kept => Kept') BY RetireNext
<1>3. IInv /\ Unclosed /\ retire /\ once = "free" => Kept
  BY DEF IInv, Closing, Unclosed, Kept
<1>4. Kept => thread # "free" BY DEF Kept
<1> QED BY <1>1, <1>2, <1>3, <1>4, HandshakeHolds, PTL DEF Spec, RetireHonoured

----------------------------------------------------------------------------
(* The executor implements TaskService: under the refinement mapping of    *)
(* Executor (phase, reply, mode) every step of the executor is a step of   *)
(* the service or leaves it unchanged.                                     *)

\* What the abstract phase of a call is, case by case.
LEMMA PhaseOf ==
  ASSUME IInv, NEW k \in Calls
  PROVE  /\ phase[k] = "new" <=> recycled[k] = 0 /\ ~WorkerHolds(k)
         /\ phase[k] = "accepted" <=> slot = k
         /\ phase[k] = "running" <=> cur = k /\ wpc = "run"
         /\ phase[k] = "ran" <=> cur = k /\ wpc = "recycle"
         /\ phase[k] = "released" <=> recycled[k] = 1
  BY CallsAssumption
     DEF IInv, Closing, JobOwnership, Handshake, phase, WorkerHolds, Early

\* A step that changes neither a job nor a reply nor the mode is a stutter.
LEMMA Quiet ==
  ASSUME UNCHANGED <<pc, ret, got, jobVars, slot, cur, closed, done>>
  PROVE  UNCHANGED Service!svars
  BY DEF Service!svars, phase, reply, mode, WorkerHolds, jobVars

\* A step that concerns the job of call k alone moves only k's phase.
LEMMA PhaseStep ==
  ASSUME NEW k \in Calls, NEW v, phase'[k] = v,
         \A j \in Calls \ {k} : /\ recycled'[j] = recycled[j]
                                /\ j \in ran' <=> j \in ran
                                /\ slot' = j <=> slot = j
                                /\ cur' = j <=> cur = j
  PROVE  phase' = [phase EXCEPT ![k] = v]
<1>1. \A j \in Calls \ {k} : phase'[j] = phase[j]
  BY DEF phase, WorkerHolds
<1>2. phase = [j \in Calls |-> phase[j]]
  BY DEF phase
<1>3. phase' = [j \in Calls |-> phase'[j]]
  BY DEF phase
<1> HIDE DEF phase
<1> QED BY <1>1, <1>2, <1>3

\* The three refusals of submit are Reject.
LEMMA RejectSteps ==
  ASSUME IInv, IInv', NEW k \in Calls,
         SubmitDead(k) \/ SubmitClosed(k) \/ SubmitGiveUp(k)
  PROVE  Service!Reject(k)
<1> USE CallsAssumption DEF callVars, jobVars, compVars, workVars, closeVars
<1>1. pc[k] # "done" /\ recycled[k] = 0 /\ ~WorkerHolds(k)
  BY DEF IInv, JobOwnership, Handshake, Early, SubmitDead, SubmitClosed,
         SubmitGiveUp
<1>2. phase[k] = "new" /\ reply[k] = "none"
  BY <1>1, PhaseOf DEF reply
<1>3. phase' = [phase EXCEPT ![k] = "released"]
  <2>1. recycled' = [recycled EXCEPT ![k] = @ + 1] /\ recycled'[k] = 1
    BY <1>1 DEF IInv, TypeOK, SubmitDead, SubmitClosed, SubmitGiveUp, Refuse
  <2>2. phase'[k] = "released"
    BY <2>1 DEF phase
  <2>3. UNCHANGED <<ran, slot, cur>>
    BY DEF SubmitDead, SubmitClosed, SubmitGiveUp
  <2> QED BY <2>1, <2>2, <2>3, PhaseStep DEF IInv, TypeOK
<1>4. mode' = mode
  BY DEF mode, SubmitDead, SubmitClosed, SubmitGiveUp
<1>5. CASE SubmitDead(k) \/ SubmitGiveUp(k)
  <2>1. reply' = [reply EXCEPT ![k] = "ctx"]
    BY <1>5, ZenonT(60) DEF IInv, TypeOK, SubmitDead, SubmitGiveUp, Refuse, Return, reply
  <2> QED BY <2>1, <1>2, <1>3, <1>4 DEF Service!Reject
<1>6. CASE SubmitClosed(k)
  <2>1. reply' = [reply EXCEPT ![k] = "closed"]
    BY <1>6 DEF IInv, TypeOK, SubmitClosed, Refuse, Return, reply
  <2>2. mode # "open"
    BY <1>6 DEF SubmitClosed, mode
  <2> QED BY <2>1, <2>2, <1>2, <1>3, <1>4 DEF Service!Reject
<1> QED BY <1>5, <1>6

\* The send of a task is Accept.
LEMMA AcceptStep ==
  ASSUME IInv, IInv', NEW k \in Calls, SubmitSend(k)
  PROVE  Service!Accept(k)
<1> USE CallsAssumption DEF callVars, jobVars, compVars, workVars, closeVars
<1>1. pc[k] = "send" /\ recycled[k] = 0 /\ ~WorkerHolds(k)
  BY DEF IInv, JobOwnership, Handshake, Early, SubmitSend
<1>2. phase[k] = "new" /\ reply[k] = "none"
  BY <1>1, PhaseOf DEF reply
<1>3. mode = "open" /\ mode' = mode
  BY DEF IInv, Closing, Readers, mode, SubmitSend
<1>4. phase' = [phase EXCEPT ![k] = "accepted"]
  <2>1. phase'[k] = "accepted"
    BY <1>1 DEF phase, SubmitSend, IInv, JobOwnership, Early, WorkerHolds
  <2> QED BY <2>1, PhaseStep DEF SubmitSend
<1>5. reply' = reply
  BY <1>1 DEF IInv, TypeOK, SubmitSend, reply
<1> QED BY <1>2, <1>3, <1>4, <1>5 DEF Service!Accept

\* Taking, running and recycling a task are Start, Finish and Release.
LEMMA WorkSteps ==
  ASSUME IInv, IInv', Take \/ RunOne \/ Recycle
  PROVE  \E k \in Calls : \/ Service!Start(k) \/ Service!Finish(k)
                          \/ Service!Release(k)
<1> USE CallsAssumption DEF callVars, jobVars, compVars, workVars, closeVars
<1>1. UNCHANGED <<reply, mode>>
  <2>1. UNCHANGED <<pc, ret, got, closed, done>>
    BY DEF Take, RunOne, Recycle
  <2> QED BY <2>1 DEF reply, mode
<1>2. CASE Take
  <2>1. slot \in Calls /\ cur = NoCall
    BY <1>2 DEF IInv, TypeOK, Closing, Take
  <2>2. phase[slot] = "accepted" /\ \A j \in Calls : phase[j] # "running"
    BY <2>1, PhaseOf
  <2>3. phase'[slot] = "running"
    <3>1. recycled[slot] = 0 /\ slot \notin ran
      BY <2>1 DEF IInv, JobOwnership
    <3>2. /\ recycled'[slot] = 0 /\ slot \notin ran'
          /\ cur' = slot /\ slot' # slot
      BY <1>2, <2>1, <3>1, CallsAssumption DEF Take
    <3> QED BY <2>1, <3>2 DEF phase, WorkerHolds
  <2>4. phase' = [phase EXCEPT ![slot] = "running"]
    BY <1>2, <2>1, <2>3, PhaseStep DEF Take
  <2> QED BY <1>1, <2>1, <2>2, <2>4 DEF Service!Start
<1>3. CASE RunOne
  <2>1. cur \in Calls /\ recycled[cur] = 0
    BY <1>3 DEF IInv, TypeOK, Closing, JobOwnership, RunOne
  <2>2. phase[cur] = "running"
    BY <1>3, <2>1, PhaseOf DEF RunOne
  <2>3. phase'[cur] = "ran"
    BY <1>3, <2>1 DEF phase, RunOne
  <2>4. phase' = [phase EXCEPT ![cur] = "ran"]
    BY <1>3, <2>1, <2>3, PhaseStep DEF RunOne
  <2> QED BY <1>1, <2>1, <2>2, <2>4 DEF Service!Finish
<1>4. CASE Recycle
  <2>1. cur \in Calls /\ recycled[cur] = 0
    BY <1>4 DEF IInv, TypeOK, Closing, JobOwnership, Recycle
  <2>2. phase[cur] = "ran"
    BY <1>4, <2>1, PhaseOf DEF Recycle
  <2>3. recycled'[cur] = 1
    BY <1>4, <2>1 DEF IInv, TypeOK, Recycle
  <2>4. phase'[cur] = "released"
    BY <2>3, <2>1 DEF phase
  <2>5. phase' = [phase EXCEPT ![cur] = "released"]
    BY <1>4, <2>1, <2>4, PhaseStep DEF Recycle, IInv, TypeOK
  <2> QED BY <1>1, <2>1, <2>2, <2>5 DEF Service!Release
<1> QED BY <1>2, <1>3, <1>4

\* A call that returns its result is Answer.
LEMMA AnswerSteps ==
  ASSUME IInv, IInv', NEW k \in Calls,
         \/ Received(k) /\ pc'[k] = "done"
         \/ CallerPut(k)
  PROVE  Service!Answer(k)
<1> USE CallsAssumption DEF callVars, jobVars, compVars, workVars, closeVars
<1>1. /\ pc[k] \in {"received", "put"} /\ pc' = [pc EXCEPT ![k] = "done"]
      /\ ret' = [ret EXCEPT ![k] = "result"]
      /\ UNCHANGED <<got, recycled, ran, slot, cur, closed, done>>
  BY DEF IInv, TypeOK, Received, CallerPut, Return
<1>2. got[k] = k /\ recycled[k] = 1
  BY <1>1 DEF IInv, JobOwnership, Early, Working
<1>3. phase[k] = "released" /\ reply[k] = "none"
  BY <1>1, <1>2, PhaseOf DEF reply
<1>4. UNCHANGED <<phase, mode>>
  BY <1>1 DEF phase, mode, WorkerHolds
<1>5. reply' = [reply EXCEPT ![k] = "result"]
  BY <1>1, <1>2 DEF IInv, TypeOK, reply
<1> QED BY <1>3, <1>4, <1>5 DEF Service!Answer

\* A call that returns ctx.Err() after submission is Abandon.
LEMMA AbandonSteps ==
  ASSUME IInv, IInv', NEW k \in Calls,
         \/ Abandon(k) /\ pc'[k] = "done"
         \/ AbandonDrain(k)
  PROVE  Service!Abandon(k)
<1> USE CallsAssumption DEF callVars, jobVars, compVars, workVars, closeVars
<1>1. /\ pc[k] \in {"wait", "drain"} /\ pc' = [pc EXCEPT ![k] = "done"]
      /\ ret' = [ret EXCEPT ![k] = "ctx"]
      /\ UNCHANGED <<got, recycled, ran, slot, cur, closed, done>>
  BY DEF IInv, TypeOK, Abandon, AbandonDrain, Return
<1>2. k \notin WaitCalls
  BY DEF IInv, Handshake, Abandon, AbandonDrain
<1>3. phase[k] # "new" /\ reply[k] = "none"
  BY <1>1, PhaseOf DEF IInv, JobOwnership, Early, WorkerHolds, reply
<1>4. UNCHANGED <<phase, mode>>
  BY <1>1 DEF phase, mode, WorkerHolds
<1>5. reply' = [reply EXCEPT ![k] = "ctx"]
  BY <1>1 DEF IInv, TypeOK, reply
<1> QED BY <1>2, <1>3, <1>4, <1>5 DEF Service!Abandon

\* Closing done is Stop: nothing accepted is left.
LEMMA StopSteps ==
  ASSUME IInv, IInv', FinishThread \/ UnlockThread
  PROVE  Service!Stop \/ UNCHANGED Service!svars
<1> USE DEF callVars, jobVars, compVars, workVars, closeVars
<1>1. /\ UNCHANGED <<pc, ret, got, recycled, ran, slot, cur, closed>>
      /\ wpc \in {"finish", "unlock"}
  BY DEF FinishThread, UnlockThread
<1>2. UNCHANGED <<phase, reply>>
  BY <1>1 DEF phase, reply, WorkerHolds
<1>3. CASE done' = done
  BY <1>1, <1>2, <1>3 DEF mode, Service!svars
<1>4. CASE done' # done
  <2>1. ~done /\ done' /\ closed /\ slot = NoCall /\ cur = NoCall
    BY <1>1, <1>4 DEF IInv, TypeOK, Closing
  <2>2. mode = "closed" /\ mode' = "stopped"
    BY <2>1 DEF mode
  <2>3. \A k \in Calls : phase[k] \notin {"accepted", "running", "ran"}
    BY <2>1, PhaseOf, CallsAssumption
  <2> QED BY <1>2, <2>2, <2>3 DEF Service!Stop
<1> QED BY <1>3, <1>4

\* Setting closed is Shut.
LEMMA ShutStep ==
  ASSUME IInv, IInv', NEW x \in Closers, CloseSignal(x)
  PROVE  Service!Shut \/ UNCHANGED Service!svars
<1> USE DEF callVars, jobVars, compVars, workVars, closeVars
<1>1. /\ UNCHANGED <<pc, ret, got, recycled, ran, slot, cur, done>>
      /\ closed'
  BY DEF CloseSignal
<1>2. UNCHANGED <<phase, reply>>
  BY <1>1 DEF phase, reply, WorkerHolds
<1>3. ~closed => ~done
  BY DEF IInv, Closing
<1> QED BY <1>1, <1>2, <1>3 DEF mode, Service!Shut, Service!svars

----------------------------------------------------------------------------
\* Every step of the executor is a step of the service or a stutter.
LEMMA StepRefines ==
  IInv /\ IInv' /\ [Next]_vars => [Service!SNext]_Service!svars
<1> SUFFICES ASSUME IInv, IInv', [Next]_vars
             PROVE  Service!SNext \/ UNCHANGED Service!svars
  OBVIOUS
<1> USE DEF callVars, jobVars, compVars, workVars, closeVars
<1>1. ASSUME NEW k \in Calls, Cancel(k) PROVE UNCHANGED Service!svars
  BY <1>1, Quiet DEF Cancel
<1>2. ASSUME NEW k \in Calls, Submit(k)
      PROVE  Service!SNext \/ UNCHANGED Service!svars
  <2>1. CASE SubmitDead(k) \/ SubmitClosed(k) \/ SubmitGiveUp(k)
    BY <2>1, RejectSteps DEF Service!SNext
  <2>2. CASE SubmitSend(k)
    BY <2>2, AcceptStep DEF Service!SNext
  <2>3. CASE SubmitGet(k) \/ SubmitLock(k)
    <3>1. UNCHANGED <<ret, got, jobVars, slot, cur, closed, done>>
      BY <2>3 DEF SubmitGet, SubmitLock
    <3>2. /\ pc[k] # "done" /\ pc'[k] # "done"
          /\ \A j \in Calls \ {k} : pc'[j] = pc[j]
      BY <2>3 DEF IInv, TypeOK, SubmitGet, SubmitLock
    <3>3. UNCHANGED <<phase, mode>>
      BY <3>1 DEF phase, mode, WorkerHolds
    <3>4. \A j \in Calls : reply'[j] = reply[j]
      BY <3>1, <3>2 DEF reply
    <3>5. reply' = reply
      BY <3>4 DEF reply
    <3> QED BY <3>3, <3>5 DEF Service!svars
  <2> QED BY <1>2, <2>1, <2>2, <2>3 DEF Submit
<1>3. ASSUME NEW k \in Calls, Await(k)
      PROVE  Service!SNext \/ UNCHANGED Service!svars
  <2>1. CASE (Received(k) /\ pc'[k] = "done") \/ CallerPut(k)
    BY <2>1, AnswerSteps DEF Service!SNext
  <2>2. CASE (Abandon(k) /\ pc'[k] = "done") \/ AbandonDrain(k)
    BY <2>2, AbandonSteps DEF Service!SNext
  <2>3. CASE \/ Receive(k)
             \/ Received(k) /\ pc'[k] # "done"
             \/ Abandon(k) /\ pc'[k] # "done"
    <3>1. UNCHANGED <<ret, recycled, ran, slot, cur, closed, done>>
      BY <2>3 DEF IInv, TypeOK, Receive, Received, Abandon, Return
    <3>2. /\ pc[k] # "done" /\ pc'[k] # "done"
          /\ \A j \in Calls \ {k} : pc'[j] = pc[j] /\ got'[j] = got[j]
      BY <2>3 DEF IInv, TypeOK, Receive, Received, Abandon, Return
    <3>3. UNCHANGED <<phase, mode>>
      BY <3>1 DEF phase, mode, WorkerHolds
    <3>4. \A j \in Calls : reply'[j] = reply[j]
      BY <3>1, <3>2 DEF reply
    <3>5. reply' = reply
      BY <3>4 DEF reply
    <3> QED BY <3>3, <3>5 DEF Service!svars
  <2> QED BY <1>3, <2>1, <2>2, <2>3 DEF Await
<1>4. CASE Worker
  <2>1. CASE Take \/ RunOne \/ Recycle
    BY <2>1, WorkSteps DEF Service!SNext
  <2>2. CASE FinishThread \/ UnlockThread
    BY <2>2, StopSteps DEF Service!SNext
  <2>3. CASE SendResult \/ WorkerDrain \/ Quit \/ Drained
    BY <2>3, Quiet DEF SendResult, WorkerDrain, Quit, Drained
  <2>4. CASE Delivered \/ WorkerPut
    <3>1. UNCHANGED <<pc, ret, got, recycled, ran, slot, closed, done>>
      BY <2>4 DEF Delivered, WorkerPut
    <3>2. cur' = cur \/ (cur' = NoCall /\ wpc \in {"deliver", "put"})
      BY <2>4 DEF Delivered, WorkerPut, Loop
    <3>3. \A j \in Calls : cur = j /\ cur' # j => recycled[j] = 1
      BY <3>2, CallsAssumption
         DEF IInv, JobOwnership, Handshake, Closing, WorkerHolds, Early
    <3>4. \A j \in Calls : cur' = j => cur = j
      BY <3>2, CallsAssumption
    <3>5. phase' = phase
      BY <3>1, <3>3, <3>4 DEF phase, WorkerHolds
    <3> QED BY <3>1, <3>5 DEF Service!svars, reply, mode
  <2> QED BY <1>4, <2>1, <2>2, <2>3, <2>4 DEF Worker
<1>5. CASE Retire
  BY <1>5, Quiet DEF Retire
<1>6. ASSUME NEW x \in Closers, Close(x)
      PROVE  Service!SNext \/ UNCHANGED Service!svars
  <2>1. CASE CloseSignal(x)
    BY <2>1, ShutStep DEF Service!SNext
  <2>2. CASE CloseOnce(x) \/ CloseLock(x) \/ CloseDone(x) \/ CloseAgain(x)
    BY <2>2, Quiet DEF CloseOnce, CloseLock, CloseDone, CloseAgain
  <2> QED BY <1>6, <2>1, <2>2 DEF Close
<1>7. CASE UNCHANGED vars
  BY <1>7, Quiet DEF vars
<1> QED BY <1>1, <1>2, <1>3, <1>4, <1>5, <1>6, <1>7 DEF Next

\* A new executor is a new service.
LEMMA InitRefines == Init => Service!SInit
<1> SUFFICES ASSUME Init PROVE Service!SInit
  OBVIOUS
<1>1. phase = [k \in Calls |-> "new"]
  BY CallsAssumption DEF Init, phase, WorkerHolds
<1>2. reply = [k \in Calls |-> "none"] /\ mode = "open"
  BY DEF Init, reply, mode
<1> QED BY <1>1, <1>2 DEF Service!SInit

\* The executor keeps the service's promise for every set of calls: each
\* accepted job runs once, alone and before the thread stops, and each call
\* hears of its own job only.
THEOREM ExecutorImplementsService == Spec => ImplementsService
BY InitRefines, StepRefines, HandshakeHolds, PTL
   DEF Spec, ImplementsService, Service!SSpec
=============================================================================
