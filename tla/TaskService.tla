---------------------------- MODULE TaskService ----------------------------
(***************************************************************************)
(* What internal/executor promises to the rest of gocudrv, without its     *)
(* channels, completions and pool: a serial service that runs each         *)
(* accepted job exactly once, hands a job back to its pool exactly once    *)
(* and before the submitter hears the result, tells each submitter the     *)
(* outcome of its own job and of no other, and stops only when everything  *)
(* it accepted has run.                                                    *)
(***************************************************************************)
CONSTANTS Calls,      \* calls of Do, DoCtx, DoCtxWait, DoJob and DoJobCtx
          WaitCalls   \* those of DoCtxWait and DoJob

VARIABLES phase,      \* phase[k]: how far the job of call k has come
          reply,      \* reply[k]: what call k returned, "none" before
          mode        \* the executor is "open", "closed" or "stopped"

svars == <<phase, reply, mode>>

SInit == /\ phase = [k \in Calls |-> "new"]
         /\ reply = [k \in Calls |-> "none"]
         /\ mode = "open"

\* The service takes responsibility for the job of k.
Accept(k) == /\ mode = "open"
             /\ phase[k] = "new" /\ reply[k] = "none"
             /\ phase' = [phase EXCEPT ![k] = "accepted"]
             /\ UNCHANGED <<reply, mode>>

\* A call refused before acceptance gives its job back and says why.
Reject(k) == /\ phase[k] = "new" /\ reply[k] = "none"
             /\ phase' = [phase EXCEPT ![k] = "released"]
             /\ \/ reply' = [reply EXCEPT ![k] = "ctx"]
                \/ mode # "open" /\ reply' = [reply EXCEPT ![k] = "closed"]
             /\ UNCHANGED mode

\* One pinned thread: a job starts when no other is running.
Start(k) == /\ phase[k] = "accepted"
            /\ \A j \in Calls : phase[j] # "running"
            /\ phase' = [phase EXCEPT ![k] = "running"]
            /\ UNCHANGED <<reply, mode>>

Finish(k) == /\ phase[k] = "running"
             /\ phase' = [phase EXCEPT ![k] = "ran"]
             /\ UNCHANGED <<reply, mode>>

Release(k) == /\ phase[k] = "ran"
              /\ phase' = [phase EXCEPT ![k] = "released"]
              /\ UNCHANGED <<reply, mode>>

\* The outcome reaches the submitter only after the job was handed back.
Answer(k) == /\ phase[k] = "released" /\ reply[k] = "none"
             /\ reply' = [reply EXCEPT ![k] = "result"]
             /\ UNCHANGED <<phase, mode>>

\* Only a call that may abandon its wait returns while its job is in flight.
Abandon(k) == /\ k \notin WaitCalls
              /\ phase[k] # "new" /\ reply[k] = "none"
              /\ reply' = [reply EXCEPT ![k] = "ctx"]
              /\ UNCHANGED <<phase, mode>>

Shut == /\ mode = "open" /\ mode' = "closed"
        /\ UNCHANGED <<phase, reply>>

\* The thread stops with no accepted job left behind.
Stop == /\ mode = "closed" /\ mode' = "stopped"
        /\ \A k \in Calls : phase[k] \notin {"accepted", "running", "ran"}
        /\ UNCHANGED <<phase, reply>>

SNext == \/ \E k \in Calls : \/ Accept(k) \/ Reject(k) \/ Start(k) \/ Finish(k)
                             \/ Release(k) \/ Answer(k) \/ Abandon(k)
         \/ Shut
         \/ Stop

SSpec == SInit /\ [][SNext]_svars
=============================================================================
