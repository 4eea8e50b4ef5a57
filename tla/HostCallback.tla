---------------------------- MODULE HostCallback ----------------------------
(***************************************************************************)
(* internal/hostcb and cuda/hostfunc.go: Go closures called back from the  *)
(* driver's threads.  One C trampoline serves the process; the user data   *)
(* of a callback is a key into a registry of closures.  A launch registers *)
(* its closure, enqueues the key on its stream and takes the key out again *)
(* if that fails; the driver calls the trampoline once for every key it    *)
(* accepted, in stream order, possibly before the launch has returned.     *)
(* Context.Close does not drain the streams: what is queued when it gives  *)
(* up the primary context may still be called, or never.                   *)
(*                                                                         *)
(* The shards of the registry are one map here: a key is in one shard, and *)
(* each access is one critical section of that shard.                      *)
(***************************************************************************)
EXTENDS Naturals, Sequences, FiniteSets

CONSTANTS Launches,  \* calls of LaunchHostFunc
          Streams, StreamOf, Contexts, ContextOf, NoLaunch

ASSUME HostCallbackAssumption ==
  /\ IsFiniteSet(Launches)
  /\ StreamOf \in [Launches -> Streams] /\ NoLaunch \notin Launches
  /\ ContextOf \in [Streams -> Contexts]

VARIABLES pc,        \* where each launch stands
          key,       \* the key a launch was given, 0 before
          nextKey,
          pending,   \* the registry: the launch whose closure a key holds
          accepted,  \* launches the driver accepted
          queue,     \* the keys accepted on each stream, in order
          firing,    \* the closure the driver thread of a stream has taken out
          ran,       \* how often each closure was run
          closed     \* contexts that Close has released

vars == <<pc, key, nextKey, pending, accepted, queue, firing, ran, closed>>

Keys == 1 .. Cardinality(Launches)  \* the keys this many launches can draw
Registered == {k \in Keys : pending[k] # NoLaunch}

Init == /\ pc = [l \in Launches |-> "start"]
        /\ key = [l \in Launches |-> 0]
        /\ nextKey = 0
        /\ pending = [k \in Keys |-> NoLaunch]
        /\ accepted = {}
        /\ queue = [s \in Streams |-> <<>>]
        /\ firing = [s \in Streams |-> NoLaunch]
        /\ ran = [l \in Launches |-> 0]
        /\ closed = {}

Goto(l, p) == pc' = [pc EXCEPT ![l] = p]

ContextClosed(s) == ContextOf[s] \in closed

----------------------------------------------------------------------------
(* LaunchHostFunc.                                                         *)

\* A nil function or a closed stream: nothing is registered.
Refused(l) == /\ pc[l] = "start" /\ Goto(l, "failed")
              /\ UNCHANGED <<key, nextKey, pending, accepted, queue, firing, ran, closed>>

\* The key is one more than the number of closures registered.
BugKeyFromSize(l) ==
  /\ pc[l] = "start" /\ Goto(l, "keyed")
  /\ key' = [key EXCEPT ![l] = Cardinality(Registered) + 1]
  /\ UNCHANGED <<nextKey, pending, accepted, queue, firing, ran, closed>>

\* Register: nextKey.Add(1) ...
DrawKey(l) == /\ pc[l] = "start" /\ Goto(l, "keyed")
              /\ nextKey' = nextKey + 1
              /\ key' = [key EXCEPT ![l] = nextKey + 1]
              /\ UNCHANGED <<pending, accepted, queue, firing, ran, closed>>

\* ... and the entry in the key's shard.
Store(l) == /\ pc[l] = "keyed" /\ Goto(l, "enqueue")
            /\ pending' = [pending EXCEPT ![key[l]] = l]
            /\ UNCHANGED <<key, nextKey, accepted, queue, firing, ran, closed>>

\* The key is taken out whether or not the enqueue failed.
BugAlwaysUnregister(l) ==
  /\ pc[l] = "enqueue" /\ ~ContextClosed(StreamOf[l]) /\ Goto(l, "unregister")
  /\ accepted' = accepted \cup {l}
  /\ queue' = [queue EXCEPT ![StreamOf[l]] = Append(@, key[l])]
  /\ UNCHANGED <<key, nextKey, pending, firing, ran, closed>>

\* doWait reaches cuLaunchHostFunc on the command executor, which accepts the
\* callback; opMu keeps Close out meanwhile.
Enqueue(l) == /\ pc[l] = "enqueue" /\ ~ContextClosed(StreamOf[l])
              /\ Goto(l, "returned")
              /\ accepted' = accepted \cup {l}
              /\ queue' = [queue EXCEPT ![StreamOf[l]] = Append(@, key[l])]
              /\ UNCHANGED <<key, nextKey, pending, firing, ran, closed>>

\* A failed enqueue returns without Unregister.
BugEnqueueFailsLeaks(l) ==
  /\ pc[l] = "enqueue" /\ Goto(l, "failed")
  /\ UNCHANGED <<key, nextKey, pending, accepted, queue, firing, ran, closed>>

\* The driver refuses it, or doWait does because the context is closed.
EnqueueFails(l) ==
  /\ pc[l] = "enqueue" /\ Goto(l, "unregister")
  /\ UNCHANGED <<key, nextKey, pending, accepted, queue, firing, ran, closed>>

Unregister(l) == /\ pc[l] = "unregister" /\ Goto(l, "failed")
                 /\ pending' = [pending EXCEPT ![key[l]] = NoLaunch]
                 /\ UNCHANGED <<key, nextKey, accepted, queue, firing, ran, closed>>

----------------------------------------------------------------------------
(* The driver's thread for a stream: the trampoline and Invoke.            *)

\* The closure is taken out of the registry under the shard's lock.  A key
\* that is not there is ignored.
InvokeTake(s) == /\ queue[s] # <<>> /\ firing[s] = NoLaunch
                 /\ LET k == Head(queue[s])
                    IN  /\ firing' = [firing EXCEPT ![s] = pending[k]]
                        /\ pending' = [pending EXCEPT ![k] = NoLaunch]
                 /\ queue' = [queue EXCEPT ![s] = Tail(@)]
                 /\ UNCHANGED <<pc, key, nextKey, accepted, ran, closed>>

\* fn runs outside the lock; a panic in it is swallowed and counts as a run.
InvokeRun(s) == /\ firing[s] # NoLaunch
                /\ ran' = [ran EXCEPT ![firing[s]] = @ + 1]
                /\ firing' = [firing EXCEPT ![s] = NoLaunch]
                /\ UNCHANGED <<pc, key, nextKey, pending, accepted, queue, closed>>

----------------------------------------------------------------------------
\* A Close that releases the primary context.  It neither looks at the queues
\* of the streams nor at the registry.  A Close that fails changes nothing.
CloseContext(c) ==
  /\ c \notin closed /\ closed' = closed \cup {c}
  /\ UNCHANGED <<pc, key, nextKey, pending, accepted, queue, firing, ran>>

----------------------------------------------------------------------------
Launch(l) == Refused(l) \/ DrawKey(l) \/ Store(l) \/ Enqueue(l)
               \/ EnqueueFails(l) \/ Unregister(l)

Driver(s) == InvokeTake(s) \/ InvokeRun(s)

Next == \/ \E l \in Launches : Launch(l)
        \/ \E s \in Streams : Driver(s)
        \/ \E c \in Contexts : CloseContext(c)

Spec == Init /\ [][Next]_vars

\* A launch once made goes on, and a closure taken out of the registry is run.
\* The driver gets to the callbacks of a stream whose earlier work ends, but
\* only for as long as the stream's context is open: nothing is assumed about
\* what a closed context still has queued.  Nobody needs to close a context.
FairSpec ==
  /\ Spec
  /\ \A l \in Launches : WF_vars(pc[l] # "start" /\ Launch(l))
  /\ \A s \in Streams : /\ WF_vars(~ContextClosed(s) /\ InvokeTake(s))
                        /\ WF_vars(InvokeRun(s))

----------------------------------------------------------------------------
\* Types.  As many launches draw at most as many keys (Register), so a key of
\* a closure is always in the range of the registry.
TypeOK == /\ pc \in [Launches -> {"start", "keyed", "enqueue", "unregister",
                                  "returned", "failed"}]
          /\ key \in [Launches -> Keys \cup {0}] /\ nextKey \in Keys \cup {0}
          /\ pending \in [Keys -> Launches \cup {NoLaunch}]
          /\ accepted \subseteq Launches
          /\ queue \in [Streams -> Seq(Keys)]
          /\ firing \in [Streams -> Launches \cup {NoLaunch}]
          /\ ran \in [Launches -> Nat]
          /\ closed \subseteq Contexts

Waiting(l) == \E i \in DOMAIN queue[StreamOf[l]] :
                queue[StreamOf[l]][i] = key[l]
Firing(l) == \E s \in Streams : firing[s] = l

\* Exactly once: a closure has run, is running or is still to be called back,
\* and only one of these, if the driver accepted it; a closure it did not
\* accept is never run.
ExactlyOnce ==
  \A l \in Launches :
    ran[l] + (IF Firing(l) THEN 1 ELSE 0) + (IF Waiting(l) THEN 1 ELSE 0)
      = IF l \in accepted THEN 1 ELSE 0

\* The registry holds the closures of launches in progress and of callbacks
\* still to come, and no others: a failed enqueue leaks nothing, and no key
\* the driver still has is missing, also after a Close, when the callbacks
\* that never come keep their closures.
RegistryExact ==
  /\ TypeOK
  /\ \A l \in Launches :
       (\E k \in Keys : pending[k] = l)
         <=> pc[l] \in {"enqueue", "unregister"} \/ Waiting(l)

\* A closure whose key the driver accepted is eventually run by Invoke, unless
\* its context is closed first ("they may never run", docs/api/cuda.md): it is
\* not taken out of the registry before its callback comes, and no other
\* stream, launch or closed context keeps it from being called.
AcceptedRuns ==
  \A l \in Launches :
    l \in accepted ~> ran[l] = 1 \/ ContextClosed(StreamOf[l])
=============================================================================
