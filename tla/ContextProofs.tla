---------------------------- MODULE ContextProofs ----------------------------
(***************************************************************************)
(* The pinned threads of a Context, for any number of waits, destroys,     *)
(* copies, commands, lanes, threads and Closes.  The argument: opMu keeps  *)
(* the calls at work and a Close apart, so a call finds the threads as it  *)
(* left them; each thread has one role; each accepted task is on the       *)
(* thread its call sent it to; and a destroy drains every lane on which a  *)
(* wait for its handle may still be.                                       *)
(***************************************************************************)
EXTENDS Context, FiniteSetTheorems, WellFoundedInduction, TLAPS

WaitPCs    == {"start", "acquire", "mutex", "create", "count", "send", "await",
               "done"}
DestroyPCs == {"start", "queued", "locked", "check", "barrier", "noop",
               "destroy", "destroying", "done"}
CopyPCs    == {"start", "copy", "submit", "copying", "done"}
CommandPCs == {"start", "order", "running", "done"}

\* Where a call has handed its task to a thread.
Sent == {"await", "noop", "destroying", "copying", "running"}

Members(s) == {s[i] : i \in DOMAIN s}

Distinct(s) == \A i, j \in DOMAIN s : s[i] = s[j] => i = j

\* Each kind of call keeps to its own steps.
Places == /\ \A w \in Waits : pc[w] \in WaitPCs
          /\ \A d \in Destroys : pc[d] \in DestroyPCs
          /\ \A k \in Copies : pc[k] \in CopyPCs
          /\ \A k \in Commands : pc[k] \in CommandPCs

\* opMu: a call at work has an open context with all its threads, and a Close
\* at work has no call beside it.
Locking ==
  /\ \A k \in InOp : Usable /\ cl \in {"idle", "lock"}
  /\ cl \in {"lanes", "command"} => Usable /\ waitLanes = <<>>
  /\ cl = "command" => copyExec = NoThread
  /\ cl # "lanes" => leaving = <<>>
  /\ ~Usable => waitLanes = <<>> /\ copyExec = NoThread

\* Each thread that runs has one role, in which the context is current.
Roles ==
  /\ Distinct(waitLanes) /\ Distinct(leaving)
  /\ \A t \in Members(waitLanes) \cup Members(leaving) :
       Good(t) /\ t # exec /\ t # copyExec
  /\ copyExec # NoThread => Good(copyExec) /\ copyExec # exec
  /\ thread[exec] # "unborn" /\ (Usable => Good(exec))
  /\ \A t \in Threads :
       /\ thread[t] = "pinned" => \/ Usable /\ t = exec
                                  \/ t = copyExec
                                  \/ t \in Members(waitLanes) \cup Members(leaving)
       /\ thread[t] = "free" => t \notin bound

\* laneCreateMu: one wait creates a lane, for which there is room.
Creating ==
  /\ \A w \in Waits : pc[w] = "create" <=> creating = w
  /\ creating # NoCall => Len(waitLanes) < MaxLanes
  /\ LaneCap

\* A claimed lane stays in the pool, and so do the lanes a barrier visits.
LanesKept ==
  /\ \A w \in Waits : pc[w] \in {"count", "send", "await"} => lane[w] \in Members(waitLanes)
  /\ \A d \in Destroys : pc[d] \in {"barrier", "noop"} => Members(todo[d]) \subseteq Members(waitLanes)
  /\ \A d \in Destroys : pc[d] = "noop" => todo[d] # <<>>
  /\ \A k \in Copies : pc[k] \in {"submit", "copying"} => copyExec # NoThread

\* The thread that has the task of k.
Place(k) == IF k \in Waits THEN lane[k]
            ELSE IF k \in Copies THEN copyExec
            ELSE IF pc[k] = "noop" THEN Head(todo[k])
            ELSE exec

\* A task is on the thread it was sent to, once, until it is finished; only
\* a wait may have gone before its task.
QueuesExact ==
  /\ \A t \in Threads : \A i \in DOMAIN queue[t] :
       /\ t = Place(queue[t][i])
       /\ pc[queue[t][i]] \in Sent \/ (queue[t][i] \in Waits /\ pc[queue[t][i]] = "done")
       /\ queue[t][i] \in Waits => t \in Members(waitLanes) \cup Members(leaving)
       /\ queue[t][i] \notin finished
  /\ \A t \in Threads : Distinct(queue[t])
  /\ \A k \in finished : pc[k] \in Sent

\* A wait for the handle of d, on whatever lane, has been left by its caller ...
Left(d, w) == Handle[w] = Handle[d] => pc[w] \in {"start", "done"}

\* ... and a barrier has yet to come to each lane that has one, or is queued
\* behind it.
Barriers ==
  /\ \A d \in Destroys : pc[d] \notin {"start", "queued", "done"} =>
       \A w \in Waits : Left(d, w)
  /\ \A d \in Destroys, w \in Waits, t \in Threads :
       Handle[w] = Handle[d] /\ w \in Queued(t) =>
         /\ pc[d] \in {"barrier", "noop"} => t \in Members(todo[d])
         /\ pc[d] = "noop" /\ t = Head(todo[d]) =>
              /\ d \notin finished
              /\ \A i, j \in DOMAIN queue[t] :
                   queue[t][i] = w /\ queue[t][j] = d => i < j
         /\ pc[d] \notin {"destroy", "destroying"}
  /\ \A w \in Waits : Handle[w] \in destroyed => pc[w] \in {"start", "done"}
  /\ NoWaitOnDestroyed

\* The inductive invariant.
CInv == CountsExact /\ Places /\ Locking /\ Roles /\ Creating /\ LanesKept
          /\ QueuesExact /\ Barriers /\ RetainBalance

----------------------------------------------------------------------------
(* Sequences.                                                              *)

\* A sequence has its members at the places 1 to its length.
LEMMA SeqFacts ==
  ASSUME NEW S, NEW s \in Seq(S)
  PROVE  /\ Len(s) \in Nat /\ DOMAIN s = 1 .. Len(s)
         /\ \A i \in DOMAIN s : s[i] \in S
         /\ Members(s) \subseteq S
         /\ (s = <<>> <=> Members(s) = {})
         /\ s # <<>> => Len(s) > 0 /\ Head(s) \in Members(s)
<1>1. Len(s) \in Nat /\ DOMAIN s = 1 .. Len(s) /\ \A i \in DOMAIN s : s[i] \in S
  OBVIOUS
<1>2. s # <<>> => Len(s) > 0 /\ Head(s) = s[1] /\ 1 \in DOMAIN s
  OBVIOUS
<1>3. s = <<>> => DOMAIN s = {}
  OBVIOUS
<1> QED BY <1>1, <1>2, <1>3 DEF Members

\* The empty sequence.
LEMMA NoMembers == Members(<<>>) = {} /\ Distinct(<<>>)
  BY DEF Members, Distinct

\* A member is added at the end.
LEMMA AppendFacts ==
  ASSUME NEW S, NEW s \in Seq(S), NEW x \in S
  PROVE  /\ Append(s, x) \in Seq(S) /\ Append(s, x) # <<>>
         /\ Len(Append(s, x)) = Len(s) + 1
         /\ DOMAIN Append(s, x) = 1 .. Len(s) + 1
         /\ \A i \in DOMAIN s : Append(s, x)[i] = s[i]
         /\ Append(s, x)[Len(s) + 1] = x
         /\ Members(Append(s, x)) = Members(s) \cup {x}
         /\ Distinct(s) /\ x \notin Members(s) => Distinct(Append(s, x))
<1>1. /\ Append(s, x) \in Seq(S) /\ Append(s, x) # <<>>
      /\ Len(Append(s, x)) = Len(s) + 1 /\ Len(s) \in Nat
      /\ DOMAIN s = 1 .. Len(s)
      /\ DOMAIN Append(s, x) = 1 .. Len(s) + 1
      /\ \A i \in DOMAIN s : Append(s, x)[i] = s[i]
      /\ Append(s, x)[Len(s) + 1] = x
  OBVIOUS
<1>2. \A i \in 1 .. Len(s) + 1 : i \in 1 .. Len(s) \/ i = Len(s) + 1
  BY <1>1
<1>3. \A i \in 1 .. Len(s) : i \in 1 .. Len(s) + 1 /\ i # Len(s) + 1
  BY <1>1
<1>4. Len(s) + 1 \in 1 .. Len(s) + 1 BY <1>1
<1>5. Members(Append(s, x)) = Members(s) \cup {x}
  BY <1>1, <1>2, <1>3, <1>4 DEF Members
<1>6. Distinct(s) /\ x \notin Members(s) => Distinct(Append(s, x))
  BY <1>1, <1>2, <1>3 DEF Members, Distinct
<1> QED BY <1>1, <1>5, <1>6

\* The first member is taken off.
LEMMA TailFacts ==
  ASSUME NEW S, NEW s \in Seq(S), s # <<>>
  PROVE  /\ Tail(s) \in Seq(S) /\ Head(s) \in S /\ Len(s) \in Nat \ {0}
         /\ Head(s) = s[1] /\ 1 \in DOMAIN s /\ DOMAIN s = 1 .. Len(s)
         /\ Len(Tail(s)) = Len(s) - 1
         /\ DOMAIN Tail(s) = 1 .. Len(s) - 1
         /\ \A i \in DOMAIN Tail(s) : i + 1 \in DOMAIN s /\ Tail(s)[i] = s[i + 1]
         /\ Members(s) = Members(Tail(s)) \cup {Head(s)}
         /\ Distinct(s) => Distinct(Tail(s)) /\ Head(s) \notin Members(Tail(s))
<1>1. /\ Tail(s) \in Seq(S) /\ Head(s) \in S /\ Len(s) \in Nat \ {0}
      /\ Head(s) = s[1] /\ 1 \in DOMAIN s /\ DOMAIN s = 1 .. Len(s)
      /\ Len(Tail(s)) = Len(s) - 1 /\ DOMAIN Tail(s) = 1 .. Len(s) - 1
      /\ \A i \in 1 .. Len(s) - 1 : Tail(s)[i] = s[i + 1]
  OBVIOUS
<1>2. \A i \in 1 .. Len(s) - 1 : i + 1 \in 1 .. Len(s) /\ i + 1 # 1
  BY <1>1
<1>3. \A i \in 1 .. Len(s) : i = 1 \/ (i - 1 \in 1 .. Len(s) - 1 /\ (i - 1) + 1 = i)
  BY <1>1
<1>4. Members(s) = Members(Tail(s)) \cup {Head(s)}
  <2>1. Members(s) \subseteq Members(Tail(s)) \cup {Head(s)}
    <3>1. ASSUME NEW i \in 1 .. Len(s), i # 1
          PROVE  s[i] \in Members(Tail(s))
      <4>1. i - 1 \in DOMAIN Tail(s) /\ Tail(s)[i - 1] = s[i]
        BY <1>1, <1>3, <3>1
      <4> QED BY <4>1 DEF Members
    <3> QED BY <1>1, <3>1 DEF Members
  <2>2. Members(Tail(s)) \cup {Head(s)} \subseteq Members(s)
    BY <1>1, <1>2 DEF Members
  <2> QED BY <2>1, <2>2
<1>5. ASSUME Distinct(s) PROVE Distinct(Tail(s)) /\ Head(s) \notin Members(Tail(s))
  <2>1. \A i, j \in 1 .. Len(s) - 1 : i + 1 = j + 1 => i = j BY <1>1
  <2>2. Distinct(Tail(s)) BY <1>1, <1>2, <1>5, <2>1 DEF Distinct
  <2>3. Head(s) \notin Members(Tail(s)) BY <1>1, <1>2, <1>5 DEF Distinct, Members
  <2> QED BY <2>2, <2>3
<1> QED BY <1>1, <1>2, <1>4, <1>5

----------------------------------------------------------------------------
(* Facts the steps share.                                                  *)

\* What the constants are.
LEMMA Constants ==
  /\ IsFiniteSet(Waits) /\ NoCall \notin Waits
  /\ Waits \subseteq Calls /\ Destroys \subseteq Calls
  /\ Copies \subseteq Calls /\ Commands \subseteq Calls
  /\ \A k \in Calls : k \in Waits \/ k \in Destroys \/ k \in Copies \/ k \in Commands
  /\ \A w \in Waits : w \notin Destroys /\ w \notin Copies /\ w \notin Commands
  /\ \A d \in Destroys : d \notin Copies /\ d \notin Commands
  /\ \A k \in Copies : k \notin Commands
  /\ MaxThreads \in Nat \ {0} /\ MaxLanes \in Nat \ {0} /\ MaxCloses \in Nat
  /\ 1 \in Threads /\ NoThread \notin Threads
  /\ \A k \in Waits \cup Destroys : Handle[k] \in Handles
<1>1. MaxThreads \in Nat \ {0} => 1 \in Threads /\ NoThread \notin Threads
  BY DEF Threads, NoThread
<1> QED BY ContextAssumption, <1>1 DEF Calls

\* The counts count finite sets.
LEMMA CountsFinite ==
  /\ IsFiniteSet(Tracked) /\ Cardinality(Tracked) \in Nat
  /\ \A t : IsFiniteSet(InFlight(t)) /\ Cardinality(InFlight(t)) \in Nat
<1>1. Tracked \subseteq Waits /\ \A t : InFlight(t) \subseteq Waits
  BY DEF Tracked, InFlight
<1> QED BY <1>1, Constants, FS_Subset, FS_CardinalityType

\* The sets that are counted are the same after a step that moves no wait in
\* or out of them.
LEMMA CountsStay ==
  ASSUME CountsExact, TypeOK', UNCHANGED <<pending, syncActive, lane>>,
         \A w \in Waits : (pc'[w] = "send" <=> pc[w] = "send")
                            /\ (pc'[w] = "count" <=> pc[w] = "count"),
         \A w \in Waits, t \in Threads : w \in Queued(t)' <=> w \in Queued(t)
  PROVE  CountsExact'
<1>1. \A t \in Threads : InFlight(t)' = InFlight(t) BY DEF InFlight
<1>2. Tracked' = Tracked BY DEF Tracked, Queued
<1> QED BY <1>1, <1>2 DEF CountsExact

\* The initial state.
LEMMA InitInv == Init => CInv
<1> SUFFICES ASSUME Init PROVE CInv
  OBVIOUS
<1> USE Constants DEF Init
<1>1. TypeOK
  <2>1. pending \in [Threads -> Nat] /\ queue \in [Threads -> Seq(Calls)]
        /\ todo \in [Destroys -> Seq(Threads)] /\ waitLanes \in Seq(Threads)
        /\ leaving \in Seq(Threads)
    OBVIOUS
  <2>2. pc \in [Calls -> {"start"}] /\ lane \in [Waits -> {NoThread}]
        /\ thread \in [Threads -> {"unborn", "pinned"}]
    OBVIOUS
  <2>3. closes \in 0 .. MaxCloses /\ retained \in Nat /\ syncActive \in Nat
    OBVIOUS
  <2> QED BY <2>1, <2>2, <2>3 DEF TypeOK
<1>2. \A t \in Threads : Queued(t) = {} BY DEF Queued
<1>3. CountsExact
  <2>1. Tracked = {} /\ \A t \in Threads : InFlight(t) = {}
    BY <1>2 DEF Tracked, InFlight
  <2> QED BY <1>1, <2>1, FS_EmptySet DEF CountsExact
<1>4. Places BY DEF Places, WaitPCs, DestroyPCs, CopyPCs, CommandPCs
<1>5. Locking BY DEF Locking, InOp, Usable
<1>6. Roles
  BY NoMembers DEF Roles, Good, Usable, NoThread
<1>7. Creating
  <2>1. LaneCap BY DEF LaneCap
  <2> QED BY <2>1 DEF Creating, NoCall
<1>8. LanesKept BY DEF LanesKept
<1>9. QueuesExact BY NoMembers DEF QueuesExact
<1>10. Barriers BY <1>2 DEF Barriers, NoWaitOnDestroyed, Left
<1>11. RetainBalance BY DEF RetainBalance
<1> QED BY <1>1, <1>3, <1>4, <1>5, <1>6, <1>7, <1>8, <1>9, <1>10, <1>11 DEF CInv

----------------------------------------------------------------------------
(* The steps of calls.                                                     *)

\* A call that hands nothing to a thread and claims nothing goes on.
LEMMA Moves ==
  ASSUME CInv, NEW k \in Calls, NEW b, Goto(k, b),
         pc[k] \notin Sent \cup {"create", "count", "send", "done"},
         b \notin Sent \cup {"create", "count", "send", "barrier"},
         k \in Waits => b \in WaitPCs, k \in Destroys => b \in DestroyPCs,
         k \in Copies => b \in CopyPCs, k \in Commands => b \in CommandPCs,
         b \notin {"start", "queued", "locked", "done"} =>
           Usable /\ cl \in {"idle", "lock"},
         k \in Copies /\ b = "submit" => copyExec # NoThread,
         k \in Destroys /\ b \notin {"start", "queued", "done"} =>
           \A w \in Waits : Left(k, w),
         k \in Waits /\ b \notin {"start", "done"} =>
           /\ Handle[k] \notin destroyed
           /\ \A d \in Destroys : Handle[d] = Handle[k] =>
                pc[d] \in {"start", "queued", "done"},
         b = "destroy" => \A w \in Waits, t \in Threads :
           Handle[w] = Handle[k] => w \notin Queued(t),
         UNCHANGED <<cancelled, lane, destroyed, todo, laneVars, threadVars,
                     execVars, closeVars>>
  PROVE  CInv'
<1> USE Constants DEF CInv
<1>1. /\ pc' = [pc EXCEPT ![k] = b]
      /\ UNCHANGED <<cancelled, lane, destroyed, todo, finished, thread, bound>>
      /\ UNCHANGED <<queue, waitLanes, pending, syncActive, creating, exec>>
      /\ UNCHANGED <<copyExec, commandErr, closed, retained, cl, closes, leaving>>
  BY DEF Goto, laneVars, threadVars, execVars, closeVars
<1>2. TypeOK /\ pc \in [Calls -> WaitPCs \cup DestroyPCs \cup CopyPCs \cup CommandPCs]
  BY DEF CountsExact, Places, TypeOK
<1>3. TypeOK'
  <2>1. b \in WaitPCs \cup DestroyPCs \cup CopyPCs \cup CommandPCs
    OBVIOUS
  <2> QED BY <1>1, <1>2, <2>1 DEF TypeOK, WaitPCs, DestroyPCs, CopyPCs, CommandPCs
<1>4. \A x \in Calls : pc'[x] = IF x = k THEN b ELSE pc[x] BY <1>1, <1>2
<1>5. \A t \in Threads : Queued(t)' = Queued(t) BY <1>1 DEF Queued
<1>6. CountsExact' BY <1>1, <1>3, <1>4, <1>5, CountsStay
<1>7. Places' BY <1>4 DEF Places
<1>8. Usable' <=> Usable BY <1>1 DEF Usable
<1>9. Locking' BY <1>1, <1>4, <1>8 DEF Locking, InOp
<1>10. Roles' BY <1>1, <1>8 DEF Roles, Good
<1>11. Creating' BY <1>1, <1>4 DEF Creating, LaneCap
<1>12. LanesKept' BY <1>1, <1>4 DEF LanesKept, Sent
<1>13. QueuesExact'
  <2>1. \A x \in Calls : x # k => Place(x)' = Place(x) BY <1>1, <1>4 DEF Place
  <2>2. \A t \in Threads : \A i \in DOMAIN queue[t] : queue[t][i] \in Calls /\ queue[t][i] # k
    BY <1>2 DEF QueuesExact, TypeOK
  <2>3. k \notin finished /\ finished \subseteq Calls BY <1>2 DEF QueuesExact, TypeOK
  <2> QED BY <1>1, <1>4, <2>1, <2>2, <2>3 DEF QueuesExact
<1>14. Barriers'
  <2>1. \A d \in Destroys : pc'[d] \notin {"start", "queued", "done"} =>
          \A w \in Waits : Left(d, w)'
    BY <1>4 DEF Barriers, Left
  <2>2. \A d \in Destroys, w \in Waits, t \in Threads :
          Handle[w] = Handle[d] /\ w \in Queued(t)' =>
            /\ pc'[d] \in {"barrier", "noop"} => t \in Members(todo[d])
            /\ pc'[d] = "noop" /\ t = Head(todo[d]) =>
                 /\ d \notin finished
                 /\ \A i, j \in DOMAIN queue[t] :
                      queue[t][i] = w /\ queue[t][j] = d => i < j
            /\ pc'[d] \notin {"destroy", "destroying"}
    BY <1>4, <1>5 DEF Barriers, Sent
  <2>3. NoWaitOnDestroyed' BY <1>1, <1>5 DEF Barriers, NoWaitOnDestroyed
  <2>4. \A w \in Waits : Handle[w] \in destroyed' => pc'[w] \in {"start", "done"}
    BY <1>1, <1>4 DEF Barriers
  <2> QED BY <1>1, <2>1, <2>2, <2>3, <2>4 DEF Barriers
<1>15. RetainBalance' BY <1>1 DEF RetainBalance
<1> QED BY <1>6, <1>7, <1>9, <1>10, <1>11, <1>12, <1>13, <1>14, <1>15

\* doJobCtx enters, is refused, or misses the pool.
LEMMA WaitMoves ==
  ASSUME CInv, NEW w \in Waits, WaitBegin(w) \/ WaitRefused(w) \/ AcquireMiss(w)
  PROVE  CInv'
<1> USE Constants
<1>1. CASE WaitBegin(w)
  <2>1. \A d \in Destroys : Handle[d] = Handle[w] => pc[d] \in {"start", "queued", "done"}
    BY <1>1 DEF WaitBegin, Wanted
  <2> QED BY <1>1, <2>1, Moves DEF WaitBegin, Readable, WaitPCs, Sent
<1>2. CASE WaitRefused(w)
  BY <1>2, Moves DEF WaitRefused, WaitPCs, Sent
<1>3. CASE AcquireMiss(w)
  <2>1. w \in InOp /\ pc[w] = "acquire" BY <1>3 DEF AcquireMiss, InOp
  <2>2. Usable /\ cl \in {"idle", "lock"} BY <2>1 DEF CInv, Locking
  <2>3. Handle[w] \notin destroyed BY <2>1 DEF CInv, Barriers
  <2>4. \A d \in Destroys : Handle[d] = Handle[w] => pc[d] \in {"start", "queued", "done"}
    BY <2>1 DEF CInv, Barriers, Left
  <2> QED BY <1>3, <2>1, <2>2, <2>3, <2>4, Moves DEF AcquireMiss, WaitPCs, Sent
<1> QED BY <1>1, <1>2, <1>3

\* A destroy takes its locks, and goes on when it has drained the lanes.
LEMMA DestroyMoves ==
  ASSUME CInv, NEW d \in Destroys,
         DestroyQueue(d) \/ DestroyLock(d) \/ DestroyBegin(d) \/ BarrierDone(d)
  PROVE  CInv'
<1> USE Constants
<1>1. CASE DestroyQueue(d)
  BY <1>1, Moves DEF DestroyQueue, DestroyPCs, Sent
<1>2. CASE DestroyLock(d)
  <2>1. \A w \in Waits : Left(d, w) BY <1>2 DEF DestroyLock, Shared, Left
  <2>2. PICK b \in {"done", "locked"} : Goto(d, b) BY <1>2 DEF DestroyLock
  <2> QED BY <1>2, <2>1, <2>2, Moves DEF DestroyLock, DestroyPCs, Sent
<1>3. CASE DestroyBegin(d)
  <2>1. \A w \in Waits : Left(d, w) BY <1>3 DEF DestroyBegin, CInv, Barriers
  <2>2. CASE Usable
    BY <1>3, <2>1, <2>2, Moves DEF DestroyBegin, Readable, DestroyPCs, Sent
  <2>3. CASE ~Usable
    BY <1>3, <2>1, <2>3, Moves DEF DestroyBegin, DestroyPCs, Sent
  <2> QED BY <2>2, <2>3
<1>4. CASE BarrierDone(d)
  <2>1. \A w \in Waits : Left(d, w) BY <1>4 DEF BarrierDone, CInv, Barriers
  <2>2. Members(todo[d]) = {} BY <1>4, NoMembers DEF BarrierDone
  <2>3. \A w \in Waits, t \in Threads : Handle[w] = Handle[d] => w \notin Queued(t)
    BY <1>4, <2>2 DEF BarrierDone, CInv, Barriers
  <2>4. d \in InOp BY <1>4 DEF BarrierDone, InOp
  <2>5. Usable /\ cl \in {"idle", "lock"} BY <2>4 DEF CInv, Locking
  <2> QED BY <1>4, <2>1, <2>3, <2>5, Moves DEF BarrierDone, DestroyPCs, Sent
<1> QED BY <1>1, <1>2, <1>3, <1>4

\* A copy enters or is refused, finds its executor, or gives up before it is
\* accepted.
LEMMA CopyMoves ==
  ASSUME CInv, NEW k \in Copies,
         \/ CopyBegin(k)
         \/ CopyExecutor(k) /\ copyExec # NoThread
         \/ CopySend(k) /\ UNCHANGED queue /\ Goto(k, "done")
  PROVE  CInv'
<1> USE Constants
<1>1. CASE CopyBegin(k)
  BY <1>1, Moves DEF CopyBegin, Readable, CopyPCs, Sent
<1>2. CASE CopyExecutor(k) /\ copyExec # NoThread
  <2>1. k \in InOp BY <1>2 DEF CopyExecutor, InOp
  <2>2. Usable /\ cl \in {"idle", "lock"} BY <2>1 DEF CInv, Locking
  <2>3. Goto(k, "submit") /\ UNCHANGED <<copyExec, threadVars>>
    BY <1>2 DEF CopyExecutor
  <2> QED BY <1>2, <2>2, <2>3, Moves
          DEF CopyExecutor, CopyPCs, Sent, execVars
<1>3. CASE CopySend(k) /\ UNCHANGED queue /\ Goto(k, "done")
  BY <1>3, Moves DEF CopySend, CopyPCs, Sent, laneVars
<1> QED BY <1>1, <1>2, <1>3

\* A command enters or is refused, or gives up before it is accepted.
LEMMA CommandMoves ==
  ASSUME CInv, NEW k \in Commands,
         CommandBegin(k) \/ (CommandSend(k) /\ UNCHANGED queue /\ Goto(k, "done"))
  PROVE  CInv'
<1> USE Constants
<1>1. CASE CommandBegin(k)
  BY <1>1, Moves DEF CommandBegin, Readable, CommandPCs, Sent
<1>2. CASE CommandSend(k) /\ UNCHANGED queue /\ Goto(k, "done")
  BY <1>2, Moves DEF CommandSend, CommandPCs, Sent, laneVars
<1> QED BY <1>1, <1>2

\* A call whose task is finished returns; a cancelled wait leaves its task.
LEMMA Returns ==
  ASSUME CInv, NEW k \in Calls, Goto(k, "done"), pc[k] \in Sent,
         k \in finished \/ k \in Waits, finished' = finished \ {k},
         UNCHANGED <<cancelled, lane, destroyed, todo, queue, waitLanes, pending,
                     syncActive, creating, threadVars, execVars, closeVars>>
  PROVE  CInv'
<1> USE Constants DEF CInv
<1>1. /\ pc' = [pc EXCEPT ![k] = "done"]
      /\ UNCHANGED <<cancelled, lane, destroyed, todo, thread, bound>>
      /\ UNCHANGED <<queue, waitLanes, pending, syncActive, creating, exec>>
      /\ UNCHANGED <<copyExec, commandErr, closed, retained, cl, closes, leaving>>
  BY DEF Goto, threadVars, execVars, closeVars
<1>2. TypeOK BY DEF CountsExact
<1>3. TypeOK' BY <1>1, <1>2 DEF TypeOK
<1>4. \A x \in Calls : pc'[x] = IF x = k THEN "done" ELSE pc[x] BY <1>1, <1>2 DEF TypeOK
<1>5. \A t \in Threads : Queued(t)' = Queued(t) BY <1>1 DEF Queued
<1>6. CountsExact' BY <1>1, <1>3, <1>4, <1>5, CountsStay DEF Sent
<1>7. Places' BY <1>4 DEF Places, WaitPCs, DestroyPCs, CopyPCs, CommandPCs
<1>8. Usable' <=> Usable BY <1>1 DEF Usable
<1>9. Locking' BY <1>1, <1>4, <1>8 DEF Locking, InOp
<1>10. Roles' BY <1>1, <1>8 DEF Roles, Good
<1>11. Creating' BY <1>1, <1>4 DEF Creating, LaneCap, Sent
<1>12. LanesKept' BY <1>1, <1>4 DEF LanesKept
<1>13. QueuesExact'
  <2>1. \A x \in Calls : x # k \/ x \in Waits => Place(x)' = Place(x)
    BY <1>1, <1>4 DEF Place
  <2>2. \A t \in Threads : \A i \in DOMAIN queue[t] :
          queue[t][i] \in Calls /\ (queue[t][i] # k \/ queue[t][i] \in Waits)
    BY <1>2 DEF QueuesExact, TypeOK
  <2>3. finished \subseteq Calls BY <1>2 DEF TypeOK
  <2> QED BY <1>1, <1>4, <2>1, <2>2, <2>3 DEF QueuesExact
<1>14. Barriers'
  <2>1. \A d \in Destroys : pc'[d] \notin {"start", "queued", "done"} =>
          \A w \in Waits : Left(d, w)'
    BY <1>4 DEF Barriers, Left
  <2>2. \A d \in Destroys, w \in Waits, t \in Threads :
          Handle[w] = Handle[d] /\ w \in Queued(t)' =>
            /\ pc'[d] \in {"barrier", "noop"} => t \in Members(todo[d])
            /\ pc'[d] = "noop" /\ t = Head(todo[d]) =>
                 /\ d \notin finished'
                 /\ \A i, j \in DOMAIN queue[t] :
                      queue[t][i] = w /\ queue[t][j] = d => i < j
            /\ pc'[d] \notin {"destroy", "destroying"}
    BY <1>4, <1>5 DEF Barriers
  <2>3. NoWaitOnDestroyed' BY <1>1, <1>5 DEF Barriers, NoWaitOnDestroyed
  <2>4. \A w \in Waits : Handle[w] \in destroyed' => pc'[w] \in {"start", "done"}
    BY <1>1, <1>4 DEF Barriers
  <2> QED BY <1>1, <2>1, <2>2, <2>3, <2>4 DEF Barriers
<1>15. RetainBalance' BY <1>1 DEF RetainBalance
<1> QED BY <1>6, <1>7, <1>9, <1>10, <1>11, <1>12, <1>13, <1>14, <1>15

\* So for each kind of call.
LEMMA ReturnSteps ==
  ASSUME CInv, NEW k,
         \/ k \in Waits /\ (WaitReturns(k) \/ AbandonWait(k))
         \/ k \in Destroys /\ DestroyReturns(k)
         \/ k \in Copies /\ CopyReturns(k)
         \/ k \in Commands /\ CommandReturns(k)
  PROVE  CInv'
  BY Returns, Constants
  DEF WaitReturns, AbandonWait, DestroyReturns, CopyReturns, CommandReturns, Sent

\* A call hands its task to a thread: a wait to the lane it has claimed, a
\* barrier to the next lane, a copy to the copy thread, the rest to the
\* command thread.
LEMMA Sends ==
  ASSUME CInv, NEW k \in Calls, NEW b, NEW t \in Threads, Goto(k, b),
         \/ k \in Waits /\ pc[k] = "send" /\ b = "await" /\ t = lane[k]
         \/ k \in Destroys /\ pc[k] = "barrier" /\ b = "noop" /\ todo[k] # <<>>
              /\ t = Head(todo[k])
         \/ k \in Destroys /\ pc[k] = "destroy" /\ b = "destroying" /\ t = exec
         \/ k \in Copies /\ pc[k] = "submit" /\ b = "copying" /\ t = copyExec
         \/ k \in Commands /\ pc[k] = "order" /\ b = "running" /\ t = exec,
         queue' = [queue EXCEPT ![t] = Append(@, k)],
         UNCHANGED <<cancelled, lane, destroyed, todo, waitLanes, pending,
                     syncActive, creating, finished, threadVars, execVars,
                     closeVars>>
  PROVE  CInv'
<1> USE Constants DEF CInv
<1>1. /\ pc' = [pc EXCEPT ![k] = b]
      /\ UNCHANGED <<cancelled, lane, destroyed, todo, thread, bound, finished>>
      /\ UNCHANGED <<waitLanes, pending, syncActive, creating, exec>>
      /\ UNCHANGED <<copyExec, commandErr, closed, retained, cl, closes, leaving>>
  BY DEF Goto, threadVars, execVars, closeVars
<1>2. TypeOK BY DEF CountsExact
<1>3. queue[t] \in Seq(Calls) /\ \A u \in Threads : queue[u] \in Seq(Calls)
  BY <1>2 DEF TypeOK
<1>4. /\ \A u \in Threads : u # t => queue'[u] = queue[u]
      /\ queue'[t] = Append(queue[t], k)
      /\ queue' \in [Threads -> Seq(Calls)]
  <2>1. Append(queue[t], k) \in Seq(Calls) BY <1>3, AppendFacts
  <2> QED BY <1>2, <2>1 DEF TypeOK
<1>5. TypeOK' BY <1>1, <1>2, <1>4 DEF TypeOK
<1>6. \A x \in Calls : pc'[x] = IF x = k THEN b ELSE pc[x] BY <1>1, <1>2 DEF TypeOK
<1>7. \A u \in Threads : Queued(u)' = IF u = t THEN Queued(u) \cup {k} ELSE Queued(u)
  <2>1. Members(Append(queue[t], k)) = Members(queue[t]) \cup {k} BY <1>3, AppendFacts
  <2>2. Queued(t)' = Queued(t) \cup {k} BY <1>4, <2>1 DEF Queued, Members
  <2>3. \A u \in Threads : u # t => Queued(u)' = Queued(u) BY <1>4 DEF Queued
  <2> QED BY <2>2, <2>3
<1>8. CountsExact'
  <2>1. CASE k \in Waits
    <3>1. \A u \in Threads : InFlight(u)' = InFlight(u)
      <4>1. ASSUME NEW u \in Threads, NEW w \in Waits
            PROVE  (lane'[w] = u /\ (pc'[w] \in {"count", "send"} \/ w \in Queued(u)'))
                   <=> (lane[w] = u /\ (pc[w] \in {"count", "send"} \/ w \in Queued(u)))
        BY <1>1, <1>6, <1>7, <2>1
      <4> QED BY <4>1 DEF InFlight
    <3>2. Tracked' = Tracked
      <4>1. ASSUME NEW w \in Waits
            PROVE  (pc'[w] = "send" \/ \E u \in Threads : w \in Queued(u)')
                   <=> (pc[w] = "send" \/ \E u \in Threads : w \in Queued(u))
        BY <1>6, <1>7, <2>1
      <4> QED BY <4>1 DEF Tracked
    <3> QED BY <1>1, <1>5, <3>1, <3>2 DEF CountsExact
  <2>2. CASE k \notin Waits
    BY <1>1, <1>5, <1>6, <1>7, <2>2, CountsStay
  <2> QED BY <2>1, <2>2
<1>9. Places' BY <1>6 DEF Places, WaitPCs, DestroyPCs, CopyPCs, CommandPCs
<1>10. Usable' <=> Usable BY <1>1 DEF Usable
<1>11. Locking'
  <2>1. k \in InOp BY DEF InOp
  <2> QED BY <1>1, <1>6, <1>10, <2>1 DEF Locking, InOp
<1>12. Roles' BY <1>1, <1>10 DEF Roles, Good
<1>13. Creating' BY <1>1, <1>6 DEF Creating, LaneCap
<1>14. LanesKept' BY <1>1, <1>6 DEF LanesKept
<1>15. k \notin finished /\ \A u \in Threads : k \notin Queued(u)
  <2>1. pc[k] \notin Sent /\ pc[k] # "done" BY DEF Sent
  <2> QED BY <2>1 DEF QueuesExact, Queued
<1>16. QueuesExact'
  <2> DEFINE P(x) == IF x \in Waits THEN lane'[x] ELSE IF x \in Copies THEN copyExec'
                     ELSE IF pc'[x] = "noop" THEN Head(todo'[x]) ELSE exec'
  <2>1. \A x \in Calls : x # k => P(x) = Place(x) BY <1>1, <1>6 DEF Place
  <2>2. P(k) = t BY <1>1, <1>6
  <2>3. b \in Sent BY DEF Sent
  <2> HIDE DEF P
  <2>4. k \in Waits => t \in Members(waitLanes) BY DEF LanesKept
  <2>5. \A u \in Threads : \A i \in DOMAIN queue[u] :
          queue[u][i] \in Calls /\ queue[u][i] # k
    BY <1>3, <1>15 DEF Queued
  <2>6. \A i \in DOMAIN queue'[t] :
          (i \in DOMAIN queue[t] /\ queue'[t][i] = queue[t][i]) \/ queue'[t][i] = k
    BY <1>3, <1>4, AppendFacts
  <2>7. \A u \in Threads : \A i \in DOMAIN queue'[u] :
          /\ u = P(queue'[u][i])
          /\ pc'[queue'[u][i]] \in Sent \/ (queue'[u][i] \in Waits /\ pc'[queue'[u][i]] = "done")
          /\ queue'[u][i] \in Waits => u \in Members(waitLanes) \cup Members(leaving)
          /\ queue'[u][i] \notin finished
    <3>1. ASSUME NEW u \in Threads, NEW i \in DOMAIN queue[u], NEW x, x = queue[u][i]
          PROVE  /\ u = P(x)
                 /\ pc'[x] \in Sent \/ (x \in Waits /\ pc'[x] = "done")
                 /\ x \in Waits => u \in Members(waitLanes) \cup Members(leaving)
                 /\ x \notin finished
      BY <1>6, <2>1, <2>5, <3>1 DEF QueuesExact
    <3>2. ASSUME NEW u \in Threads, NEW i \in DOMAIN queue'[u], NEW x, x = queue'[u][i]
          PROVE  /\ u = P(x)
                 /\ pc'[x] \in Sent \/ (x \in Waits /\ pc'[x] = "done")
                 /\ x \in Waits => u \in Members(waitLanes) \cup Members(leaving)
                 /\ x \notin finished
      <4>1. CASE u = t /\ x = k
        BY <1>6, <1>15, <2>2, <2>3, <2>4, <4>1
      <4>2. CASE ~(u = t /\ x = k)
        <5>1. i \in DOMAIN queue[u] /\ x = queue[u][i] BY <1>4, <2>6, <3>2, <4>2
        <5> QED BY <3>1, <5>1
      <4> QED BY <4>1, <4>2
    <3> QED BY <3>2
  <2>8. \A u \in Threads : Distinct(queue'[u])
    <3>1. Distinct(queue'[t])
      <4>1. Distinct(queue[t]) /\ k \notin Members(queue[t])
        BY <1>15 DEF QueuesExact, Queued, Members
      <4> QED BY <1>3, <1>4, <4>1, AppendFacts
    <3> QED BY <1>4, <3>1 DEF QueuesExact
  <2>9. \A x \in finished : pc'[x] \in Sent
    BY <1>2, <1>6, <1>15 DEF QueuesExact, TypeOK
  <2> QED BY <1>1, <2>7, <2>8, <2>9 DEF QueuesExact, Place, P
<1>17. Barriers'
  <2>1. \A d \in Destroys : pc'[d] \notin {"start", "queued", "done"} =>
          \A w \in Waits : Left(d, w)'
    BY <1>6 DEF Barriers, Left
  <2>2. ASSUME NEW d \in Destroys, NEW w \in Waits, NEW u \in Threads,
               Handle[w] = Handle[d], w \in Queued(u)'
        PROVE  /\ pc'[d] \in {"barrier", "noop"} => u \in Members(todo[d])
               /\ pc'[d] = "noop" /\ u = Head(todo[d]) =>
                    /\ d \notin finished
                    /\ \A i, j \in DOMAIN queue'[u] :
                         queue'[u][i] = w /\ queue'[u][j] = d => i < j
               /\ pc'[d] \notin {"destroy", "destroying"}
    <3>1. CASE w = k
      <4>1. pc[d] \in {"start", "queued", "done"} /\ d # k
        BY <2>2, <3>1 DEF Barriers, Left
      <4> QED BY <1>6, <4>1
    <3>2. CASE w # k
      <4>1. w \in Queued(u) BY <1>7, <2>2, <3>2
      <4>2. /\ pc[d] \in {"barrier", "noop"} => u \in Members(todo[d])
            /\ pc[d] = "noop" /\ u = Head(todo[d]) =>
                 /\ d \notin finished
                 /\ \A i, j \in DOMAIN queue[u] :
                      queue[u][i] = w /\ queue[u][j] = d => i < j
            /\ pc[d] \notin {"destroy", "destroying"}
        BY <2>2, <4>1 DEF Barriers
      <4>3. \A i \in DOMAIN queue'[u] : queue'[u][i] = w => i \in DOMAIN queue[u] /\ queue[u][i] = w
        <5>1. CASE u = t BY <1>3, <1>4, <3>2, <5>1, AppendFacts
        <5>2. CASE u # t BY <1>4, <5>2
        <5> QED BY <5>1, <5>2
      <4>4. CASE d # k
        <5>1. \A i \in DOMAIN queue'[u] : queue'[u][i] = d => i \in DOMAIN queue[u] /\ queue[u][i] = d
          <6>1. CASE u = t BY <1>3, <1>4, <4>4, <6>1, AppendFacts
          <6>2. CASE u # t BY <1>4, <6>2
          <6> QED BY <6>1, <6>2
        <5> QED BY <1>6, <4>2, <4>3, <4>4, <5>1
      <4>5. CASE d = k
        <5>1. pc'[d] = b /\ b \notin {"destroy", "barrier"} BY <1>6, <4>5
        <5>2. b = "destroying" => FALSE BY <4>2, <4>5
        <5>3. ASSUME b = "noop", u = Head(todo[d])
              PROVE  \A i, j \in DOMAIN queue'[u] :
                       queue'[u][i] = w /\ queue'[u][j] = d => i < j
          <6>1. u = t BY <4>5, <5>3
          <6>2. \A j \in DOMAIN queue'[t] : queue'[t][j] = k => j = Len(queue[t]) + 1
            BY <1>3, <1>4, <1>15, AppendFacts DEF Queued
          <6>3. \A i \in DOMAIN queue[t] : i < Len(queue[t]) + 1 BY <1>3, SeqFacts
          <6> QED BY <4>3, <4>5, <6>1, <6>2, <6>3
        <5> QED BY <1>15, <4>2, <4>5, <5>1, <5>2, <5>3
      <4> QED BY <4>4, <4>5
    <3> QED BY <3>1, <3>2
  <2>3. NoWaitOnDestroyed'
    BY <1>1, <1>7 DEF Barriers, NoWaitOnDestroyed
  <2>4. \A w \in Waits : Handle[w] \in destroyed' => pc'[w] \in {"start", "done"}
    BY <1>1, <1>6 DEF Barriers
  <2> QED BY <1>1, <2>1, <2>2, <2>3, <2>4 DEF Barriers
<1>18. RetainBalance' BY <1>1 DEF RetainBalance
<1> QED BY <1>8, <1>9, <1>11, <1>12, <1>13, <1>14, <1>16, <1>17, <1>18

\* So for each kind of call.
LEMMA SendSteps ==
  ASSUME CInv, NEW k,
         \/ k \in Waits /\ SendWait(k)
         \/ k \in Destroys /\ (BarrierSend(k) \/ DestroySend(k))
         \/ k \in Copies /\ CopySend(k) /\ Goto(k, "copying")
         \/ k \in Commands /\ CommandSend(k) /\ Goto(k, "running")
  PROVE  CInv'
<1> USE Constants
<1>1. TypeOK BY DEF CInv, CountsExact
<1>2. CASE k \in Waits /\ SendWait(k)
  <2>1. lane[k] \in Threads
    <3>1. lane[k] \in Members(waitLanes) BY <1>2 DEF CInv, LanesKept, SendWait
    <3> QED BY <1>1, <3>1, SeqFacts DEF TypeOK
  <2> QED BY <1>2, <2>1, Sends DEF SendWait
<1>3. CASE k \in Destroys /\ BarrierSend(k)
  <2>1. Head(todo[k]) \in Threads BY <1>1, <1>3, TailFacts DEF TypeOK, BarrierSend
  <2> QED BY <1>3, <2>1, Sends DEF BarrierSend
<1>4. CASE k \in Destroys /\ DestroySend(k)
  BY <1>1, <1>4, Sends DEF DestroySend, TypeOK
<1>5. CASE k \in Copies /\ CopySend(k) /\ Goto(k, "copying")
  <2>1. copyExec \in Threads BY <1>1, <1>5 DEF CInv, LanesKept, CopySend, TypeOK
  <2>2. queue' = [queue EXCEPT ![copyExec] = Append(@, k)]
    <3>1. ~Goto(k, "done") BY <1>1, <1>5 DEF Goto, TypeOK
    <3> QED BY <1>5, <3>1 DEF CopySend
  <2> QED BY <1>5, <2>1, <2>2, Sends DEF CopySend
<1>6. CASE k \in Commands /\ CommandSend(k) /\ Goto(k, "running")
  <2>1. queue' = [queue EXCEPT ![exec] = Append(@, k)]
    <3>1. ~Goto(k, "done") BY <1>1, <1>6 DEF Goto, TypeOK
    <3> QED BY <1>6, <3>1 DEF CommandSend
  <2> QED BY <1>1, <1>6, <2>1, Sends DEF CommandSend, TypeOK
<1> QED BY <1>2, <1>3, <1>4, <1>5, <1>6

----------------------------------------------------------------------------
(* The wait lanes.                                                         *)

\* A set of numbers that is not empty has a least one.
LEMMA LeastNumber ==
  ASSUME NEW T, T \subseteq Nat, T # {}
  PROVE  \E x \in T : \A y \in T : x <= y
<1>1. PICK x \in T : \A y \in T : ~(<<y, x>> \in OpToRel(<, Nat))
  <2> HIDE DEF OpToRel
  <2> QED BY NatLessThanWellFounded, WFMin
<1>2. \A y \in T : ~(y < x) BY <1>1 DEF OpToRel
<1> QED BY <1>2

\* reuseWaitLane finds a lane of the pool.
LEMMA LeastLoadedIn ==
  ASSUME TypeOK, NEW S, S \subseteq DOMAIN waitLanes, S # {}
  PROVE  LeastLoaded(S) \in Members(waitLanes)
<1>1. /\ \A i \in S : i \in Nat /\ waitLanes[i] \in Threads
                        /\ pending[waitLanes[i]] \in Nat
      /\ DOMAIN waitLanes \subseteq Nat
  <2>1. /\ Len(waitLanes) \in Nat /\ DOMAIN waitLanes = 1 .. Len(waitLanes)
        /\ \A i \in DOMAIN waitLanes : waitLanes[i] \in Threads
        /\ pending \in [Threads -> Nat]
    BY SeqFacts DEF TypeOK
  <2> QED BY <2>1
<1> DEFINE Loads == {pending[waitLanes[i]] : i \in S}
<1>2. PICK m \in Loads : \A n \in Loads : m <= n
  <2>1. Loads \subseteq Nat /\ Loads # {} BY <1>1
  <2> HIDE DEF Loads
  <2> QED BY <2>1, LeastNumber
<1> DEFINE Best == {i \in S : pending[waitLanes[i]] = m}
<1>3. PICK i \in Best : \A j \in Best : i <= j
  <2>1. Best \subseteq Nat /\ Best # {} BY <1>1, <1>2
  <2> HIDE DEF Best
  <2> QED BY <2>1, LeastNumber
<1>4. i \in S /\ \A j \in S : \/ pending[waitLanes[i]] < pending[waitLanes[j]]
                              \/ pending[waitLanes[i]] = pending[waitLanes[j]] /\ i <= j
  <2>1. ASSUME NEW j \in S, pending[waitLanes[j]] # m PROVE m < pending[waitLanes[j]]
    BY <1>1, <1>2, <2>1
  <2> QED BY <1>3, <2>1
<1>5. (CHOOSE x \in S : \A j \in S :
         \/ pending[waitLanes[x]] < pending[waitLanes[j]]
         \/ pending[waitLanes[x]] = pending[waitLanes[j]] /\ x <= j) \in S
  BY <1>4
<1> QED BY <1>5 DEF LeastLoaded, Members

\* So at the two places where it is called.
LEMMA ReuseLaneIn == ASSUME TypeOK, Reusable PROVE ReuseLane \in Members(waitLanes)
<1>1. CASE IdleLanes # {} BY <1>1, LeastLoadedIn DEF ReuseLane, IdleLanes
<1>2. CASE IdleLanes = {}
  <2>1. DOMAIN waitLanes # {} BY <1>2, Constants, SeqFacts DEF Reusable, TypeOK
  <2> QED BY <1>2, <2>1, LeastLoadedIn DEF ReuseLane
<1> QED BY <1>1, <1>2

\* A wait takes a lane t of the pool, which it may just have added.
LEMMA Claims ==
  ASSUME CInv, NEW w \in Waits, NEW t \in Threads, Claim(w, t),
         pc[w] \in {"acquire", "mutex", "create"},
         \/ waitLanes' = waitLanes /\ t \in Members(waitLanes)
         \/ waitLanes' = Append(waitLanes, t),
         UNCHANGED <<cancelled, destroyed, todo, queue, syncActive, finished,
                     execVars, closeVars>>,
         TypeOK', Roles', Creating'
  PROVE  CInv'
<1> USE Constants DEF CInv
<1>1. /\ pc' = [pc EXCEPT ![w] = "count"]
      /\ lane' = [lane EXCEPT ![w] = t]
      /\ pending' = [pending EXCEPT ![t] = @ + 1]
      /\ UNCHANGED <<cancelled, destroyed, todo, finished, queue, syncActive, exec>>
      /\ UNCHANGED <<copyExec, commandErr, closed, retained, cl, closes, leaving>>
  BY DEF Goto, Claim, execVars, closeVars
<1>2. TypeOK BY DEF CountsExact
<1>3. \A x \in Calls : pc'[x] = IF x = w THEN "count" ELSE pc[x] BY <1>1, <1>2 DEF TypeOK
<1>4. \A x \in Waits : lane'[x] = IF x = w THEN t ELSE lane[x] BY <1>1, <1>2 DEF TypeOK
<1>5. \A u \in Threads : Queued(u)' = Queued(u) BY <1>1 DEF Queued
<1>6. Members(waitLanes) \subseteq Members(waitLanes') /\ t \in Members(waitLanes')
  <2>1. waitLanes \in Seq(Threads) BY <1>2 DEF TypeOK
  <2>2. Members(Append(waitLanes, t)) = Members(waitLanes) \cup {t} BY <2>1, AppendFacts
  <2> QED BY <2>2
<1>7. \A u \in Threads : w \notin Queued(u)
  BY DEF QueuesExact, Queued, Sent
<1>8. CountsExact'
  <2>1. InFlight(t)' = InFlight(t) \cup {w} /\ w \notin InFlight(t)
    BY <1>3, <1>4, <1>5, <1>7 DEF InFlight
  <2>2. \A u \in Threads : u # t => InFlight(u)' = InFlight(u)
    BY <1>3, <1>4, <1>5, <1>7 DEF InFlight
  <2>3. Tracked' = Tracked BY <1>3, <1>5, <1>7 DEF Tracked
  <2>4. Cardinality(InFlight(t)') = Cardinality(InFlight(t)) + 1
    BY <2>1, CountsFinite, FS_AddElement
  <2>5. \A u \in Threads : pending'[u] = IF u = t THEN pending[u] + 1 ELSE pending[u]
    BY <1>1, <1>2 DEF TypeOK
  <2>6. \A u \in Threads : pending'[u] = Cardinality(InFlight(u)')
    BY <2>2, <2>4, <2>5 DEF CountsExact
  <2> QED BY <1>1, <2>3, <2>6 DEF CountsExact
<1>9. Places' BY <1>3 DEF Places, WaitPCs
<1>10. Usable' <=> Usable BY <1>1 DEF Usable
<1>11. Locking'
  <2>1. w \in InOp BY DEF InOp
  <2>2. Usable /\ cl \in {"idle", "lock"} BY <2>1 DEF Locking
  <2> QED BY <1>1, <1>3, <1>10, <2>2 DEF Locking, InOp
<1>12. LanesKept' BY <1>1, <1>3, <1>4, <1>6 DEF LanesKept
<1>13. QueuesExact'
  <2>1. \A u \in Threads : \A i \in DOMAIN queue[u] : queue[u][i] \in Calls /\ queue[u][i] # w
    <3>1. \A u \in Threads : queue[u] \in Seq(Calls) BY <1>2 DEF TypeOK
    <3> QED BY <1>7, <3>1 DEF Queued
  <2>2. \A x \in Calls : x # w => Place(x)' = Place(x) BY <1>1, <1>3, <1>4 DEF Place
  <2>3. w \notin finished BY DEF QueuesExact, Sent
  <2>4. finished \subseteq Calls BY <1>2 DEF TypeOK
  <2> QED BY <1>1, <1>3, <1>6, <2>1, <2>2, <2>3, <2>4 DEF QueuesExact
<1>14. Barriers'
  <2>1. \A d \in Destroys : pc'[d] = pc[d] BY <1>3
  <2>2. \A d \in Destroys : pc'[d] \notin {"start", "queued", "done"} =>
          \A x \in Waits : Left(d, x)'
    BY <1>3, <2>1 DEF Barriers, Left
  <2>3. NoWaitOnDestroyed' BY <1>1, <1>5 DEF Barriers, NoWaitOnDestroyed
  <2>4. \A x \in Waits : Handle[x] \in destroyed' => pc'[x] \in {"start", "done"}
    BY <1>1, <1>3 DEF Barriers
  <2> QED BY <1>1, <1>5, <2>1, <2>2, <2>3, <2>4 DEF Barriers
<1>15. RetainBalance' BY <1>1 DEF RetainBalance
<1> QED BY <1>8, <1>9, <1>11, <1>12, <1>13, <1>14, <1>15

\* acquireWaitLane finds a lane, at once or under laneCreateMu.
LEMMA ReuseSteps ==
  ASSUME CInv, NEW w \in Waits, AcquireReuse(w) \/ AcquireRetry(w)
  PROVE  CInv'
<1> USE Constants
<1>1. PICK t : t = ReuseLane
  OBVIOUS
<1>2. /\ pc[w] \in {"acquire", "mutex"} /\ Reusable /\ Claim(w, t)
      /\ UNCHANGED <<cancelled, destroyed, todo, queue, waitLanes, syncActive>>
      /\ UNCHANGED <<creating, finished, threadVars, execVars, closeVars>>
  BY <1>1 DEF AcquireReuse, AcquireRetry
<1>3. TypeOK BY DEF CInv, CountsExact
<1>4. t \in Members(waitLanes) BY <1>1, <1>2, <1>3, ReuseLaneIn
<1>5. t \in Threads BY <1>3, <1>4, SeqFacts DEF TypeOK
<1>6. TypeOK'
  <2>1. pc' \in [Calls -> {"start", "acquire", "mutex", "create", "count",
                           "send", "await", "queued", "locked", "check",
                           "barrier", "noop", "destroy", "destroying",
                           "copy", "submit", "copying", "order",
                           "running", "done"}]
        /\ lane' \in [Waits -> Threads \cup {NoThread}] /\ pending' \in [Threads -> Nat]
    BY <1>2, <1>3, <1>5 DEF TypeOK, Claim, Goto
  <2> QED BY <1>2, <1>3, <2>1 DEF TypeOK, threadVars, execVars, closeVars
<1>7. Usable' <=> Usable BY <1>2 DEF Usable, execVars
<1>8. Roles' BY <1>2, <1>7 DEF CInv, Roles, Good, threadVars, execVars, closeVars
<1>9. Creating'
  <2>1. \A x \in Calls : pc'[x] = IF x = w THEN "count" ELSE pc[x]
    BY <1>2, <1>3 DEF TypeOK, Claim, Goto
  <2> QED BY <1>2, <2>1 DEF CInv, Creating, LaneCap, closeVars
<1> QED BY <1>2, <1>4, <1>5, <1>6, <1>8, <1>9, Claims

\* A wait goes on before its task is on a lane.
LEMMA WaitGoes ==
  ASSUME CInv, NEW w \in Waits, NEW b \in {"create", "send", "done"}, Goto(w, b),
         pc[w] \in {"mutex", "create", "count", "send"},
         b = "send" => pc[w] = "count",
         UNCHANGED <<cancelled, lane, destroyed, todo, queue, waitLanes, finished,
                     execVars, closeVars>>,
         CountsExact', Roles', Creating'
  PROVE  CInv'
<1> USE Constants DEF CInv
<1>1. /\ pc' = [pc EXCEPT ![w] = b]
      /\ UNCHANGED <<cancelled, lane, destroyed, todo, finished, queue, waitLanes, exec>>
      /\ UNCHANGED <<copyExec, commandErr, closed, retained, cl, closes, leaving>>
  BY DEF Goto, execVars, closeVars
<1>2. TypeOK BY DEF CountsExact
<1>3. \A x \in Calls : pc'[x] = IF x = w THEN b ELSE pc[x] BY <1>1, <1>2 DEF TypeOK
<1>4. \A u \in Threads : Queued(u)' = Queued(u) BY <1>1 DEF Queued
<1>5. Places' BY <1>3 DEF Places, WaitPCs
<1>6. Usable' <=> Usable BY <1>1 DEF Usable
<1>7. Locking'
  <2>1. w \in InOp BY DEF InOp
  <2>2. Usable /\ cl \in {"idle", "lock"} BY <2>1 DEF Locking
  <2> QED BY <1>1, <1>3, <1>6, <2>2 DEF Locking, InOp
<1>8. LanesKept' BY <1>1, <1>3 DEF LanesKept
<1>9. QueuesExact'
  <2>1. pc[w] \notin Sent /\ pc[w] # "done" BY DEF Sent
  <2>2. \A u \in Threads : \A i \in DOMAIN queue[u] : queue[u][i] \in Calls /\ queue[u][i] # w
    <3>1. \A u \in Threads : queue[u] \in Seq(Calls) BY <1>2 DEF TypeOK
    <3> QED BY <2>1, <3>1 DEF QueuesExact
  <2>3. \A x \in Calls : x # w => Place(x)' = Place(x) BY <1>1, <1>3 DEF Place
  <2>4. w \notin finished /\ finished \subseteq Calls BY <1>2, <2>1 DEF QueuesExact, TypeOK
  <2> QED BY <1>1, <1>3, <2>2, <2>3, <2>4 DEF QueuesExact
<1>10. Barriers'
  <2>1. \A d \in Destroys : pc'[d] = pc[d] BY <1>3
  <2>2. \A d \in Destroys : pc'[d] \notin {"start", "queued", "done"} =>
          \A x \in Waits : Left(d, x)'
    BY <1>3, <2>1 DEF Barriers, Left
  <2>3. NoWaitOnDestroyed' BY <1>1, <1>4 DEF Barriers, NoWaitOnDestroyed
  <2>4. \A x \in Waits : Handle[x] \in destroyed' => pc'[x] \in {"start", "done"}
    BY <1>1, <1>3 DEF Barriers
  <2> QED BY <1>1, <1>4, <2>1, <2>2, <2>3, <2>4 DEF Barriers
<1>11. RetainBalance' BY <1>1 DEF RetainBalance
<1> QED BY <1>5, <1>7, <1>8, <1>9, <1>10, <1>11

\* laneCreateMu is taken: there is no idle lane and the cap is not reached.
LEMMA AcquireCreateStep == ASSUME CInv, NEW w \in Waits, AcquireCreate(w) PROVE CInv'
<1> USE Constants
<1>1. /\ pc[w] = "mutex" /\ creating = NoCall /\ creating' = w /\ ~Reusable
      /\ Goto(w, "create") /\ pc' = [pc EXCEPT ![w] = "create"]
      /\ UNCHANGED <<cancelled, lane, destroyed, todo, queue, waitLanes, pending>>
      /\ UNCHANGED <<syncActive, finished, thread, bound, execVars, closeVars>>
      /\ UNCHANGED <<exec, copyExec, commandErr, closed, retained, cl, closes, leaving>>
  BY DEF AcquireCreate, Goto, threadVars, execVars, closeVars
<1>2. TypeOK BY DEF CInv, CountsExact
<1>3. TypeOK' BY <1>1, <1>2 DEF TypeOK
<1>4. \A x \in Calls : pc'[x] = IF x = w THEN "create" ELSE pc[x]
  BY <1>1, <1>2 DEF TypeOK
<1>5. \A u \in Threads : Queued(u)' = Queued(u) BY <1>1 DEF Queued
<1>6. CountsExact' BY <1>1, <1>3, <1>4, <1>5, CountsStay DEF CInv
<1>7. Usable' <=> Usable BY <1>1 DEF Usable
<1>8. Roles' BY <1>1, <1>7 DEF CInv, Roles, Good
<1>9. Creating'
  <2>1. Len(waitLanes) < MaxLanes
    <3>1. Len(waitLanes) \in Nat BY <1>2, SeqFacts DEF TypeOK
    <3> QED BY <1>1, <3>1 DEF Reusable
  <2> QED BY <1>1, <1>4, <2>1 DEF CInv, Creating, LaneCap
<1> QED BY <1>1, <1>6, <1>8, <1>9, WaitGoes

\* The job is counted before the lane can see it.
LEMMA TrackStep == ASSUME CInv, NEW w \in Waits, Track(w) PROVE CInv'
<1> USE Constants
<1>1. /\ pc[w] = "count" /\ syncActive' = syncActive + 1
      /\ Goto(w, "send") /\ pc' = [pc EXCEPT ![w] = "send"]
      /\ UNCHANGED <<cancelled, lane, destroyed, todo, queue, waitLanes, pending>>
      /\ UNCHANGED <<creating, finished, thread, bound, execVars, closeVars>>
      /\ UNCHANGED <<exec, copyExec, commandErr, closed, retained, cl, closes, leaving>>
  BY DEF Track, Goto, threadVars, execVars, closeVars
<1>2. TypeOK BY DEF CInv, CountsExact
<1>3. TypeOK' BY <1>1, <1>2 DEF TypeOK
<1>4. \A x \in Calls : pc'[x] = IF x = w THEN "send" ELSE pc[x]
  BY <1>1, <1>2 DEF TypeOK
<1>5. \A u \in Threads : Queued(u)' = Queued(u) BY <1>1 DEF Queued
<1>6. CountsExact'
  <2>1. \A u \in Threads : w \notin Queued(u)
    BY <1>1 DEF CInv, QueuesExact, Queued, Sent
  <2>2. \A u \in Threads : InFlight(u)' = InFlight(u) BY <1>1, <1>4, <1>5 DEF InFlight
  <2>3. Tracked' = Tracked \cup {w} /\ w \notin Tracked
    BY <1>1, <1>4, <1>5, <2>1 DEF Tracked
  <2>4. Cardinality(Tracked') = Cardinality(Tracked) + 1
    BY <2>3, CountsFinite, FS_AddElement
  <2> QED BY <1>1, <1>3, <2>2, <2>4 DEF CInv, CountsExact
<1>7. Usable' <=> Usable BY <1>1 DEF Usable
<1>8. Roles' BY <1>1, <1>7 DEF CInv, Roles, Good
<1>9. Creating' BY <1>1, <1>4 DEF CInv, Creating, LaneCap
<1> QED BY <1>1, <1>6, <1>8, <1>9, WaitGoes

\* A recycled wait leaves the counts of its lane and of the context.
LEMMA CountedDown ==
  ASSUME CInv, NEW w \in Waits, NEW t \in Threads, lane[w] = t,
         w \in InFlight(t), w \in Tracked, RecycleTracked(t),
         InFlight(t)' = InFlight(t) \ {w}, Tracked' = Tracked \ {w},
         \A u \in Threads : u # t => InFlight(u)' = InFlight(u)
  PROVE  /\ pending' \in [Threads -> Nat] /\ syncActive' \in Nat
         /\ \A u \in Threads : pending'[u] = Cardinality(InFlight(u))'
         /\ syncActive' = Cardinality(Tracked)'
<1>1. pending \in [Threads -> Nat] /\ syncActive \in Nat
  BY DEF CInv, CountsExact, TypeOK
<1>2. Cardinality(InFlight(t)') = Cardinality(InFlight(t)) - 1 /\ Cardinality(InFlight(t)') \in Nat
  BY CountsFinite, FS_RemoveElement, FS_CardinalityType
<1>3. Cardinality(Tracked') = Cardinality(Tracked) - 1 /\ Cardinality(Tracked') \in Nat
  BY CountsFinite, FS_RemoveElement, FS_CardinalityType
<1>4. pending[t] = Cardinality(InFlight(t)) /\ syncActive = Cardinality(Tracked)
  BY DEF CInv, CountsExact
<1>5. /\ syncActive' = Cardinality(Tracked') /\ syncActive' \in Nat
      /\ pending' = [pending EXCEPT ![t] = Cardinality(InFlight(t)')]
  BY <1>1, <1>2, <1>3, <1>4 DEF RecycleTracked
<1>6. \A u \in Threads : u # t => pending[u] = Cardinality(InFlight(u)')
  BY DEF CInv, CountsExact
<1> QED BY <1>1, <1>2, <1>5, <1>6

\* Cancelled before the lane accepted the job.
LEMMA GiveUpStep == ASSUME CInv, NEW w \in Waits, GiveUpWait(w) PROVE CInv'
<1> USE Constants
<1>1. /\ pc[w] = "send" /\ RecycleTracked(lane[w])
      /\ Goto(w, "done") /\ pc' = [pc EXCEPT ![w] = "done"]
      /\ UNCHANGED <<cancelled, lane, destroyed, todo, queue, waitLanes>>
      /\ UNCHANGED <<creating, finished, thread, bound, execVars, closeVars>>
      /\ UNCHANGED <<exec, copyExec, commandErr, closed, retained, cl, closes, leaving>>
  BY DEF GiveUpWait, Goto, threadVars, execVars, closeVars
<1>2. TypeOK BY DEF CInv, CountsExact
<1>3. lane[w] \in Threads
  <2>1. lane[w] \in Members(waitLanes) BY <1>1 DEF CInv, LanesKept
  <2> QED BY <1>2, <2>1, SeqFacts DEF TypeOK
<1>4. \A x \in Calls : pc'[x] = IF x = w THEN "done" ELSE pc[x]
  BY <1>1, <1>2 DEF TypeOK
<1>5. \A u \in Threads : Queued(u)' = Queued(u) BY <1>1 DEF Queued
<1>6. \A u \in Threads : w \notin Queued(u)
  BY <1>1 DEF CInv, QueuesExact, Queued, Sent
<1>7. Tracked' = Tracked \ {w} /\ w \in Tracked
  BY <1>1, <1>4, <1>5, <1>6 DEF Tracked
<1>8. PICK t \in Threads : t = lane[w] BY <1>3
<1>9. /\ pending' \in [Threads -> Nat] /\ syncActive' \in Nat
       /\ \A u \in Threads : pending'[u] = Cardinality(InFlight(u))'
       /\ syncActive' = Cardinality(Tracked)'
  <2>1. InFlight(t)' = InFlight(t) \ {w} /\ w \in InFlight(t)
        /\ \A u \in Threads : u # t => InFlight(u)' = InFlight(u)
    BY <1>1, <1>3, <1>4, <1>5, <1>6, <1>8 DEF InFlight
  <2> QED BY <1>1, <1>7, <1>8, <2>1, CountedDown
<1>10. TypeOK' BY <1>1, <1>2, <1>9 DEF TypeOK
<1>11. CountsExact' BY <1>9, <1>10 DEF CountsExact
<1>12. Usable' <=> Usable BY <1>1 DEF Usable
<1>13. Roles' BY <1>1, <1>12 DEF CInv, Roles, Good
<1>14. Creating' BY <1>1, <1>4 DEF CInv, Creating, LaneCap
<1> QED BY <1>1, <1>11, <1>13, <1>14, WaitGoes

\* A thread on which the context cannot be made current is parked.
LEMMA BindFailsKeeps ==
  ASSUME CInv, BindFails,
         UNCHANGED <<waitLanes, leaving, exec, copyExec, commandErr, closed>>
  PROVE  Roles' /\ thread' \in [Threads -> {"unborn", "pinned", "free", "parked"}] /\ bound' = bound
<1>1. TypeOK BY DEF CInv, CountsExact
<1>2. PICK t \in Unborn : thread' = [thread EXCEPT ![t] = "parked"] /\ bound' = bound
  BY DEF BindFails
<1>3. t \in Threads /\ thread[t] = "unborn" BY <1>2 DEF Unborn
<1>4. \A u \in Threads : thread'[u] = IF u = t THEN "parked" ELSE thread[u]
  BY <1>1, <1>2 DEF TypeOK
<1>5. exec \in Threads /\ (copyExec # NoThread => copyExec \in Threads)
      /\ Members(waitLanes) \subseteq Threads /\ Members(leaving) \subseteq Threads
  BY <1>1, SeqFacts DEF TypeOK
<1>6. \A u \in Threads : Good(u) => Good(u)' BY <1>2, <1>3, <1>4 DEF Good
<1>7. Usable' <=> Usable BY DEF Usable
<1>8. Roles'
  <2>1. \A u \in Members(waitLanes) \cup Members(leaving) : Good(u)' /\ u # exec /\ u # copyExec
    BY <1>5, <1>6 DEF CInv, Roles
  <2>2. copyExec # NoThread => Good(copyExec)' /\ copyExec # exec
    BY <1>4, <1>3, <1>2, <1>5 DEF CInv, Roles, Good
  <2>3. thread'[exec] # "unborn" /\ (Usable => Good(exec)')
    BY <1>4, <1>3, <1>2, <1>5 DEF CInv, Roles, Good
  <2>4. \A u \in Threads :
          /\ thread'[u] = "pinned" => \/ Usable /\ u = exec
                                      \/ u = copyExec
                                      \/ u \in Members(waitLanes) \cup Members(leaving)
          /\ thread'[u] = "free" => u \notin bound'
    BY <1>2, <1>4 DEF CInv, Roles
  <2> QED BY <1>7, <2>1, <2>2, <2>3, <2>4 DEF CInv, Roles, Good
<1>9. thread' \in [Threads -> {"unborn", "pinned", "free", "parked"}]
  BY <1>1, <1>2 DEF TypeOK
<1> QED BY <1>2, <1>8, <1>9

\* So the wait that wanted a lane returns the error.
LEMMA CreateFailsStep == ASSUME CInv, NEW w \in Waits, CreateFails(w) PROVE CInv'
<1> USE Constants
<1>1. /\ pc[w] = "create" /\ BindFails /\ creating' = NoCall
      /\ Goto(w, "done") /\ pc' = [pc EXCEPT ![w] = "done"]
      /\ UNCHANGED <<cancelled, lane, destroyed, todo, queue, waitLanes, pending>>
      /\ UNCHANGED <<syncActive, finished, execVars, closeVars>>
      /\ UNCHANGED <<exec, copyExec, commandErr, closed, retained, cl, closes, leaving>>
  BY DEF CreateFails, Goto, execVars, closeVars
<1>2. TypeOK BY DEF CInv, CountsExact
<1>3. Roles' /\ thread' \in [Threads -> {"unborn", "pinned", "free", "parked"}] /\ bound' = bound
  BY <1>1, BindFailsKeeps
<1>4. TypeOK' BY <1>1, <1>2, <1>3 DEF TypeOK
<1>5. \A x \in Calls : pc'[x] = IF x = w THEN "done" ELSE pc[x]
  BY <1>1, <1>2 DEF TypeOK
<1>6. \A u \in Threads : Queued(u)' = Queued(u) BY <1>1 DEF Queued
<1>7. CountsExact' BY <1>1, <1>4, <1>5, <1>6, CountsStay DEF CInv
<1>8. Creating' BY <1>1, <1>5 DEF CInv, Creating, LaneCap
<1> QED BY <1>1, <1>3, <1>7, <1>8, WaitGoes

\* A new thread has no role yet, and the context becomes current on it.
LEMMA BindFacts ==
  ASSUME CInv, NEW t \in Unborn, Bind(t)
  PROVE  /\ t \in Threads /\ t # exec /\ t # copyExec
         /\ t \notin Members(waitLanes) /\ t \notin Members(leaving)
         /\ \A u \in Threads : thread'[u] = IF u = t THEN "pinned" ELSE thread[u]
         /\ thread' \in [Threads -> {"unborn", "pinned", "free", "parked"}]
         /\ bound' = bound \cup {t} /\ bound' \subseteq Threads
         /\ Good(t)' /\ \A u \in Threads : Good(u) => Good(u)'
<1>1. TypeOK BY DEF CInv, CountsExact
<1>2. t \in Threads /\ thread[t] = "unborn" /\ NoThread \notin Threads
  BY Constants DEF Unborn
<1>3. /\ thread' = [thread EXCEPT ![t] = "pinned"] /\ bound' = bound \cup {t}
      /\ \A u \in Threads : thread'[u] = IF u = t THEN "pinned" ELSE thread[u]
      /\ thread' \in [Threads -> {"unborn", "pinned", "free", "parked"}]
      /\ bound \subseteq Threads
  BY <1>1, <1>2 DEF Bind, TypeOK
<1>4. Good(t)' /\ \A u \in Threads : Good(u) => Good(u)' BY <1>2, <1>3 DEF Good
<1>5. ~Good(t) BY <1>2 DEF Good
<1>6. t # exec /\ t # copyExec /\ t \notin Members(waitLanes) /\ t \notin Members(leaving)
  BY <1>2, <1>5 DEF CInv, Roles
<1> QED BY <1>2, <1>3, <1>4, <1>6

\* A new lane is published with one wait on it.
LEMMA CreateLaneStep == ASSUME CInv, NEW w \in Waits, CreateLane(w) PROVE CInv'
<1> USE Constants
<1>1. PICK t \in Unborn : Bind(t) /\ waitLanes' = Append(waitLanes, t) /\ Claim(w, t)
  BY DEF CreateLane
<1>2. /\ pc[w] = "create" /\ creating' = NoCall /\ pc' = [pc EXCEPT ![w] = "count"]
      /\ lane' = [lane EXCEPT ![w] = t] /\ pending' = [pending EXCEPT ![t] = @ + 1]
      /\ UNCHANGED <<cancelled, destroyed, todo, queue, syncActive, finished>>
      /\ UNCHANGED <<execVars, closeVars>>
      /\ UNCHANGED <<exec, copyExec, commandErr, closed, retained, cl, closes, leaving>>
  BY <1>1 DEF CreateLane, Claim, Goto, execVars, closeVars
<1>3. TypeOK BY DEF CInv, CountsExact
<1>4. /\ t \in Threads /\ t # exec /\ t # copyExec
      /\ t \notin Members(waitLanes) /\ t \notin Members(leaving)
      /\ \A u \in Threads : thread'[u] = IF u = t THEN "pinned" ELSE thread[u]
      /\ thread' \in [Threads -> {"unborn", "pinned", "free", "parked"}]
      /\ bound' = bound \cup {t} /\ bound' \subseteq Threads
      /\ Good(t)' /\ \A u \in Threads : Good(u) => Good(u)'
  BY <1>1, BindFacts
<1>5. /\ waitLanes \in Seq(Threads) /\ exec \in Threads
      /\ copyExec \in Threads \cup {NoThread}
      /\ Members(waitLanes) \subseteq Threads /\ Members(leaving) \subseteq Threads
  BY <1>3, SeqFacts DEF TypeOK
<1>6. /\ waitLanes' \in Seq(Threads) /\ Len(waitLanes') = Len(waitLanes) + 1
      /\ Members(waitLanes') = Members(waitLanes) \cup {t} /\ Len(waitLanes) \in Nat
      /\ Distinct(waitLanes')
  <2>1. Distinct(waitLanes) BY DEF CInv, Roles
  <2> QED BY <1>1, <1>4, <1>5, <2>1, AppendFacts, SeqFacts
<1>7. TypeOK'
  <2>1. pc' \in [Calls -> {"start", "acquire", "mutex", "create", "count",
                           "send", "await", "queued", "locked", "check",
                           "barrier", "noop", "destroy", "destroying",
                           "copy", "submit", "copying", "order",
                           "running", "done"}]
        /\ lane' \in [Waits -> Threads \cup {NoThread}] /\ pending' \in [Threads -> Nat]
    BY <1>2, <1>3, <1>4 DEF TypeOK
  <2> QED BY <1>2, <1>3, <1>4, <1>6, <2>1 DEF TypeOK
<1>8. Usable' <=> Usable BY <1>2 DEF Usable
<1>9. Roles'
  <2>1. \A u \in Members(waitLanes') \cup Members(leaving) : Good(u)' /\ u # exec /\ u # copyExec
    BY <1>4, <1>5, <1>6 DEF CInv, Roles
  <2>2. /\ copyExec # NoThread => Good(copyExec)' /\ copyExec # exec
        /\ thread'[exec] # "unborn" /\ (Usable => Good(exec)')
    BY <1>2, <1>4, <1>5 DEF CInv, Roles, Good
  <2>3. \A u \in Threads :
          /\ thread'[u] = "pinned" => \/ Usable /\ u = exec
                                      \/ u = copyExec
                                      \/ u \in Members(waitLanes') \cup Members(leaving)
          /\ thread'[u] = "free" => u \notin bound'
    BY <1>4, <1>6 DEF CInv, Roles
  <2> QED BY <1>2, <1>6, <1>8, <2>1, <2>2, <2>3 DEF CInv, Roles, Good
<1>10. Creating'
  <2>1. \A x \in Calls : pc'[x] = IF x = w THEN "count" ELSE pc[x]
    BY <1>2, <1>3 DEF TypeOK
  <2>2. creating = w /\ Len(waitLanes) < MaxLanes BY <1>2 DEF CInv, Creating
  <2>3. \A x \in Waits : pc'[x] # "create" BY <1>2, <2>1, <2>2 DEF CInv, Creating
  <2>4. leaving = <<>> /\ Len(leaving) = 0
    <3>1. w \in InOp BY <1>2 DEF InOp
    <3> QED BY <3>1 DEF CInv, Locking
  <2>5. LaneCap' BY <1>2, <1>6, <2>2, <2>4 DEF LaneCap
  <2> QED BY <1>2, <2>3, <2>5 DEF Creating
<1> QED BY <1>1, <1>2, <1>4, <1>7, <1>9, <1>10, Claims

----------------------------------------------------------------------------
(* Barriers, and the work of the threads.                                  *)

\* A destroy has the lanes of s before it, on which every wait for its handle
\* is that is still on a lane.
LEMMA BarrierGoes ==
  ASSUME CInv, NEW d \in Destroys, NEW s \in Seq(Threads), Goto(d, "barrier"),
         pc[d] = "check" \/ (pc[d] = "noop" /\ d \in finished),
         todo' = [todo EXCEPT ![d] = s], finished' = finished \ {d},
         Members(s) \subseteq Members(waitLanes),
         \A w \in Waits, t \in Threads :
           Handle[w] = Handle[d] /\ w \in Queued(t) => t \in Members(s),
         UNCHANGED <<cancelled, lane, destroyed, queue, waitLanes, pending,
                     syncActive, creating, threadVars, execVars, closeVars>>
  PROVE  CInv'
<1> USE Constants DEF CInv
<1>1. /\ pc' = [pc EXCEPT ![d] = "barrier"]
      /\ UNCHANGED <<cancelled, lane, destroyed, thread, bound>>
      /\ UNCHANGED <<queue, waitLanes, pending, syncActive, creating, exec>>
      /\ UNCHANGED <<copyExec, commandErr, closed, retained, cl, closes, leaving>>
  BY DEF Goto, threadVars, execVars, closeVars
<1>2. TypeOK BY DEF CountsExact
<1>3. TypeOK' BY <1>1, <1>2 DEF TypeOK
<1>4. \A x \in Calls : pc'[x] = IF x = d THEN "barrier" ELSE pc[x]
  BY <1>1, <1>2 DEF TypeOK
<1>5. \A x \in Destroys : todo'[x] = IF x = d THEN s ELSE todo[x] BY <1>2 DEF TypeOK
<1>6. \A t \in Threads : Queued(t)' = Queued(t) BY <1>1 DEF Queued
<1>7. CountsExact' BY <1>1, <1>3, <1>4, <1>6, CountsStay
<1>8. Places' BY <1>4 DEF Places, DestroyPCs
<1>9. Usable' <=> Usable BY <1>1 DEF Usable
<1>10. Locking'
  <2>1. d \in InOp BY DEF InOp
  <2> QED BY <1>1, <1>4, <1>9, <2>1 DEF Locking, InOp
<1>11. Roles' BY <1>1, <1>9 DEF Roles, Good
<1>12. Creating' BY <1>1, <1>4 DEF Creating, LaneCap
<1>13. LanesKept' BY <1>1, <1>4, <1>5 DEF LanesKept
<1>14. QueuesExact'
  <2>1. \A u \in Threads : \A i \in DOMAIN queue[u] : queue[u][i] \in Calls /\ queue[u][i] # d
    <3>1. \A u \in Threads : queue[u] \in Seq(Calls) BY <1>2 DEF TypeOK
    <3>2. \A u \in Threads : \A i \in DOMAIN queue[u] : queue[u][i] # d
      <4>1. d \notin Waits OBVIOUS
      <4>2. CASE pc[d] = "check"
        <5>1. pc[d] \notin Sent BY <4>2 DEF Sent
        <5> QED BY <4>1, <5>1 DEF QueuesExact
      <4>3. CASE d \in finished BY <4>3 DEF QueuesExact
      <4> QED BY <4>2, <4>3
    <3> QED BY <3>1, <3>2
  <2>2. \A x \in Calls : x # d => Place(x)' = Place(x) BY <1>1, <1>4, <1>5 DEF Place
  <2>3. finished \subseteq Calls BY <1>2 DEF TypeOK
  <2> QED BY <1>1, <1>4, <2>1, <2>2, <2>3 DEF QueuesExact
<1>15. Barriers'
  <2>1. \A x \in Destroys : pc'[x] \notin {"start", "queued", "done"} =>
          \A w \in Waits : Left(x, w)'
    BY <1>4 DEF Barriers, Left
  <2>2. \A x \in Destroys, w \in Waits, t \in Threads :
          Handle[w] = Handle[x] /\ w \in Queued(t)' =>
            /\ pc'[x] \in {"barrier", "noop"} => t \in Members(todo'[x])
            /\ pc'[x] = "noop" /\ t = Head(todo'[x]) =>
                 /\ x \notin finished'
                 /\ \A i, j \in DOMAIN queue[t] :
                      queue[t][i] = w /\ queue[t][j] = x => i < j
            /\ pc'[x] \notin {"destroy", "destroying"}
    BY <1>4, <1>5, <1>6 DEF Barriers
  <2>3. NoWaitOnDestroyed' BY <1>1, <1>6 DEF Barriers, NoWaitOnDestroyed
  <2>4. \A w \in Waits : Handle[w] \in destroyed' => pc'[w] \in {"start", "done"}
    BY <1>1, <1>4 DEF Barriers
  <2> QED BY <1>1, <2>1, <2>2, <2>3, <2>4 DEF Barriers
<1>16. RetainBalance' BY <1>1 DEF RetainBalance
<1> QED BY <1>7, <1>8, <1>10, <1>11, <1>12, <1>13, <1>14, <1>15, <1>16

\* The snapshot: no job is counted, so none is on a lane, or every lane.
LEMMA BarrierCheckStep == ASSUME CInv, NEW d \in Destroys, BarrierCheck(d) PROVE CInv'
<1> USE Constants
<1>1. TypeOK BY DEF CInv, CountsExact
<1>2. PICK s : s = IF syncActive = 0 THEN <<>> ELSE waitLanes
  OBVIOUS
<1>3. waitLanes \in Seq(Threads) /\ s \in Seq(Threads) BY <1>1, <1>2 DEF TypeOK
<1>4. Members(s) \subseteq Members(waitLanes) BY <1>2, NoMembers
<1>5. finished' = finished \ {d}
  BY DEF BarrierCheck, laneVars, CInv, QueuesExact, Sent
<1>6. ASSUME NEW w \in Waits, NEW t \in Threads, w \in Queued(t)
      PROVE  t \in Members(s)
  <2>1. w \in Tracked BY <1>6 DEF Tracked
  <2>2. syncActive # 0 BY <2>1, CountsFinite, FS_EmptySet DEF CInv, CountsExact
  <2>3. d \in InOp BY DEF BarrierCheck, InOp
  <2>4. leaving = <<>> BY <2>3 DEF CInv, Locking
  <2>5. t \in Members(waitLanes) \cup Members(leaving)
    BY <1>6 DEF CInv, QueuesExact, Queued
  <2> QED BY <1>2, <2>2, <2>4, <2>5, NoMembers
<1> QED BY <1>2, <1>3, <1>4, <1>5, <1>6, BarrierGoes DEF BarrierCheck, laneVars

\* The noop has come through: nothing it waited for is left on that lane.
LEMMA BarrierPassStep == ASSUME CInv, NEW d \in Destroys, BarrierPass(d) PROVE CInv'
<1> USE Constants
<1>1. TypeOK BY DEF CInv, CountsExact
<1>2. PICK s : s = Tail(todo[d])
  OBVIOUS
<1>3. todo[d] \in Seq(Threads) /\ todo[d] # <<>>
  BY <1>1 DEF BarrierPass, TypeOK, CInv, LanesKept
<1>4. s \in Seq(Threads) /\ Members(todo[d]) = Members(s) \cup {Head(todo[d])}
  BY <1>2, <1>3, TailFacts
<1>5. Members(s) \subseteq Members(waitLanes)
  BY <1>4 DEF BarrierPass, CInv, LanesKept
<1>6. \A w \in Waits, t \in Threads :
        Handle[w] = Handle[d] /\ w \in Queued(t) => t \in Members(s)
  BY <1>4 DEF BarrierPass, CInv, Barriers
<1>7. todo' = [todo EXCEPT ![d] = s] BY <1>2 DEF BarrierPass
<1> QED BY <1>4, <1>5, <1>6, <1>7, BarrierGoes DEF BarrierPass

\* A thread finishes the task it runs.
LEMMA RunTaskStep == ASSUME CInv, NEW t \in Threads, RunTask(t) PROVE CInv'
<1> USE Constants
<1>1. PICK k : k = Head(queue[t])
  OBVIOUS
<1>2. /\ queue[t] # <<>> /\ queue' = [queue EXCEPT ![t] = Tail(@)]
      /\ finished' = IF pc[k] = "done" THEN finished ELSE finished \cup {k}
      /\ IF k \in Waits THEN RecycleTracked(t) ELSE UNCHANGED <<pending, syncActive>>
      /\ destroyed' = destroyed \/ (pc[k] = "destroying" /\ destroyed' = destroyed \cup {Handle[k]})
      /\ UNCHANGED <<pc, cancelled, lane, todo, waitLanes, creating, thread, bound>>
      /\ UNCHANGED <<exec, copyExec, commandErr, closed, retained, cl, closes, leaving>>
  BY <1>1 DEF RunTask, threadVars, execVars, closeVars
<1>3. TypeOK BY DEF CInv, CountsExact
<1>4. /\ \A u \in Threads : queue[u] \in Seq(Calls)
      /\ \A u \in Threads : u # t => queue'[u] = queue[u]
      /\ queue'[t] = Tail(queue[t])
  BY <1>2, <1>3 DEF TypeOK
<1>5. /\ k \in Calls /\ 1 \in DOMAIN queue[t] /\ queue[t][1] = k
      /\ \A i \in DOMAIN queue'[t] : i + 1 \in DOMAIN queue[t] /\ queue'[t][i] = queue[t][i + 1]
      /\ queue'[t] \in Seq(Calls) /\ Members(queue[t]) = Members(queue'[t]) \cup {k}
      /\ Distinct(queue'[t]) /\ k \notin Members(queue'[t])
  <2>1. Distinct(queue[t]) BY DEF CInv, QueuesExact
  <2> QED BY <1>1, <1>2, <1>4, <2>1, TailFacts
<1>6. /\ t = Place(k) /\ k \notin finished
      /\ pc[k] \in Sent \/ (k \in Waits /\ pc[k] = "done")
  BY <1>5 DEF CInv, QueuesExact
<1>7. \A u \in Threads : u # t => k \notin Queued(u)
  BY <1>6 DEF CInv, QueuesExact, Queued
<1>8. \A u \in Threads : Queued(u)' = Queued(u) \ {k}
  <2>1. Queued(t)' = Queued(t) \ {k} BY <1>5 DEF Queued, Members
  <2>2. \A u \in Threads : u # t => Queued(u)' = Queued(u) BY <1>4 DEF Queued
  <2> QED BY <1>7, <2>1, <2>2
<1>9. k \in Queued(t) BY <1>5 DEF Queued
<1>10. queue' \in [Threads -> Seq(Calls)] BY <1>2, <1>3, <1>4, <1>5 DEF TypeOK
<1>11. pc[k] = "destroying" => k \in Destroys
  BY <1>5 DEF CInv, Places, WaitPCs, CopyPCs, CommandPCs
<1>12. finished' \subseteq Calls /\ destroyed' \subseteq Handles
  <2>1. finished \subseteq Calls /\ destroyed \subseteq Handles BY <1>3 DEF TypeOK
  <2>2. pc[k] = "destroying" => Handle[k] \in Handles BY <1>11
  <2> QED BY <1>2, <1>5, <2>1, <2>2
<1>13. CountsExact'
  <2>1. CASE k \in Waits
    <3>1. lane[k] = t /\ pc[k] \notin {"count", "send"} BY <1>6, <2>1 DEF Place, Sent
    <3>2. /\ InFlight(t)' = InFlight(t) \ {k} /\ k \in InFlight(t)
          /\ \A u \in Threads : u # t => InFlight(u)' = InFlight(u)
      BY <1>2, <1>8, <1>9, <2>1, <3>1 DEF InFlight
    <3>3. Tracked' = Tracked \ {k} /\ k \in Tracked
      <4>1. k \in Tracked /\ k \notin Tracked' BY <1>2, <1>8, <1>9, <2>1, <3>1 DEF Tracked
      <4>2. \A w \in Waits : w # k => (w \in Tracked' <=> w \in Tracked)
        BY <1>2, <1>8 DEF Tracked
      <4> QED BY <4>1, <4>2 DEF Tracked
    <3>4. /\ pending' \in [Threads -> Nat] /\ syncActive' \in Nat
          /\ \A u \in Threads : pending'[u] = Cardinality(InFlight(u))'
          /\ syncActive' = Cardinality(Tracked)'
      BY <1>2, <2>1, <3>1, <3>2, <3>3, CountedDown
    <3>5. TypeOK' BY <1>2, <1>3, <1>10, <1>12, <3>4 DEF TypeOK
    <3> QED BY <3>4, <3>5 DEF CountsExact
  <2>2. CASE k \notin Waits
    <3>1. TypeOK' BY <1>2, <1>3, <1>10, <1>12, <2>2 DEF TypeOK
    <3> QED BY <1>2, <1>8, <2>2, <3>1, CountsStay DEF CInv
  <2> QED BY <2>1, <2>2
<1>14. Places' BY <1>2 DEF CInv, Places
<1>15. Usable' <=> Usable BY <1>2 DEF Usable
<1>16. Locking' BY <1>2, <1>15 DEF CInv, Locking, InOp
<1>17. Roles' BY <1>2, <1>15 DEF CInv, Roles, Good
<1>18. Creating' BY <1>2 DEF CInv, Creating, LaneCap
<1>19. LanesKept' BY <1>2 DEF CInv, LanesKept
<1>20. QueuesExact'
  <2>1. ASSUME NEW u \in Threads, NEW i \in DOMAIN queue'[u]
        PROVE  /\ queue'[u][i] # k
               /\ \E j \in DOMAIN queue[u] : queue'[u][i] = queue[u][j]
    <3>1. CASE u = t BY <1>5, <2>1, <3>1 DEF Members
    <3>2. CASE u # t BY <1>4, <1>7, <2>1, <3>2 DEF Queued
    <3> QED BY <3>1, <3>2
  <2> DEFINE P(x) == IF x \in Waits THEN lane'[x] ELSE IF x \in Copies THEN copyExec'
                     ELSE IF pc'[x] = "noop" THEN Head(todo'[x]) ELSE exec'
  <2>2. \A x : P(x) = Place(x) BY <1>2 DEF Place
  <2> HIDE DEF P
  <2>3. \A u \in Threads : \A i \in DOMAIN queue'[u] :
          /\ u = P(queue'[u][i])
          /\ pc'[queue'[u][i]] \in Sent \/ (queue'[u][i] \in Waits /\ pc'[queue'[u][i]] = "done")
          /\ queue'[u][i] \in Waits => u \in Members(waitLanes') \cup Members(leaving')
          /\ queue'[u][i] \notin finished'
    <3>1. ASSUME NEW u \in Threads, NEW i \in DOMAIN queue'[u], NEW x, x = queue'[u][i]
          PROVE  /\ u = P(x)
                 /\ pc'[x] \in Sent \/ (x \in Waits /\ pc'[x] = "done")
                 /\ x \in Waits => u \in Members(waitLanes') \cup Members(leaving')
                 /\ x \notin finished'
      <4>1. PICK j \in DOMAIN queue[u] : x = queue[u][j] BY <2>1, <3>1
      <4>2. x # k BY <2>1, <3>1
      <4> QED BY <1>2, <2>2, <4>1, <4>2 DEF CInv, QueuesExact
    <3> QED BY <3>1
  <2>4. \A u \in Threads : Distinct(queue'[u])
    BY <1>4, <1>5 DEF CInv, QueuesExact
  <2>5. \A x \in finished' : pc'[x] \in Sent BY <1>2, <1>6 DEF CInv, QueuesExact
  <2> QED BY <2>3, <2>4, <2>5 DEF QueuesExact, Place, P
<1>21. Barriers'
  <2>1. \A d \in Destroys : pc'[d] \notin {"start", "queued", "done"} =>
          \A w \in Waits : Left(d, w)'
    BY <1>2 DEF CInv, Barriers, Left
  <2>2. ASSUME NEW d \in Destroys, NEW w \in Waits, NEW u \in Threads,
               Handle[w] = Handle[d], w \in Queued(u)'
        PROVE  /\ pc'[d] \in {"barrier", "noop"} => u \in Members(todo'[d])
               /\ pc'[d] = "noop" /\ u = Head(todo'[d]) =>
                    /\ d \notin finished'
                    /\ \A i, j \in DOMAIN queue'[u] :
                         queue'[u][i] = w /\ queue'[u][j] = d => i < j
               /\ pc'[d] \notin {"destroy", "destroying"}
    <3>1. w \in Queued(u) /\ w # k BY <1>8, <2>2
    <3>2. /\ pc[d] \in {"barrier", "noop"} => u \in Members(todo[d])
          /\ pc[d] = "noop" /\ u = Head(todo[d]) =>
               /\ d \notin finished
               /\ \A i, j \in DOMAIN queue[u] :
                    queue[u][i] = w /\ queue[u][j] = d => i < j
          /\ pc[d] \notin {"destroy", "destroying"}
      BY <2>2, <3>1 DEF CInv, Barriers
    <3>3. ASSUME pc[d] = "noop", u = Head(todo[d])
          PROVE  /\ d \notin finished'
                 /\ \A i, j \in DOMAIN queue'[u] :
                      queue'[u][i] = w /\ queue'[u][j] = d => i < j
      <4>1. CASE u # t
        <5>1. d # k
          <6>1. Place(d) = u BY <3>3 DEF Place
          <6> QED BY <1>6, <4>1, <6>1
        <5> QED BY <1>2, <1>4, <3>2, <3>3, <4>1, <5>1
      <4>2. CASE u = t
        <5>1. d # k
          <6>1. PICK i \in DOMAIN queue[t] : queue[t][i] = w
            BY <3>1, <4>2 DEF Queued
          <6>2. i \in Nat /\ i >= 1 BY <1>4, <6>1, SeqFacts
          <6>3. d = k => i < 1 BY <1>5, <3>2, <3>3, <4>2, <6>1
          <6> QED BY <6>2, <6>3
        <5>2. \A i, j \in DOMAIN queue'[t] : i \in Nat /\ j \in Nat
          BY <1>5, SeqFacts
        <5>3. \A i, j \in DOMAIN queue'[t] :
                queue'[t][i] = w /\ queue'[t][j] = d => i + 1 < j + 1
          BY <1>5, <3>2, <3>3, <4>2
        <5> QED BY <1>2, <3>2, <3>3, <4>2, <5>1, <5>2, <5>3
      <4> QED BY <4>1, <4>2
    <3> QED BY <1>2, <3>2, <3>3
  <2>3. NoWaitOnDestroyed'
    <3>1. ASSUME NEW w \in Waits, Handle[w] \in destroyed', NEW u \in Threads
          PROVE  w \notin Queued(u)'
      <4>1. CASE Handle[w] \in destroyed
        BY <1>8, <4>1 DEF CInv, Barriers, NoWaitOnDestroyed
      <4>2. CASE Handle[w] \notin destroyed
        <5>1. k \in Destroys /\ pc[k] = "destroying" /\ Handle[w] = Handle[k]
          BY <1>2, <1>11, <3>1, <4>2
        <5> QED BY <1>8, <5>1 DEF CInv, Barriers
      <4> QED BY <4>1, <4>2
    <3> QED BY <3>1 DEF NoWaitOnDestroyed
  <2>4. \A w \in Waits : Handle[w] \in destroyed' => pc'[w] \in {"start", "done"}
    BY <1>2, <1>11 DEF CInv, Barriers, Left
  <2> QED BY <2>1, <2>2, <2>3, <2>4 DEF Barriers
<1>22. RetainBalance' BY <1>2 DEF CInv, RetainBalance
<1> QED BY <1>13, <1>14, <1>16, <1>17, <1>18, <1>19, <1>20, <1>21, <1>22 DEF CInv

----------------------------------------------------------------------------
(* The copy executor.                                                      *)

\* A copy that found no copy executor has one, or an error.
LEMMA CopyStarts ==
  ASSUME CInv, NEW k \in Copies, NEW b \in {"submit", "done"}, Goto(k, b),
         pc[k] = "copy", copyExec = NoThread, b = "submit" => copyExec' # NoThread,
         UNCHANGED <<cancelled, lane, destroyed, todo, laneVars, exec, commandErr,
                     closed, retained, closeVars>>,
         TypeOK', Roles'
  PROVE  CInv'
<1> USE Constants DEF CInv
<1>1. /\ pc' = [pc EXCEPT ![k] = b]
      /\ UNCHANGED <<cancelled, lane, destroyed, todo, finished, exec>>
      /\ UNCHANGED <<queue, waitLanes, pending, syncActive, creating>>
      /\ UNCHANGED <<commandErr, closed, retained, cl, closes, leaving>>
  BY DEF Goto, laneVars, closeVars
<1>2. TypeOK BY DEF CountsExact
<1>3. \A x \in Calls : pc'[x] = IF x = k THEN b ELSE pc[x] BY <1>1, <1>2 DEF TypeOK
<1>4. \A u \in Threads : Queued(u)' = Queued(u) BY <1>1 DEF Queued
<1>5. CountsExact' BY <1>1, <1>3, <1>4, CountsStay
<1>6. Places' BY <1>3 DEF Places, CopyPCs
<1>7. Usable' <=> Usable BY <1>1 DEF Usable
<1>8. Locking'
  <2>1. k \in InOp BY DEF InOp
  <2>2. Usable /\ cl \in {"idle", "lock"} BY <2>1 DEF Locking
  <2> QED BY <1>1, <1>3, <1>7, <2>2 DEF Locking, InOp
<1>9. Creating' BY <1>1, <1>3 DEF Creating, LaneCap
<1>10. LanesKept' BY <1>1, <1>3 DEF LanesKept
<1>11. QueuesExact'
  <2>1. pc[k] \notin Sent /\ pc[k] # "done" BY DEF Sent
  <2>2. \A x \in Copies : pc[x] # "copying" BY DEF LanesKept
  <2>3. \A x \in Copies : pc[x] \notin Sent BY <2>2 DEF Places, CopyPCs, Sent
  <2>4. \A u \in Threads : \A i \in DOMAIN queue[u] :
          queue[u][i] \in Calls /\ queue[u][i] \notin Copies
    <3>1. \A u \in Threads : queue[u] \in Seq(Calls) BY <1>2 DEF TypeOK
    <3> QED BY <2>3, <3>1 DEF QueuesExact
  <2>5. \A x \in Calls : x \notin Copies => Place(x)' = Place(x) BY <1>1, <1>3 DEF Place
  <2>6. k \notin finished /\ finished \subseteq Calls BY <1>2, <2>1 DEF QueuesExact, TypeOK
  <2> QED BY <1>1, <1>3, <2>4, <2>5, <2>6 DEF QueuesExact
<1>12. Barriers'
  <2>1. \A d \in Destroys : pc'[d] = pc[d] BY <1>3
  <2>2. \A d \in Destroys : pc'[d] \notin {"start", "queued", "done"} =>
          \A x \in Waits : Left(d, x)'
    BY <1>3, <2>1 DEF Barriers, Left
  <2>3. NoWaitOnDestroyed' BY <1>1, <1>4 DEF Barriers, NoWaitOnDestroyed
  <2>4. \A x \in Waits : Handle[x] \in destroyed' => pc'[x] \in {"start", "done"}
    BY <1>1, <1>3 DEF Barriers
  <2> QED BY <1>1, <1>4, <2>1, <2>2, <2>3, <2>4 DEF Barriers
<1>13. RetainBalance' BY <1>1 DEF RetainBalance
<1> QED BY <1>5, <1>6, <1>8, <1>9, <1>10, <1>11, <1>12, <1>13

\* copyExecutor, under copyMu.
LEMMA CopyExecutorStep == ASSUME CInv, NEW k \in Copies, CopyExecutor(k) PROVE CInv'
<1> USE Constants
<1>1. TypeOK BY DEF CInv, CountsExact
<1>2. CASE copyExec # NoThread BY <1>2, CopyMoves
<1>3. CASE copyExec = NoThread
  <2>1. /\ pc[k] = "copy"
        /\ UNCHANGED <<cancelled, lane, destroyed, todo, finished, exec>>
        /\ UNCHANGED <<queue, waitLanes, pending, syncActive, creating>>
        /\ UNCHANGED <<commandErr, closed, retained, cl, closes, leaving>>
    BY DEF CopyExecutor, laneVars, closeVars
  <2>2. ASSUME NEW t \in Unborn, Bind(t), copyExec' = t, Goto(k, "submit") PROVE CInv'
    <3>1. /\ t \in Threads /\ t # exec /\ t # copyExec
          /\ t \notin Members(waitLanes) /\ t \notin Members(leaving)
          /\ \A u \in Threads : thread'[u] = IF u = t THEN "pinned" ELSE thread[u]
          /\ thread' \in [Threads -> {"unborn", "pinned", "free", "parked"}]
          /\ bound' = bound \cup {t} /\ bound' \subseteq Threads
          /\ Good(t)' /\ \A u \in Threads : Good(u) => Good(u)'
      BY <2>2, BindFacts
    <3>2. exec \in Threads /\ Members(waitLanes) \subseteq Threads /\ Members(leaving) \subseteq Threads
      BY <1>1, SeqFacts DEF TypeOK
    <3>3. TypeOK'
      <4>1. pc' \in [Calls -> {"start", "acquire", "mutex", "create", "count",
                               "send", "await", "queued", "locked", "check",
                               "barrier", "noop", "destroy", "destroying",
                               "copy", "submit", "copying", "order",
                               "running", "done"}]
        BY <1>1, <2>2 DEF TypeOK, Goto
      <4> QED BY <1>1, <2>1, <2>2, <3>1, <4>1 DEF TypeOK
    <3>4. Usable' <=> Usable BY <2>1 DEF Usable
    <3>5. Roles'
      <4>1. \A u \in Members(waitLanes) \cup Members(leaving) : Good(u)' /\ u # exec /\ u # t
        BY <3>1, <3>2 DEF CInv, Roles
      <4>2. Good(t)' /\ t # exec /\ thread'[exec] # "unborn" /\ (Usable => Good(exec)')
        BY <2>1, <3>1, <3>2 DEF CInv, Roles, Good
      <4>3. \A u \in Threads :
              /\ thread'[u] = "pinned" => \/ Usable /\ u = exec
                                          \/ u = t
                                          \/ u \in Members(waitLanes) \cup Members(leaving)
              /\ thread'[u] = "free" => u \notin bound'
        <5>1. ASSUME NEW u \in Threads, thread'[u] = "pinned", u # t
              PROVE  (Usable /\ u = exec) \/ u \in Members(waitLanes) \cup Members(leaving)
          BY <1>3, <3>1, <5>1 DEF CInv, Roles
        <5>2. ASSUME NEW u \in Threads, thread'[u] = "free" PROVE u \notin bound'
          BY <3>1, <5>2 DEF CInv, Roles
        <5> QED BY <5>1, <5>2
      <4> QED BY <2>1, <2>2, <3>4, <4>1, <4>2, <4>3 DEF CInv, Roles, Good
    <3>6. copyExec' # NoThread BY <2>2, <3>1
    <3> QED BY <1>3, <2>1, <2>2, <3>3, <3>5, <3>6, CopyStarts DEF CopyExecutor
  <2>3. ASSUME BindFails, Goto(k, "done"), UNCHANGED copyExec PROVE CInv'
    <3>1. Roles' /\ thread' \in [Threads -> {"unborn", "pinned", "free", "parked"}] /\ bound' = bound
      BY <2>1, <2>3, BindFailsKeeps
    <3>2. TypeOK' BY <1>1, <2>1, <2>3, <3>1 DEF TypeOK, Goto
    <3> QED BY <1>3, <2>1, <2>3, <3>1, <3>2, CopyStarts DEF CopyExecutor
  <2> QED BY <1>3, <2>2, <2>3 DEF CopyExecutor
<1> QED BY <1>2, <1>3

----------------------------------------------------------------------------
(* Close.                                                                  *)

\* What the calls and the threads have in hand does not depend on the rest.
LEMMA CallsStay ==
  ASSUME CInv, UNCHANGED <<pc, lane, destroyed, todo, queue, pending, syncActive>>,
         UNCHANGED finished, TypeOK'
  PROVE  CountsExact' /\ Places' /\ Barriers'
<1>1. \A u \in Threads : Queued(u)' = Queued(u) BY DEF Queued
<1>2. CountsExact' BY <1>1, CountsStay DEF CInv
<1>3. Places' BY DEF CInv, Places
<1>4. Barriers'
  <2>1. NoWaitOnDestroyed' BY <1>1 DEF CInv, Barriers, NoWaitOnDestroyed
  <2> QED BY <1>1, <2>1 DEF CInv, Barriers, Left
<1> QED BY <1>2, <1>3, <1>4

\* A ctx is done.
LEMMA CancelStep == ASSUME CInv, NEW w \in Waits, Cancel(w) PROVE CInv'
<1>1. /\ cancelled' = cancelled \cup {w}
      /\ UNCHANGED <<pc, lane, destroyed, todo, queue, waitLanes, pending>>
      /\ UNCHANGED <<syncActive, creating, finished, thread, bound, exec, copyExec>>
      /\ UNCHANGED <<commandErr, closed, retained, cl, closes, leaving>>
  BY DEF Cancel, laneVars, threadVars, execVars, closeVars
<1>2. TypeOK' BY <1>1 DEF CInv, CountsExact, TypeOK
<1>3. CountsExact' /\ Places' /\ Barriers' BY <1>1, <1>2, CallsStay
<1>4. Usable' <=> Usable BY <1>1 DEF Usable
<1>5. Locking' /\ LanesKept' BY <1>1, <1>4 DEF CInv, Locking, InOp, LanesKept
<1>6. Roles' BY <1>1, <1>4 DEF CInv, Roles, Good
<1>7. Creating' /\ RetainBalance' BY <1>1 DEF CInv, Creating, LaneCap, RetainBalance
<1>8. QueuesExact' BY <1>1 DEF CInv, QueuesExact, Place
<1> QED BY <1>3, <1>5, <1>6, <1>7, <1>8 DEF CInv

\* Close asks for opMu.
LEMMA CloseQueueStep == ASSUME CInv, CloseQueue PROVE CInv'
<1>1. /\ cl = "idle" /\ cl' = "lock" /\ closes < MaxCloses /\ closes' = closes + 1
      /\ UNCHANGED <<pc, cancelled, lane, destroyed, todo, queue, waitLanes, pending>>
      /\ UNCHANGED <<syncActive, creating, finished, thread, bound, exec, copyExec>>
      /\ UNCHANGED <<commandErr, closed, retained, leaving>>
  BY DEF CloseQueue, callVars, laneVars, threadVars, execVars
<1>2. TypeOK'
  <2>1. TypeOK BY DEF CInv, CountsExact
  <2>2. closes' \in 0 .. MaxCloses BY <1>1, <2>1, Constants DEF TypeOK
  <2> QED BY <1>1, <2>1, <2>2 DEF TypeOK
<1>3. CountsExact' /\ Places' /\ Barriers' BY <1>1, <1>2, CallsStay
<1>4. Usable' <=> Usable BY <1>1 DEF Usable
<1>5. Locking' /\ LanesKept' BY <1>1, <1>4 DEF CInv, Locking, InOp, LanesKept
<1>6. Roles' BY <1>1, <1>4 DEF CInv, Roles, Good
<1>7. Creating' /\ RetainBalance' BY <1>1 DEF CInv, Creating, LaneCap, RetainBalance
<1>8. QueuesExact' BY <1>1 DEF CInv, QueuesExact, Place
<1> QED BY <1>3, <1>5, <1>6, <1>7, <1>8 DEF CInv

\* With no call at work, only abandoned waits are left on the threads.
LEMMA Quiet ==
  ASSUME CInv, InOp = {}
  PROVE  /\ \A x \in Calls : pc[x] \in {"start", "queued", "locked", "done"}
         /\ creating = NoCall
         /\ \A u \in Threads : \A i \in DOMAIN queue[u] : queue[u][i] \in Waits
         /\ \A u \in Threads : queue[u] # <<>> =>
              u \in Members(waitLanes) \cup Members(leaving)
<1> USE Constants
<1>1. TypeOK BY DEF CInv, CountsExact
<1>2. \A x \in Calls : pc[x] \in {"start", "queued", "locked", "done"}
  BY DEF InOp
<1>3. creating = NoCall BY <1>1, <1>2 DEF CInv, Creating, TypeOK
<1>4. \A u \in Threads : queue[u] \in Seq(Calls) BY <1>1 DEF TypeOK
<1>5. \A u \in Threads : \A i \in DOMAIN queue[u] : queue[u][i] \in Waits
  <2>1. \A x \in Calls : pc[x] \notin Sent BY <1>2 DEF Sent
  <2> QED BY <1>4, <2>1 DEF CInv, QueuesExact
<1>6. ASSUME NEW u \in Threads, queue[u] # <<>>
      PROVE  u \in Members(waitLanes) \cup Members(leaving)
  <2>1. 1 \in DOMAIN queue[u] BY <1>4, <1>6, TailFacts
  <2> QED BY <1>5, <2>1 DEF CInv, QueuesExact
<1> QED BY <1>2, <1>3, <1>5, <1>6

\* A step of a Close that has opMu.
LEMMA CloseKeeps ==
  ASSUME CInv, InOp = {}, UNCHANGED callVars, UNCHANGED todo,
         UNCHANGED <<queue, pending, syncActive, creating, finished>>,
         TypeOK', Roles', LaneCap', RetainBalance',
         cl' \in {"lanes", "command"} => Usable' /\ waitLanes' = <<>>,
         cl' = "command" => copyExec' = NoThread,
         cl' # "lanes" => leaving' = <<>>,
         ~Usable' => waitLanes' = <<>> /\ copyExec' = NoThread,
         \A u \in Threads : queue[u] # <<>> =>
           u \in Members(waitLanes') \cup Members(leaving')
  PROVE  CInv'
<1> USE Constants
<1>1. UNCHANGED <<pc, cancelled, lane, destroyed>> BY DEF callVars
<1>2. /\ \A x \in Calls : pc[x] \in {"start", "queued", "locked", "done"}
      /\ creating = NoCall
      /\ \A u \in Threads : \A i \in DOMAIN queue[u] : queue[u][i] \in Waits
  BY Quiet
<1>3. CountsExact' /\ Places' /\ Barriers' BY <1>1, CallsStay
<1>4. Locking' BY <1>1 DEF Locking, InOp
<1>5. Creating' BY <1>1, <1>2 DEF CInv, Creating
<1>6. LanesKept' BY <1>1, <1>2 DEF LanesKept
<1>7. QueuesExact'
  <2>1. \A w \in Waits : Place(w)' = Place(w) BY <1>1 DEF Place
  <2>2. \A u \in Threads : \A i \in DOMAIN queue[u] : queue[u] # <<>>
    <3>1. \A u \in Threads : queue[u] \in Seq(Calls) BY DEF CInv, CountsExact, TypeOK
    <3> QED BY <3>1
  <2> QED BY <1>1, <1>2, <2>1, <2>2 DEF CInv, QueuesExact
<1> QED BY <1>3, <1>4, <1>5, <1>6, <1>7 DEF CInv

\* closeExecutor touches one thread, and frees it only when it is clean.
LEMMA CloseExecutorFacts ==
  ASSUME TypeOK, NEW t \in Threads, CloseExecutor(t)
  PROVE  /\ thread' \in [Threads -> {"unborn", "pinned", "free", "parked"}]
         /\ bound' \subseteq Threads
         /\ \A u \in Threads : u # t => thread'[u] = thread[u] /\ (u \in bound' <=> u \in bound)
         /\ thread'[t] \in {"free", "parked"} /\ (thread'[t] = "free" => t \notin bound')
  BY DEF CloseExecutor, TypeOK

\* Close has the lock: it is done, or cannot recover, or takes the lanes.
LEMMA CloseLockStep == ASSUME CInv, CloseLock PROVE CInv'
<1> USE Constants
<1>1. /\ cl = "lock" /\ InOp = {} /\ UNCHANGED callVars /\ UNCHANGED todo
      /\ UNCHANGED <<pc, cancelled, lane, destroyed>>
      /\ UNCHANGED <<queue, pending, syncActive, creating, finished>>
      /\ UNCHANGED <<copyExec, closed, retained, closes>>
  BY DEF CloseLock, callVars
<1>2. TypeOK BY DEF CInv, CountsExact
<1>3. leaving = <<>> /\ (~Usable => waitLanes = <<>> /\ copyExec = NoThread)
  BY <1>1 DEF CInv, Locking
<1>4. \A u \in Threads : queue[u] # <<>> => u \in Members(waitLanes)
  BY <1>1, <1>3, Quiet, NoMembers
<1>5. RetainBalance' BY <1>1 DEF CInv, RetainBalance
<1>6. CASE cl' = "idle" /\ UNCHANGED <<threadVars, exec, commandErr, waitLanes, leaving>>
  <2>1. UNCHANGED <<thread, bound, exec, commandErr, waitLanes, leaving>>
    BY <1>6 DEF threadVars
  <2>2. TypeOK' BY <1>1, <1>2, <1>6, <2>1 DEF TypeOK
  <2>3. Usable' <=> Usable BY <1>1, <2>1 DEF Usable
  <2>4. Roles' BY <1>1, <2>1, <2>3 DEF CInv, Roles, Good
  <2>5. LaneCap' BY <2>1 DEF CInv, Creating, LaneCap
  <2> QED BY <1>1, <1>3, <1>4, <1>5, <1>6, <2>1, <2>2, <2>3, <2>4, <2>5, CloseKeeps
<1>7. CASE BindFails /\ cl' = "idle" /\ UNCHANGED <<exec, commandErr, waitLanes, leaving>>
  <2>1. Roles' /\ thread' \in [Threads -> {"unborn", "pinned", "free", "parked"}] /\ bound' = bound
    BY <1>1, <1>7, BindFailsKeeps
  <2>2. TypeOK' BY <1>1, <1>2, <1>7, <2>1 DEF TypeOK
  <2>3. Usable' <=> Usable BY <1>1, <1>7 DEF Usable
  <2>4. LaneCap' BY <1>7 DEF CInv, Creating, LaneCap
  <2> QED BY <1>1, <1>3, <1>4, <1>5, <1>7, <2>1, <2>2, <2>3, <2>4, CloseKeeps
<1>8. CASE /\ ~closed /\ cl' = "lanes" /\ leaving' = waitLanes /\ waitLanes' = <<>>
           /\ ~commandErr /\ UNCHANGED <<threadVars, exec, commandErr>>
  <2>1. UNCHANGED <<thread, bound, exec, commandErr>> BY <1>8 DEF threadVars
  <2>2. TypeOK' BY <1>1, <1>2, <1>8, <2>1 DEF TypeOK
  <2>3. Usable' /\ Usable BY <1>1, <1>8, <2>1 DEF Usable
  <2>4. Members(waitLanes') = {} /\ Distinct(waitLanes') /\ Members(leaving) = {}
    BY <1>3, <1>8, NoMembers
  <2>5. Roles' BY <1>1, <1>8, <2>1, <2>3, <2>4 DEF CInv, Roles, Good
  <2>6. LaneCap'
    <3>1. Len(waitLanes) \in Nat BY <1>2, SeqFacts DEF TypeOK
    <3>2. Len(leaving) = 0 /\ Len(waitLanes') = 0 BY <1>3, <1>8
    <3> QED BY <1>8, <3>1, <3>2 DEF CInv, Creating, LaneCap
  <2> QED BY <1>1, <1>3, <1>4, <1>5, <1>8, <2>2, <2>3, <2>5, <2>6, CloseKeeps
<1>9. ASSUME ~closed, cl' = "lanes", leaving' = waitLanes, waitLanes' = <<>>, commandErr,
             NEW t \in Unborn, Bind(t), exec' = t, commandErr' = FALSE
      PROVE  CInv'
  <2>1. /\ t \in Threads
        /\ \A u \in Threads : thread'[u] = IF u = t THEN "pinned" ELSE thread[u]
        /\ thread' \in [Threads -> {"unborn", "pinned", "free", "parked"}]
        /\ bound' = bound \cup {t} /\ bound' \subseteq Threads
        /\ Good(t)'
    BY <1>9, BindFacts
  <2>2. TypeOK'
    <3>1. exec' \in Threads BY <1>9, <2>1
    <3>2. waitLanes' \in Seq(Threads) /\ leaving' \in Seq(Threads) BY <1>2, <1>9 DEF TypeOK
    <3>3. commandErr' \in BOOLEAN BY <1>9
    <3>4. cl' \in {"idle", "lock", "lanes", "command"} BY <1>9
    <3> QED BY <1>1, <1>2, <2>1, <3>1, <3>2, <3>3, <3>4 DEF TypeOK
  <2>3. Usable' /\ ~Usable BY <1>1, <1>9 DEF Usable
  <2>4. waitLanes = <<>> /\ copyExec = NoThread BY <1>3, <2>3
  <2>5. /\ Members(waitLanes) = {} /\ Members(leaving) = {} /\ Members(waitLanes') = {}
        /\ Members(leaving') = {} /\ Distinct(waitLanes') /\ Distinct(leaving')
    BY <1>3, <1>9, <2>4, NoMembers
  <2>6. Roles'
    <3>1. Good(exec)' /\ thread'[exec'] # "unborn" BY <1>9, <2>1 DEF Good
    <3>2. ASSUME NEW u \in Threads, thread'[u] = "pinned" PROVE u = exec'
      BY <1>9, <2>1, <2>3, <2>4, <2>5, <3>2 DEF CInv, Roles
    <3>3. ASSUME NEW u \in Threads, thread'[u] = "free" PROVE u \notin bound'
      BY <2>1, <3>3 DEF CInv, Roles
    <3> QED BY <1>1, <2>3, <2>4, <2>5, <3>1, <3>2, <3>3 DEF Roles
  <2>7. LaneCap' BY <1>9, <2>4 DEF LaneCap
  <2> QED BY <1>1, <1>4, <1>5, <1>9, <2>2, <2>3, <2>5, <2>6, <2>7, CloseKeeps
<1> QED BY <1>6, <1>7, <1>8, <1>9 DEF CloseLock

\* The next lane is closed, when its last wait is over.
LEMMA CloseLaneStep == ASSUME CInv, CloseLane PROVE CInv'
<1> USE Constants
<1>1. PICK h : h = Head(leaving)
  OBVIOUS
<1>2. /\ cl = "lanes" /\ leaving # <<>> /\ queue[h] = <<>> /\ CloseExecutor(h)
      /\ leaving' = Tail(leaving) /\ UNCHANGED callVars /\ UNCHANGED todo
      /\ UNCHANGED <<pc, cancelled, lane, destroyed, waitLanes>>
      /\ UNCHANGED <<queue, pending, syncActive, creating, finished>>
      /\ UNCHANGED <<exec, copyExec, commandErr, closed, retained, cl, closes>>
  BY <1>1 DEF CloseLane, callVars, laneVars, execVars
<1>3. TypeOK BY DEF CInv, CountsExact
<1>4. /\ h \in Threads /\ leaving' \in Seq(Threads)
      /\ Len(leaving) \in Nat \ {0} /\ Len(leaving') = Len(leaving) - 1
      /\ Members(leaving) = Members(leaving') \cup {h}
      /\ Distinct(leaving') /\ h \notin Members(leaving')
      /\ Members(leaving) \subseteq Threads
  <2>1. leaving \in Seq(Threads) /\ Distinct(leaving) BY <1>3 DEF TypeOK, CInv, Roles
  <2> QED BY <1>1, <1>2, <2>1, TailFacts, SeqFacts
<1>5. /\ thread' \in [Threads -> {"unborn", "pinned", "free", "parked"}]
      /\ bound' \subseteq Threads
      /\ \A u \in Threads : u # h => thread'[u] = thread[u] /\ (u \in bound' <=> u \in bound)
      /\ thread'[h] \in {"free", "parked"} /\ (thread'[h] = "free" => h \notin bound')
  BY <1>2, <1>3, <1>4, CloseExecutorFacts
<1>6. InOp = {} BY <1>2 DEF CInv, Locking
<1>7. Usable /\ Usable' /\ waitLanes = <<>> /\ Members(waitLanes) = {}
  <2>1. Usable /\ waitLanes = <<>> BY <1>2 DEF CInv, Locking
  <2> QED BY <1>2, <2>1, NoMembers DEF Usable
<1>8. TypeOK' BY <1>2, <1>3, <1>4, <1>5 DEF TypeOK
<1>9. Roles'
  <2>1. h # exec /\ h # copyExec BY <1>4 DEF CInv, Roles
  <2>2. exec \in Threads /\ copyExec \in Threads \cup {NoThread} BY <1>3 DEF TypeOK
  <2>3. \A u \in Threads : u # h /\ Good(u) => Good(u)' BY <1>5 DEF Good
  <2>4. \A u \in Members(leaving') : Good(u)' /\ u # exec /\ u # copyExec
    BY <1>4, <2>3 DEF CInv, Roles
  <2>5. /\ copyExec # NoThread => Good(copyExec)' /\ copyExec # exec
        /\ thread'[exec] # "unborn" /\ Good(exec)'
    BY <1>2, <1>5, <1>7, <2>1, <2>2 DEF CInv, Roles, Good
  <2>6. ASSUME NEW u \in Threads, thread'[u] = "pinned"
        PROVE  u = exec \/ u = copyExec \/ u \in Members(leaving')
    <3>1. u # h /\ thread[u] = "pinned" BY <1>5, <2>6
    <3> QED BY <1>4, <1>7, <3>1 DEF CInv, Roles
  <2>7. ASSUME NEW u \in Threads, thread'[u] = "free" PROVE u \notin bound'
    BY <1>5, <2>7 DEF CInv, Roles
  <2> QED BY <1>2, <1>4, <1>7, <2>4, <2>5, <2>6, <2>7, NoMembers DEF Roles, Good
<1>10. LaneCap' /\ RetainBalance'
  <2>1. Len(waitLanes) \in Nat BY <1>3, SeqFacts DEF TypeOK
  <2> QED BY <1>2, <1>4, <2>1 DEF CInv, Creating, LaneCap, RetainBalance
<1>11. \A u \in Threads : queue[u] # <<>> => u \in Members(waitLanes) \cup Members(leaving')
  BY <1>2, <1>4, <1>6, Quiet
<1> QED BY <1>2, <1>6, <1>7, <1>8, <1>9, <1>10, <1>11, CloseKeeps

\* The copy executor is closed.
LEMMA CloseCopyStep == ASSUME CInv, CloseCopy PROVE CInv'
<1> USE Constants
<1>1. /\ cl = "lanes" /\ leaving = <<>> /\ cl' = "command" /\ copyExec' = NoThread
      /\ UNCHANGED callVars /\ UNCHANGED todo
      /\ UNCHANGED <<pc, cancelled, lane, destroyed, waitLanes>>
      /\ UNCHANGED <<queue, pending, syncActive, creating, finished>>
      /\ UNCHANGED <<exec, commandErr, closed, retained, closes, leaving>>
  BY DEF CloseCopy, callVars, laneVars
<1>2. TypeOK BY DEF CInv, CountsExact
<1>3. InOp = {} BY <1>1 DEF CInv, Locking
<1>4. /\ Usable /\ Usable' /\ waitLanes = <<>>
      /\ Members(waitLanes) = {} /\ Members(leaving) = {}
  <2>1. Usable /\ waitLanes = <<>> BY <1>1 DEF CInv, Locking
  <2> QED BY <1>1, <2>1, NoMembers DEF Usable
<1>5. /\ thread' \in [Threads -> {"unborn", "pinned", "free", "parked"}]
      /\ bound' \subseteq Threads
      /\ \A u \in Threads : u # copyExec => thread'[u] = thread[u] /\ (u \in bound' <=> u \in bound)
      /\ copyExec # NoThread => thread'[copyExec] \in {"free", "parked"}
                                  /\ (thread'[copyExec] = "free" => copyExec \notin bound')
  <2>1. CASE copyExec = NoThread
    BY <1>2, <2>1 DEF CloseCopy, threadVars, TypeOK
  <2>2. CASE copyExec # NoThread
    <3>1. copyExec \in Threads /\ CloseExecutor(copyExec)
      BY <1>2, <2>2 DEF CloseCopy, TypeOK
    <3> QED BY <1>2, <3>1, CloseExecutorFacts
  <2> QED BY <2>1, <2>2
<1>6. TypeOK' BY <1>1, <1>2, <1>5 DEF TypeOK
<1>7. Roles'
  <2>1. exec \in Threads /\ exec # copyExec BY <1>2 DEF TypeOK, CInv, Roles
  <2>2. thread'[exec] # "unborn" /\ Good(exec)'
    BY <1>1, <1>4, <1>5, <2>1 DEF CInv, Roles, Good
  <2>3. ASSUME NEW u \in Threads, thread'[u] = "pinned" PROVE u = exec
    <3>1. u # copyExec /\ thread[u] = "pinned" BY <1>5, <2>3
    <3> QED BY <1>4, <3>1 DEF CInv, Roles
  <2>4. ASSUME NEW u \in Threads, thread'[u] = "free" PROVE u \notin bound'
    BY <1>5, <2>4 DEF CInv, Roles
  <2> QED BY <1>1, <1>4, <2>2, <2>3, <2>4, NoMembers DEF Roles, Good
<1>8. LaneCap' /\ RetainBalance' BY <1>1 DEF CInv, Creating, LaneCap, RetainBalance
<1>9. \A u \in Threads : queue[u] # <<>> => u \in Members(waitLanes) \cup Members(leaving)
  BY <1>3, Quiet
<1> QED BY <1>1, <1>3, <1>4, <1>6, <1>7, <1>8, <1>9, CloseKeeps

\* The last command releases the retain: no thread is left.
LEMMA CloseReleasedStep == ASSUME CInv, CloseReleased PROVE CInv'
<1> USE Constants
<1>1. /\ cl = "command" /\ cl' = "idle" /\ retained' = retained - 1 /\ closed' = TRUE
      /\ CloseExecutor(exec) /\ UNCHANGED callVars /\ UNCHANGED todo
      /\ UNCHANGED <<pc, cancelled, lane, destroyed, waitLanes>>
      /\ UNCHANGED <<queue, pending, syncActive, creating, finished>>
      /\ UNCHANGED <<exec, copyExec, commandErr, closes, leaving>>
  BY DEF CloseReleased, callVars, laneVars
<1>2. TypeOK BY DEF CInv, CountsExact
<1>3. InOp = {} /\ Usable /\ waitLanes = <<>> /\ leaving = <<>> /\ copyExec = NoThread
  BY <1>1 DEF CInv, Locking
<1>4. Members(waitLanes) = {} /\ Members(leaving) = {} BY <1>3, NoMembers
<1>5. /\ thread' \in [Threads -> {"unborn", "pinned", "free", "parked"}]
      /\ bound' \subseteq Threads
      /\ \A u \in Threads : u # exec => thread'[u] = thread[u] /\ (u \in bound' <=> u \in bound)
      /\ thread'[exec] \in {"free", "parked"} /\ (thread'[exec] = "free" => exec \notin bound')
      /\ exec \in Threads
  BY <1>1, <1>2, CloseExecutorFacts DEF TypeOK
<1>6. retained = 1 /\ retained' = 0 /\ ~Usable'
  BY <1>1, <1>3 DEF CInv, RetainBalance, Usable
<1>7. TypeOK'
  <2>1. retained' \in Nat /\ closed' \in BOOLEAN /\ cl' \in {"idle", "lock", "lanes", "command"}
    BY <1>1, <1>6
  <2> QED BY <1>1, <1>2, <1>5, <2>1 DEF TypeOK
<1>8. Roles'
  <2>1. ASSUME NEW u \in Threads, thread'[u] = "pinned" PROVE FALSE
    <3>1. u # exec /\ thread[u] = "pinned" BY <1>5, <2>1
    <3> QED BY <1>3, <1>4, <3>1 DEF CInv, Roles
  <2>2. ASSUME NEW u \in Threads, thread'[u] = "free" PROVE u \notin bound'
    BY <1>5, <2>2 DEF CInv, Roles
  <2> QED BY <1>1, <1>3, <1>4, <1>5, <1>6, <2>1, <2>2, NoMembers DEF Roles
<1>9. LaneCap' /\ RetainBalance'
  BY <1>1, <1>6 DEF CInv, Creating, LaneCap, RetainBalance
<1>10. \A u \in Threads : queue[u] # <<>> => u \in Members(waitLanes) \cup Members(leaving)
  BY <1>3, Quiet
<1> QED BY <1>1, <1>3, <1>6, <1>7, <1>8, <1>9, <1>10, CloseKeeps

\* The release failed: the thread has the context again, or is given up.
LEMMA CloseNotReleasedStep == ASSUME CInv, CloseNotReleased PROVE CInv'
<1> USE Constants
<1>1. /\ cl = "command" /\ cl' = "idle" /\ UNCHANGED callVars /\ UNCHANGED todo
      /\ UNCHANGED <<pc, cancelled, lane, destroyed, waitLanes>>
      /\ UNCHANGED <<queue, pending, syncActive, creating, finished>>
      /\ UNCHANGED <<exec, copyExec, closed, retained, closes, leaving>>
  BY DEF CloseNotReleased, callVars, laneVars
<1>2. TypeOK /\ exec \in Threads BY DEF CInv, CountsExact, TypeOK
<1>3. /\ InOp = {} /\ Usable /\ waitLanes = <<>> /\ leaving = <<>> /\ copyExec = NoThread
      /\ Members(waitLanes) = {} /\ Members(leaving) = {}
  BY <1>1, NoMembers DEF CInv, Locking
<1>4. Good(exec) /\ \A u \in Threads : thread[u] = "pinned" => u = exec
  BY <1>3 DEF CInv, Roles
<1>5. LaneCap' /\ RetainBalance' BY <1>1 DEF CInv, Creating, LaneCap, RetainBalance
<1>6. \A u \in Threads : queue[u] # <<>> => u \in Members(waitLanes) \cup Members(leaving)
  BY <1>3, Quiet
<1>7. CASE bound' = bound \cup {exec} /\ UNCHANGED <<thread, commandErr>>
  <2>1. bound' = bound /\ Usable' BY <1>1, <1>3, <1>4, <1>7 DEF Good, Usable
  <2>2. TypeOK' BY <1>1, <1>2, <1>7, <2>1 DEF TypeOK
  <2>3. Roles' BY <1>1, <1>3, <1>7, <2>1 DEF CInv, Roles, Good
  <2> QED BY <1>1, <1>3, <1>5, <1>6, <2>1, <2>2, <2>3, CloseKeeps
<1>8. CASE /\ bound' \in {bound, bound \ {exec}} /\ commandErr' = TRUE
           /\ thread' = [thread EXCEPT ![exec] = "parked"]
  <2>1. /\ thread' \in [Threads -> {"unborn", "pinned", "free", "parked"}]
        /\ \A u \in Threads : thread'[u] = IF u = exec THEN "parked" ELSE thread[u]
    BY <1>2, <1>8 DEF TypeOK
  <2>2. bound' \subseteq bound /\ ~Usable' BY <1>8 DEF Usable
  <2>3. TypeOK'
    <3>1. bound' \subseteq Threads /\ commandErr' \in BOOLEAN
          /\ cl' \in {"idle", "lock", "lanes", "command"}
      BY <1>1, <1>2, <1>8, <2>2 DEF TypeOK
    <3> QED BY <1>1, <1>2, <2>1, <3>1 DEF TypeOK
  <2>4. Roles'
    <3>1. \A u \in Threads : thread'[u] # "pinned" BY <1>4, <2>1
    <3>2. ASSUME NEW u \in Threads, thread'[u] = "free" PROVE u \notin bound'
      BY <2>1, <2>2, <3>2 DEF CInv, Roles
    <3> QED BY <1>1, <1>2, <1>3, <2>1, <2>2, <3>1, <3>2, NoMembers DEF Roles
  <2> QED BY <1>1, <1>3, <1>5, <1>6, <2>2, <2>3, <2>4, CloseKeeps
<1> QED BY <1>7, <1>8 DEF CloseNotReleased

----------------------------------------------------------------------------
(* The theorems.                                                           *)

\* Every step keeps the invariant.
LEMMA NextInv == CInv /\ [Next]_vars => CInv'
<1> SUFFICES ASSUME CInv, [Next]_vars PROVE CInv'
  OBVIOUS
<1>1. ASSUME NEW w \in Waits, WaitStep(w) PROVE CInv'
  BY <1>1, WaitMoves, ReuseSteps, AcquireCreateStep, CreateLaneStep, CreateFailsStep,
     TrackStep, SendSteps, GiveUpStep, ReturnSteps DEF WaitStep
<1>2. ASSUME NEW d \in Destroys, DestroyStep(d) PROVE CInv'
  BY <1>2, DestroyMoves, BarrierCheckStep, SendSteps, BarrierPassStep, ReturnSteps
  DEF DestroyStep
<1>3. ASSUME NEW k \in Copies, CopyStep(k) PROVE CInv'
  <2>1. CASE CopySend(k)
    <3>1. Goto(k, "copying") \/ (Goto(k, "done") /\ UNCHANGED queue)
      BY <2>1 DEF CopySend
    <3> QED BY <2>1, <3>1, CopyMoves, SendSteps
  <2> QED BY <1>3, <2>1, CopyMoves, CopyExecutorStep, ReturnSteps DEF CopyStep
<1>4. ASSUME NEW k \in Commands, CommandStep(k) PROVE CInv'
  <2>1. CASE CommandSend(k)
    <3>1. Goto(k, "running") \/ (Goto(k, "done") /\ UNCHANGED queue)
      BY <2>1 DEF CommandSend
    <3> QED BY <2>1, <3>1, CommandMoves, SendSteps
  <2> QED BY <1>4, <2>1, CommandMoves, ReturnSteps DEF CommandStep
<1>5. ASSUME CloseStep PROVE CInv'
  BY <1>5, CloseLockStep, CloseLaneStep, CloseCopyStep, CloseReleasedStep,
     CloseNotReleasedStep DEF CloseStep
<1>6. CASE UNCHANGED vars
  <2>1. /\ UNCHANGED <<pc, cancelled, lane, destroyed, todo, queue, waitLanes, pending>>
        /\ UNCHANGED <<syncActive, creating, finished, thread, bound, exec, copyExec>>
        /\ UNCHANGED <<commandErr, closed, retained, cl, closes, leaving>>
    BY <1>6 DEF vars, callVars, laneVars, threadVars, execVars, closeVars
  <2>2. CountsExact'
    <3>1. TypeOK' BY <2>1 DEF CInv, CountsExact, TypeOK
    <3>2. \A t \in Threads : Queued(t)' = Queued(t) BY <2>1 DEF Queued
    <3> QED BY <2>1, <3>1, <3>2, CountsStay DEF CInv
  <2>3. Places' /\ Locking' BY <2>1 DEF CInv, Places, Locking, InOp, Usable
  <2>4. Roles' /\ Creating' BY <2>1 DEF CInv, Roles, Good, Usable, Creating, LaneCap
  <2>5. LanesKept' /\ QueuesExact' BY <2>1 DEF CInv, LanesKept, QueuesExact, Place
  <2>6. Barriers' BY <2>1 DEF CInv, Barriers, Left, Queued, NoWaitOnDestroyed
  <2>7. RetainBalance' BY <2>1 DEF CInv, RetainBalance
  <2> QED BY <2>2, <2>3, <2>4, <2>5, <2>6, <2>7 DEF CInv
<1> QED BY <1>1, <1>2, <1>3, <1>4, <1>5, <1>6, CancelStep, RunTaskStep, CloseQueueStep
        DEF Next

\* A task is on a thread its call was given, and that thread has the context.
LEMMA TasksCurrent == CInv => ContextCurrent
<1> SUFFICES ASSUME CInv PROVE ContextCurrent
  OBVIOUS
<1> USE Constants
<1>1. TypeOK BY DEF CInv, CountsExact
<1>2. ASSUME NEW t \in Threads, queue[t] # <<>> PROVE Good(t)
  <2>1. PICK k \in Calls : k = queue[t][1] /\ 1 \in DOMAIN queue[t]
    <3>1. queue[t] \in Seq(Calls) BY <1>1 DEF TypeOK
    <3> QED BY <1>2, <3>1, TailFacts, SeqFacts
  <2>2. /\ t = Place(k) /\ (pc[k] \in Sent \/ (k \in Waits /\ pc[k] = "done"))
        /\ k \in Waits => t \in Members(waitLanes) \cup Members(leaving)
    BY <2>1 DEF CInv, QueuesExact
  <2>3. CASE k \in Waits BY <2>2, <2>3 DEF CInv, Roles
  <2>4. CASE k \notin Waits
    <3>1. k \in InOp /\ Usable
      <4>1. k \in InOp BY <2>2, <2>4 DEF Sent, InOp
      <4> QED BY <4>1 DEF CInv, Locking
    <3>2. CASE k \in Copies
      <4>1. t = copyExec BY <2>2, <3>2 DEF Place
      <4> QED BY <4>1 DEF CInv, Roles
    <3>3. CASE k \in Destroys /\ pc[k] = "noop"
      <4>1. t = Head(todo[k]) BY <2>2, <3>3 DEF Place
      <4>2. todo[k] \in Seq(Threads) BY <1>1, <3>3 DEF TypeOK
      <4>3. t \in Members(todo[k]) BY <3>3, <4>1, <4>2, SeqFacts DEF CInv, LanesKept
      <4>4. t \in Members(waitLanes) BY <3>3, <4>3 DEF CInv, LanesKept
      <4> QED BY <4>4 DEF CInv, Roles
    <3>4. CASE k \notin Copies /\ pc[k] # "noop"
      <4>1. t = exec BY <2>2, <2>4, <3>4 DEF Place
      <4> QED BY <3>1, <4>1 DEF CInv, Roles
    <3>5. pc[k] = "noop" => k \in Destroys \/ k \in Copies
      BY <2>4 DEF CInv, Places, CommandPCs
    <3> QED BY <3>2, <3>3, <3>4, <3>5
  <2> QED BY <2>3, <2>4
<1>3. \A i \in DOMAIN waitLanes : Good(waitLanes[i]) BY DEF CInv, Roles, Members
<1> QED BY <1>2, <1>3 DEF CInv, Roles, ContextCurrent

\* A closed context has no thread in any role.
LEMMA ClosedHasNoThread == CInv => ThreadsClean
<1> SUFFICES ASSUME CInv PROVE ThreadsClean
  OBVIOUS
<1>1. ASSUME closed, NEW t \in Threads PROVE thread[t] # "pinned"
  <2>1. ~Usable BY <1>1 DEF Usable
  <2>2. waitLanes = <<>> /\ leaving = <<>> /\ copyExec = NoThread
    BY <2>1 DEF CInv, Locking
  <2>3. Members(waitLanes) = {} /\ Members(leaving) = {} BY <2>2, NoMembers
  <2> QED BY <2>1, <2>2, <2>3, Constants DEF CInv, Roles
<1> QED BY <1>1 DEF CInv, Roles, ThreadsClean

\* The locks keep calls and Close apart, each thread has one role, each task
\* is on the thread it was sent to, and a barrier is ahead of or behind every
\* wait it must drain, whatever the number of waits, lanes, threads and Closes.
THEOREM ContextInvariant == Spec => []CInv
  BY InitInv, NextInv, PTL DEF Spec

\* acquireWaitLane's second look under laneCreateMu keeps maxWaitLanes.
THEOREM LanesCapped == Spec => []LaneCap
<1>1. CInv => LaneCap BY DEF CInv, Creating
<1> QED BY <1>1, ContextInvariant, PTL

\* Neither waitLane.pending nor Context.syncActive drifts from the waits that
\* are still queued or running, those whose caller has gone included.
THEOREM CountsAreExact == Spec => []CountsExact
<1>1. CInv => CountsExact BY DEF CInv
<1> QED BY <1>1, ContextInvariant, PTL

\* syncBarrier drains every wait on a handle before the handle is destroyed.
THEOREM BarrierDrains == Spec => []NoWaitOnDestroyed
<1>1. CInv => NoWaitOnDestroyed BY DEF CInv, Barriers
<1> QED BY <1>1, ContextInvariant, PTL

\* Every task runs on a pinned thread on which the context is current, also
\* after a Close that failed and after a recovered command executor.
THEOREM TasksRunOnCurrent == Spec => []ContextCurrent
  BY TasksCurrent, ContextInvariant, PTL

\* No thread is given back with the context current, and Close leaves none.
THEOREM CloseLeavesNoThread == Spec => []ThreadsClean
  BY ClosedHasNoThread, ContextInvariant, PTL

\* However often Close fails and is called again, the primary context is
\* released once, and exactly when the Context is closed.
THEOREM ReleasedOnce == Spec => []RetainBalance
<1>1. CInv => RetainBalance BY DEF CInv
<1> QED BY <1>1, ContextInvariant, PTL


=============================================================================
