---------------------------- MODULE HandlesProofs ----------------------------
(***************************************************************************)
(* The locking discipline of package cuda, for any number of goroutines    *)
(* and handles.  It has two halves.  The plans: every method that calls    *)
(* the driver keeps its locks, reads the closed flag of each handle while  *)
(* it holds that handle's lock, and holds the write lock of what it        *)
(* destroys.  The locks: calls with such plans, and only such plans, never *)
(* use a handle after its Close and never while it is being destroyed.     *)
(***************************************************************************)
EXTENDS Handles, TLAPS

Request == [h : Handles, write : BOOLEAN, check : SUBSET Handles, keep : BOOLEAN]

\* Every lock is kept; a closed flag is read under its handle's lock; every
\* handle's flag is read.
Careful(locks) ==
  \A i \in DOMAIN locks :
    /\ locks[i].keep
    /\ \A h \in locks[i].check : \E j \in 1 .. i : locks[j].h = h
    /\ \E j \in i .. Len(locks) : locks[i].h \in locks[j].check

Sound(f) ==
  /\ f.locks \in Seq(Request) /\ Len(f.locks) > 0
  /\ f.drives \in BOOLEAN /\ f.destroys \subseteq Handles
  /\ f.drives => /\ Careful(f.locks)
                 /\ \A h \in f.destroys :
                      \E i \in DOMAIN f.locks : f.locks[i].write /\ f.locks[i].h = h

SoundWork == \A w \in Work : DOMAIN w = Procs /\ \A p \in Procs : Sound(w[p])

----------------------------------------------------------------------------
(* The invariant of the locks.                                             *)

\* Where a goroutine is in its plan.
Progress ==
  /\ op \in Work /\ held \in [Procs -> Nat]
  /\ \A p \in Procs : /\ pc[p] = "lock" => held[p] < Len(op[p].locks)
                      /\ pc[p] = "call" => held[p] = Len(op[p].locks) /\ op[p].drives
                      /\ p \in queued => pc[p] = "lock" /\ Want(p).write

\* sync.RWMutex: whoever holds the write lock holds the handle alone ...
Exclusion ==
  \A p, q \in Procs : p # q =>
    \A i \in 1 .. held[p], j \in 1 .. held[q] :
      op[p].locks[i].write /\ op[p].locks[i].h = op[q].locks[j].h
        => ~op[q].locks[j].write /\ ~op[q].locks[j].keep

\* ... and whoever waits for it is the only writer.
OneWriter == \A p \in queued : Writers(Want(p).h) \subseteq {p}

\* What a call has found open stays open while it is at work.
CheckedOpen ==
  \A p \in Procs : op[p].drives =>
    \A i \in 1 .. held[p] : op[p].locks[i].check \cap closed = {}

\* The inductive invariant.
HInv == TypeOK /\ Progress /\ Exclusion /\ OneWriter /\ CheckedOpen

----------------------------------------------------------------------------
(* Facts the steps share.                                                  *)

\* The plan a goroutine works through is one of those it was given.
LEMMA PlanSound ==
  ASSUME SoundWork, Progress, NEW p \in Procs
  PROVE  /\ Sound(op[p]) /\ op[p].locks \in Seq(Request)
         /\ Len(op[p].locks) \in Nat /\ DOMAIN op[p].locks = 1 .. Len(op[p].locks)
<1>1. Sound(op[p]) BY DEF SoundWork, Progress
<1>2. op[p].locks \in Seq(Request) BY <1>1 DEF Sound
<1> QED BY <1>1, <1>2

\* What a granted lock leads to.
LEMMA GrantedCases ==
  ASSUME SoundWork, HInv, NEW p \in Procs, pc[p] = "lock", Granted(p)
  PROVE  \/ Return(p)
         \/ /\ held' = [held EXCEPT ![p] = held[p] + 1]
            /\ Want(p).check \cap closed = {}
            /\ \/ pc' = [pc EXCEPT ![p] = "lock"] /\ held[p] + 1 < Len(op[p].locks)
               \/ /\ pc' = [pc EXCEPT ![p] = "call"]
                  /\ held[p] + 1 = Len(op[p].locks) /\ op[p].drives
<1>1. held[p] \in Nat /\ held[p] < Len(op[p].locks) /\ Len(op[p].locks) \in Nat
  BY PlanSound DEF HInv, Progress
<1>2. CASE Closed(p) \/ Mismatch(p)
  BY <1>1, <1>2 DEF Granted, Closed, Advance
<1>3. CASE ~Closed(p) /\ Advance(p)
  BY <1>1, <1>3 DEF Closed, Advance
<1> QED BY <1>2, <1>3 DEF Granted

\* The initial state.
LEMMA InitInv == ASSUME SoundWork, Init PROVE HInv
<1> USE DEF Init
<1>1. \A p \in Procs : Len(op[p].locks) \in Nat /\ Len(op[p].locks) > 0
  BY DEF SoundWork, Sound
<1>2. TypeOK BY <1>1 DEF TypeOK
<1>3. Progress BY <1>1 DEF Progress
<1>4. \A p \in Procs : 1 .. held[p] = {} OBVIOUS
<1>5. Exclusion /\ OneWriter /\ CheckedOpen
  BY <1>4 DEF Exclusion, OneWriter, CheckedOpen
<1> QED BY <1>2, <1>3, <1>5 DEF HInv

\* A goroutine that returns leaves the others with what they hold.
LEMMA ReturnKeeps ==
  ASSUME SoundWork, HInv, NEW p \in Procs, Return(p), op' = op,
         queued' = queued \ {p}, closed' \subseteq Handles,
         \A q \in Procs \ {p} : op[q].drives =>
           \A i \in 1 .. held[q] : op[q].locks[i].check \cap closed' = {}
  PROVE  HInv'
<1> USE DEF HInv
<1>1. /\ pc' = [pc EXCEPT ![p] = "done"] /\ held' = [held EXCEPT ![p] = 0]
      /\ pc'[p] = "done" /\ held'[p] = 0
      /\ \A q \in Procs : q # p => pc'[q] = pc[q] /\ held'[q] = held[q]
  BY DEF Return, TypeOK, Progress
<1>2. 1 .. held'[p] = {} BY <1>1
<1>3. TypeOK' BY <1>1 DEF TypeOK
<1>4. Progress' BY <1>1 DEF Progress, Want
<1>5. Exclusion' BY <1>1, <1>2 DEF Exclusion
<1>6. OneWriter'
  <2> SUFFICES ASSUME NEW q \in queued', NEW r \in Procs, r \in Writers(Want(q).h)'
               PROVE  r = q
    BY DEF OneWriter, Writers
  <2>1. q \in queued /\ q \in Procs /\ q # p BY DEF TypeOK
  <2>2. Want(q)' = Want(q) BY <1>1, <2>1 DEF Want
  <2>3. r # p BY <1>2 DEF Writers
  <2>4. r \in Writers(Want(q).h) BY <1>1, <2>2, <2>3 DEF Writers, Want
  <2> QED BY <2>1, <2>4 DEF OneWriter
<1>7. CheckedOpen'
  <2> SUFFICES ASSUME NEW q \in Procs, op[q].drives, NEW i \in 1 .. held'[q]
               PROVE  op[q].locks[i].check \cap closed' = {}
    BY DEF CheckedOpen
  <2> QED BY <1>1, <1>2
<1> QED BY <1>3, <1>4, <1>5, <1>6, <1>7

\* A granted lock that is taken: a read lock when there is no writer, a write
\* lock when its owner is the writer and there is no reader.
LEMMA TakeKeeps ==
  ASSUME SoundWork, HInv, NEW p \in Procs, pc[p] = "lock",
         held' = [held EXCEPT ![p] = held[p] + 1],
         Want(p).check \cap closed = {},
         \/ pc' = [pc EXCEPT ![p] = "lock"] /\ held[p] + 1 < Len(op[p].locks)
         \/ /\ pc' = [pc EXCEPT ![p] = "call"]
            /\ held[p] + 1 = Len(op[p].locks) /\ op[p].drives,
         \/ ~Want(p).write /\ Writers(Want(p).h) = {}
         \/ Want(p).write /\ p \in queued /\ Readers(Want(p).h) = {},
         op' = op, queued' = queued \ {p}, closed' = closed
  PROVE  HInv'
<1> USE DEF HInv
<1>0. PICK n : n = held[p] + 1 OBVIOUS
<1>1. /\ held'[p] = n /\ n \in Nat /\ held[p] \in Nat /\ n = held[p] + 1
      /\ Want(p) = op[p].locks[n] /\ n <= Len(op[p].locks) /\ Len(op[p].locks) \in Nat
      /\ \A q \in Procs : q # p => held'[q] = held[q] /\ pc'[q] = pc[q]
  BY <1>0, PlanSound DEF Progress, Want, TypeOK
<1>2. \A i \in 1 .. held'[p] : i \in 1 .. held[p] \/ i = n BY <1>1
<1>3. Writers(Want(p).h) \subseteq {p} BY DEF OneWriter
<1>4. TypeOK'
  <2>1. pc' \in [Procs -> {"lock", "call", "done"}] BY DEF TypeOK
  <2>2. held'[p] \in 0 .. Len(op[p].locks) /\ pc'[p] # "done"
    BY <1>1 DEF TypeOK
  <2>3. \A q \in Procs : held'[q] \in IF pc'[q] = "done" THEN {0} ELSE 0 .. Len(op[q].locks)
    BY <1>1, <2>2 DEF TypeOK
  <2> QED BY <2>1, <2>3 DEF TypeOK
<1>5. Progress'
  <2>1. held' \in [Procs -> Nat] BY <1>1 DEF Progress
  <2>2. ASSUME NEW q \in Procs
        PROVE  /\ pc'[q] = "lock" => held'[q] < Len(op[q].locks)
               /\ pc'[q] = "call" => held'[q] = Len(op[q].locks) /\ op[q].drives
               /\ q \in queued' => pc'[q] = "lock" /\ Want(q)'.write
    <3>1. CASE q = p BY <1>1, <3>1 DEF TypeOK
    <3>2. CASE q # p BY <1>1, <3>2 DEF Progress, Want
    <3> QED BY <3>1, <3>2
  <2> QED BY <2>1, <2>2 DEF Progress
<1>6. Exclusion'
  <2> SUFFICES ASSUME NEW a \in Procs, NEW b \in Procs, a # b,
                      NEW i \in 1 .. held'[a], NEW j \in 1 .. held'[b],
                      op[a].locks[i].write, op[a].locks[i].h = op[b].locks[j].h
               PROVE  ~op[b].locks[j].write /\ ~op[b].locks[j].keep
    BY DEF Exclusion
  <2>1. CASE a # p /\ b # p BY <1>1, <2>1 DEF Exclusion
  <2>2. CASE a = p
    <3>1. j \in 1 .. held[b] BY <1>1, <2>2
    <3>2. CASE i \in 1 .. held[p] BY <2>2, <3>1, <3>2 DEF Exclusion
    <3>3. CASE i = n
      <4>1. Want(p).write /\ op[b].locks[j].h = Want(p).h BY <1>1, <2>2, <3>3
      <4>2. b \notin Writers(Want(p).h) BY <1>3, <2>2
      <4>3. ~op[b].locks[j].write BY <3>1, <4>1, <4>2 DEF Writers
      <4>4. b \notin Readers(Want(p).h) BY <4>1
      <4> QED BY <3>1, <4>1, <4>3, <4>4 DEF Readers
    <3> QED BY <1>2, <2>2, <3>2, <3>3
  <2>3. CASE b = p
    <3>1. i \in 1 .. held[a] BY <1>1, <2>3
    <3>2. CASE j \in 1 .. held[p] BY <2>3, <3>1, <3>2 DEF Exclusion
    <3>3. CASE j = n
      <4>1. op[a].locks[i].h = Want(p).h BY <1>1, <2>3, <3>3
      <4>2. a \in Writers(Want(p).h) BY <3>1, <4>1 DEF Writers
      <4> QED BY <1>3, <2>3, <4>2
    <3> QED BY <1>2, <2>3, <3>2, <3>3
  <2> QED BY <2>1, <2>2, <2>3
<1>7. OneWriter'
  <2> SUFFICES ASSUME NEW q \in queued', NEW r \in Procs, r \in Writers(Want(q).h)'
               PROVE  r = q
    BY DEF OneWriter, Writers
  <2>1. q \in queued /\ q \in Procs /\ q # p BY DEF TypeOK
  <2>2. Want(q)' = Want(q) BY <1>1, <2>1 DEF Want
  <2>3. CASE r # p
    <3>1. r \in Writers(Want(q).h) BY <1>1, <2>2, <2>3 DEF Writers, Want
    <3> QED BY <2>1, <3>1 DEF OneWriter
  <2>4. CASE r = p
    <3>1. PICK i \in 1 .. held'[p] : op[p].locks[i].write /\ op[p].locks[i].h = Want(q).h
      BY <2>2, <2>4 DEF Writers
    <3>2. p \in Writers(Want(q).h)
      <4>1. CASE i \in 1 .. held[p] BY <3>1, <4>1 DEF Writers
      <4>2. CASE i = n
        <5>1. p \in queued /\ Want(p).h = Want(q).h BY <1>1, <3>1, <4>2
        <5> QED BY <5>1 DEF Writers
      <4> QED BY <1>2, <4>1, <4>2
    <3> QED BY <2>1, <2>4, <3>2 DEF OneWriter
  <2> QED BY <2>3, <2>4
<1>8. CheckedOpen'
  <2> SUFFICES ASSUME NEW q \in Procs, op[q].drives, NEW i \in 1 .. held'[q]
               PROVE  op[q].locks[i].check \cap closed = {}
    BY DEF CheckedOpen
  <2>1. CASE q = p BY <1>1, <1>2, <2>1 DEF CheckedOpen
  <2>2. CASE q # p BY <1>1, <2>2 DEF CheckedOpen
  <2> QED BY <2>1, <2>2
<1> QED BY <1>4, <1>5, <1>6, <1>7, <1>8

\* A closed flag does not change without its goroutine's call.
LEMMA StillOpen ==
  ASSUME HInv
  PROVE  closed \subseteq Handles /\ \A q \in Procs : op[q].drives =>
           \A i \in 1 .. held[q] : op[q].locks[i].check \cap closed = {}
  BY DEF HInv, TypeOK, CheckedOpen

\* A read lock is taken where no writer is.
LEMMA RLockStep == ASSUME SoundWork, HInv, NEW p \in Procs, RLock(p) PROVE HInv'
<1>1. /\ pc[p] = "lock" /\ ~Want(p).write /\ Writers(Want(p).h) = {} /\ Granted(p)
      /\ UNCHANGED <<op, queued, closed>>
  BY DEF RLock
<1>2. p \notin queued BY <1>1 DEF HInv, Progress
<1>3. queued' = queued \ {p} BY <1>1, <1>2
<1>4. CASE Return(p) BY <1>1, <1>3, <1>4, StillOpen, ReturnKeeps
<1>5. CASE ~Return(p) BY <1>1, <1>3, <1>5, GrantedCases, TakeKeeps
<1> QED BY <1>4, <1>5

\* A write lock is taken when its readers have gone.
LEMMA LockStep == ASSUME SoundWork, HInv, NEW p \in Procs, Lock(p) PROVE HInv'
<1>1. /\ p \in queued /\ Readers(Want(p).h) = {} /\ Granted(p)
      /\ queued' = queued \ {p} /\ UNCHANGED <<op, closed>>
  BY DEF Lock
<1>2. pc[p] = "lock" /\ Want(p).write BY <1>1 DEF HInv, Progress
<1>3. CASE Return(p) BY <1>1, <1>3, StillOpen, ReturnKeeps
<1>4. CASE ~Return(p) BY <1>1, <1>2, <1>4, GrantedCases, TakeKeeps
<1> QED BY <1>3, <1>4

\* A writer announces itself only where there is no other.
LEMMA AnnounceStep == ASSUME SoundWork, HInv, NEW p \in Procs, Announce(p) PROVE HInv'
<1> USE DEF HInv, Announce
<1>1. TypeOK' BY DEF TypeOK
<1>2. Progress' BY DEF Progress, Want
<1>3. Exclusion' BY DEF Exclusion
<1>4. \A q \in Procs : Want(q)' = Want(q) BY DEF Want
<1>5. OneWriter'
  <2> SUFFICES ASSUME NEW q \in queued', NEW r \in Procs, r \in Writers(Want(q).h)'
               PROVE  r = q
    BY DEF OneWriter, Writers
  <2>0. q \in Procs BY <1>1 DEF TypeOK
  <2>1. r \in Writers(Want(q).h) \/ (r = p /\ Want(p).h = Want(q).h)
    BY <1>4, <2>0 DEF Writers
  <2>2. CASE q = p BY <2>1, <2>2
  <2>3. CASE q # p
    <3>1. q \in queued /\ q \in Writers(Want(q).h) BY <2>0, <2>3 DEF Writers
    <3>2. Want(p).h # Want(q).h BY <3>1
    <3> QED BY <2>1, <3>1, <3>2 DEF OneWriter
  <2> QED BY <2>2, <2>3
<1>6. CheckedOpen' BY DEF CheckedOpen
<1> QED BY <1>1, <1>2, <1>3, <1>5, <1>6

\* What a call destroys it holds alone: nobody else at work holds it too.
LEMMA DestroyedAlone ==
  ASSUME SoundWork, HInv, NEW p \in Procs, pc[p] = "call", NEW h \in op[p].destroys,
         NEW q \in Procs, q # p, op[q].drives, NEW j \in 1 .. held[q]
  PROVE  op[q].locks[j].h # h
<1> USE DEF HInv
<1>1. held[p] = Len(op[p].locks) /\ op[p].drives BY DEF Progress
<1>2. PICK i \in 1 .. held[p] : op[p].locks[i].write /\ op[p].locks[i].h = h
  BY <1>1, PlanSound DEF Sound
<1>3. j \in DOMAIN op[q].locks
  <2>1. Len(op[q].locks) \in Nat /\ DOMAIN op[q].locks = 1 .. Len(op[q].locks)
    BY PlanSound
  <2>2. held[q] <= Len(op[q].locks) /\ held[q] \in Nat BY <2>1 DEF TypeOK, Progress
  <2> QED BY <2>1, <2>2
<1>4. op[q].locks[j].keep BY <1>3, PlanSound DEF Sound, Careful
<1> QED BY <1>2, <1>4 DEF Exclusion

\* The driver call: what it destroys, nobody else has found open and holds.
LEMMA CallStep == ASSUME SoundWork, HInv, NEW p \in Procs, Call(p) PROVE HInv'
<1>1. /\ pc[p] = "call" /\ Return(p) /\ op' = op /\ queued' = queued
      /\ closed' \in {closed, closed \cup op[p].destroys}
  BY DEF Call
<1>2. p \notin queued BY <1>1 DEF HInv, Progress
<1>3. queued' = queued \ {p} BY <1>1, <1>2
<1>4. closed' \subseteq Handles
  <2>1. op[p].destroys \subseteq Handles BY PlanSound DEF HInv, Sound
  <2> QED BY <1>1, <2>1, StillOpen
<1>5. ASSUME NEW q \in Procs \ {p}, op[q].drives, NEW i \in 1 .. held[q]
      PROVE  op[q].locks[i].check \cap closed' = {}
  <2>1. op[q].locks[i].check \cap closed = {} BY <1>5, StillOpen
  <2>2. op[q].locks[i].check \cap op[p].destroys = {}
    <3> SUFFICES ASSUME NEW h \in op[q].locks[i].check, h \in op[p].destroys PROVE FALSE
      OBVIOUS
    <3>1. Len(op[q].locks) \in Nat /\ DOMAIN op[q].locks = 1 .. Len(op[q].locks)
          /\ held[q] \in Nat /\ held[q] <= Len(op[q].locks)
      BY PlanSound DEF HInv, TypeOK, Progress
    <3>2. i \in DOMAIN op[q].locks BY <3>1
    <3>3. PICK j \in 1 .. i : op[q].locks[j].h = h
      BY <1>5, <3>2, PlanSound DEF HInv, Sound, Careful
    <3>4. j \in 1 .. held[q] BY <3>1, <3>3
    <3> QED BY <1>1, <1>5, <3>3, <3>4, DestroyedAlone
  <2> QED BY <1>1, <2>1, <2>2
<1> QED BY <1>1, <1>3, <1>4, <1>5, ReturnKeeps

----------------------------------------------------------------------------
\* Every step keeps the invariant.
LEMMA NextInv == ASSUME SoundWork, HInv, [Next]_vars PROVE HInv'
<1>1. CASE UNCHANGED vars
  <2>1. \A q \in Procs : Want(q)' = Want(q) BY <1>1 DEF vars, Want
  <2>2. \A h : Writers(h)' = Writers(h) BY <1>1, <2>1 DEF vars, Writers
  <2>3. OneWriter'
    <3>1. queued \subseteq Procs BY DEF HInv, TypeOK
    <3> QED BY <1>1, <2>1, <2>2, <3>1 DEF HInv, OneWriter, vars
  <2> QED BY <1>1, <2>1, <2>3 DEF vars, HInv, TypeOK, Progress, Exclusion, CheckedOpen
<1>2. ASSUME NEW p \in Procs, Step(p) PROVE HInv'
  BY <1>2, RLockStep, AnnounceStep, LockStep, CallStep DEF Step
<1> QED BY <1>1, <1>2 DEF Next

\* With sound plans the invariant holds throughout.
THEOREM LocksHold == ASSUME SoundWork PROVE Spec => []HInv
<1>1. Init => HInv BY InitInv
<1>2. HInv /\ [Next]_vars => HInv' BY NextInv
<1> QED BY <1>1, <1>2, PTL DEF Spec

\* A call that returned holds nothing.
THEOREM Typed == ASSUME SoundWork PROVE Spec => []TypeOK
<1>1. HInv => TypeOK BY DEF HInv
<1> QED BY <1>1, LocksHold, PTL

\* No driver call names a handle, or runs on a context, that is closed.
THEOREM NoUseAfterClose == ASSUME SoundWork PROVE Spec => []NeverAfterClose
<1>1. HInv => NeverAfterClose
  <2> SUFFICES ASSUME HInv, NEW p \in Procs, pc[p] = "call", NEW i \in DOMAIN op[p].locks
               PROVE  op[p].locks[i].h \notin closed
    BY DEF NeverAfterClose, Touches
  <2>1. held[p] = Len(op[p].locks) /\ op[p].drives BY DEF HInv, Progress
  <2>2. DOMAIN op[p].locks = 1 .. Len(op[p].locks) /\ Len(op[p].locks) \in Nat
    BY PlanSound DEF HInv
  <2>3. PICK j \in i .. Len(op[p].locks) : op[p].locks[i].h \in op[p].locks[j].check
    BY <2>1, PlanSound DEF HInv, Sound, Careful
  <2>4. j \in 1 .. held[p] BY <2>1, <2>2, <2>3
  <2> QED BY <2>1, <2>3, <2>4 DEF HInv, CheckedOpen
<1> QED BY <1>1, LocksHold, PTL

\* While a handle is being destroyed no other driver call names it.
THEOREM DestroyedByOne == ASSUME SoundWork PROVE Spec => []DestroyAlone
<1>1. HInv => DestroyAlone
  <2> SUFFICES ASSUME HInv, NEW p \in Procs, NEW q \in Procs, p # q, pc[p] = "call",
                      pc[q] = "call", NEW h \in op[p].destroys,
                      NEW j \in DOMAIN op[q].locks
               PROVE  op[q].locks[j].h # h
    BY DEF DestroyAlone, Touches
  <2>1. held[q] = Len(op[q].locks) /\ op[q].drives BY DEF HInv, Progress
  <2>2. j \in 1 .. held[q] BY <2>1, PlanSound DEF HInv
  <2> QED BY <2>1, <2>2, DestroyedAlone
<1> QED BY <1>1, LocksHold, PTL

----------------------------------------------------------------------------
(* The plans.  Methods is every plan of LockPlans, for any handles; the    *)
(* argument locks of a launch are any list of read locks.                  *)

Reads == {R(h) : h \in Handles}

OnContext(c) ==
  {Alloc(c), NewStream(c), NewEvent(c), LoadModule(c), LoadModuleEx(c), NewLinker(c),
   AllocHost(c), RegisterHost(c), AllocManaged(c), DefaultMemPool(c), PoolAttribute(c),
   OpenIPCBuffer(c), OpenIPCEvent(c), AllocPitched(c), AllocVolume(c), AllocArray2D(c),
   ContextQuery(c), PointerMemoryType(c)}

OnOne(h) ==
  {CopySlice(h), CopyAt(h), ViewCopy(h), CopyIPC(h), CopyPitched(h), CopyVolume(h),
   CopyArray(h), NewTexture(h), NewSurface(h), EventIPCHandle(h), AllocAsync(h),
   AllocFromPool(h), CopyGlobal(h), Memset(h), Fill(h), Advise(h), IPCHandle(h),
   StreamQuery(h), EventQuery(h), BeginCapture(h), EndCapture(h), Instantiate(h),
   GetFunction(h), GetGlobal(h), FunctionAttribute(h), SetFunctionAttribute(h),
   Occupancy(h), AddInput(h), Complete(h)}

\* The ones that only look at Go values.
Peeks(h) == {View(h), HostSlice(h), ManagedSlice(h), LinkLog(h), SetPackedBuffer(h)}

OnSeveral(a, b, d) ==
  {CopyHost(a, b), CopyHostAsync(a, b, d), MemsetAsync(a, b), FillAsync(a, b),
   CopyToDevice(a, b), CopyToDeviceAsync(a, b, d), CopyToDeviceAt(a, b),
   CopyToDeviceAtAsync(a, b, d), CopyToPeer(a, b), WaitEvent(a, b), Record(a, b),
   GraphLaunch(a, b), GraphUpdate(a, b), Prefetch(a, b), CopyPitchedHostAsync(a, b, d),
   CopyVolumeHostAsync(a, b, d), CopyArrayHostAsync(a, b, d), LaunchPackedOn(a, b),
   PeerAccess(a, b)}

Pairs(a, b, d) == {Elapsed(a, b), CopyPitchedToDevice(a, b), CopyPitchedToDeviceAsync(d, a, b)}

Launches(s, m, locks) == {Launching(<<R(m)>> \o locks), Launching(<<R(s), R(m)>> \o locks)}

Ends(h) ==
  {CloseStream(h), CloseEvent(h), CloseModule(h), CloseGraph(h), CloseGraphExec(h),
   CloseLinker(h), CloseHostBuffer(h), CloseRegisteredHost(h), CloseManaged(h),
   CloseIPCBuffer(h), ClosePitched(h), CloseVolume(h), CloseArray2D(h), CloseTexture(h),
   CloseSurface(h), CloseHandle(h), CloseContext(h)}

Methods == UNION {OnContext(a) \cup OnOne(a) \cup Peeks(a) \cup OnSeveral(a, b, d)
                    \cup Pairs(a, b, d) \cup Launches(a, b, locks) \cup Ends(a)
                    \cup {FreeAsync(a, b), Pack(args)} :
                  a \in Handles, b \in Handles, d \in Handles, locks \in Seq(Reads),
                  args \in Seq(Handles) \ {<<>>}}

\* What a request looks like.
LEMMA Requests ==
  ASSUME NEW h \in Handles
  PROVE  /\ R(h) \in Request /\ W(h) \in Request /\ Bare(h) \in Request /\ Brief(h) \in Request
         /\ R(h).h = h /\ R(h).check = {h} /\ R(h).keep /\ ~R(h).write
         /\ W(h).h = h /\ W(h).check = {h} /\ W(h).keep /\ W(h).write
  BY DEF R, W, Bare, Brief, Request

\* A list of plain read and write locks is careful.
LEMMA PlainCareful ==
  ASSUME NEW locks \in Seq(Reads \cup {W(h) : h \in Handles})
  PROVE  locks \in Seq(Request) /\ Careful(locks)
<1>1. \A i \in DOMAIN locks : \E h \in Handles : locks[i] = R(h) \/ locks[i] = W(h)
  BY DEF Reads
<1>2. \A i \in DOMAIN locks : /\ locks[i] \in Request /\ locks[i].keep
                              /\ locks[i].check = {locks[i].h}
  BY <1>1, Requests
<1>3. DOMAIN locks = 1 .. Len(locks) /\ Len(locks) \in Nat OBVIOUS
<1>4. locks \in Seq(Request) BY <1>2, <1>3
<1>5. Careful(locks)
  <2> SUFFICES ASSUME NEW i \in DOMAIN locks
               PROVE  /\ \A h \in locks[i].check : \E j \in 1 .. i : locks[j].h = h
                      /\ \E j \in i .. Len(locks) : locks[i].h \in locks[j].check
    BY <1>2 DEF Careful
  <2>1. i \in 1 .. i /\ i \in i .. Len(locks) BY <1>3
  <2> QED BY <1>2, <2>1
<1> QED BY <1>4, <1>5

\* A plan without a destroying call is sound when its locks are careful or no
\* driver call follows.
LEMMA SoundIf ==
  ASSUME NEW f, f.locks \in Seq(Request), Len(f.locks) > 0, f.destroys = {},
         f.drives = FALSE \/ (f.drives = TRUE /\ Careful(f.locks))
  PROVE  Sound(f)
<1>1. f.drives \in BOOLEAN /\ f.destroys \subseteq Handles OBVIOUS
<1>2. f.drives => Careful(f.locks) OBVIOUS
<1> QED BY <1>1, <1>2 DEF Sound

\* A method's plan is sound when its locks are careful: the context comes
\* last.
LEMMA OnSound ==
  ASSUME NEW c \in Handles, NEW locks \in Seq(Request), Careful(locks)
  PROVE  /\ Sound(On(c, locks))
         /\ On(c, locks).locks = Append(locks, R(c))
         /\ On(c, locks).drives /\ On(c, locks).destroys = {}
<1>1. /\ On(c, locks).locks = Append(locks, R(c))
      /\ On(c, locks).drives = TRUE /\ On(c, locks).destroys = {}
  BY DEF On
<1>2. PICK all : all = Append(locks, R(c)) OBVIOUS
<1>3. R(c) \in Request /\ R(c).h = c /\ R(c).check = {c} /\ R(c).keep BY Requests
<1>4. /\ all \in Seq(Request) /\ Len(all) = Len(locks) + 1 /\ Len(locks) \in Nat
      /\ DOMAIN all = 1 .. Len(locks) + 1 /\ DOMAIN locks = 1 .. Len(locks)
      /\ \A i \in 1 .. Len(locks) : all[i] = locks[i]
      /\ all[Len(locks) + 1] = R(c)
  BY <1>2, <1>3
<1>5. Careful(all)
  <2> SUFFICES ASSUME NEW i \in DOMAIN all
               PROVE  /\ all[i].keep
                      /\ \A h \in all[i].check : \E j \in 1 .. i : all[j].h = h
                      /\ \E j \in i .. Len(all) : all[i].h \in all[j].check
    BY DEF Careful
  <2>1. CASE i = Len(locks) + 1 BY <1>3, <1>4, <2>1
  <2>2. CASE i \in 1 .. Len(locks)
    <3>1. all[i].keep BY <1>4, <2>2 DEF Careful
    <3>2. ASSUME NEW h \in all[i].check PROVE \E j \in 1 .. i : all[j].h = h
      <4>1. PICK j \in 1 .. i : locks[j].h = h BY <1>4, <2>2, <3>2 DEF Careful
      <4>2. all[j] = locks[j] BY <1>4, <2>2
      <4> QED BY <4>1, <4>2
    <3>3. \E j \in i .. Len(all) : all[i].h \in all[j].check
      <4>1. PICK j \in i .. Len(locks) : locks[i].h \in locks[j].check
        BY <1>4, <2>2 DEF Careful
      <4>2. all[j] = locks[j] /\ all[i] = locks[i] /\ j \in i .. Len(all)
        BY <1>4, <2>2, <4>1
      <4> QED BY <4>1, <4>2
    <3> QED BY <3>1, <3>2, <3>3
  <2> QED BY <1>4, <2>1, <2>2
<1>6. Len(all) > 0 BY <1>4
<1>7. Sound(On(c, locks)) BY <1>1, <1>2, <1>4, <1>5, <1>6, SoundIf
<1> QED BY <1>1, <1>7

\* Only locks, drives and destroys matter.
LEMMA SameSound ==
  ASSUME NEW f, NEW g, Sound(g), f.locks = g.locks, f.drives = g.drives,
         f.destroys = g.destroys
  PROVE  Sound(f)
  BY DEF Sound

Plain == Reads \cup {W(h) : h \in Handles}

\* Use, Direct and Launching of plain locks.
LEMMA UseSound ==
  ASSUME NEW locks \in Seq(Plain), locks # <<>>
  PROVE  /\ Sound(Use(locks)) /\ Sound(Direct(locks)) /\ Sound(Launching(locks))
         /\ Direct(locks).locks = Append(locks, R(CtxOf[locks[1].h]))
         /\ Direct(locks).drives
<1>1. locks \in Seq(Request) /\ Careful(locks) BY PlainCareful DEF Plain
<1>2. CtxOf[locks[1].h] \in Handles
  <2>1. 1 \in DOMAIN locks BY <1>1
  <2>2. locks[1] \in Request BY <1>1, <2>1
  <2>3. locks[1].h \in Handles BY <2>2 DEF Request
  <2> QED BY <2>3, LockPlansAssumption
<1>3. /\ Sound(Use(locks)) /\ Use(locks).drives
      /\ Use(locks).locks = Append(locks, R(CtxOf[locks[1].h]))
  BY <1>1, <1>2, OnSound DEF Use
<1>4. /\ Direct(locks).locks = Use(locks).locks
      /\ Direct(locks).drives = Use(locks).drives
      /\ Direct(locks).destroys = Use(locks).destroys
  BY DEF Direct, Use, On
<1>5. /\ Launching(locks).locks = Use(locks).locks
      /\ Launching(locks).drives = Use(locks).drives
      /\ Launching(locks).destroys = Use(locks).destroys
  BY DEF Launching, Use, On
<1>6. Sound(Direct(locks)) BY <1>3, <1>4, SameSound
<1>7. Sound(Launching(locks)) BY <1>3, <1>5, SameSound
<1> QED BY <1>3, <1>4, <1>6, <1>7

\* Destroy of a handle that is among the write locks.
LEMMA DestroySound ==
  ASSUME NEW locks \in Seq(Plain), NEW h \in Handles,
         NEW i \in DOMAIN locks, locks[i] = W(h)
  PROVE  Sound(Destroy(locks, h))
<1>1. locks # <<>> OBVIOUS
<1>2. /\ Sound(Direct(locks)) /\ Direct(locks).locks = Append(locks, R(CtxOf[locks[1].h]))
      /\ Direct(locks).drives
  BY <1>1, UseSound
<1>3. /\ Destroy(locks, h).locks = Direct(locks).locks
      /\ Destroy(locks, h).drives = Direct(locks).drives
      /\ Destroy(locks, h).destroys = {h}
  BY DEF Destroy, Direct, Use, On
<1>4. /\ i \in DOMAIN Direct(locks).locks /\ Direct(locks).locks[i] = W(h)
  BY <1>2
<1>5. W(h).write /\ W(h).h = h BY Requests
<1> QED BY <1>2, <1>3, <1>4, <1>5 DEF Sound

\* Short lists of plain locks.
LEMMA Lists ==
  ASSUME NEW x \in Plain, NEW y \in Plain, NEW z \in Plain
  PROVE  /\ <<x>> \in Seq(Plain) /\ <<x>> # <<>>
         /\ <<x, y>> \in Seq(Plain) /\ <<x, y>> # <<>>
         /\ <<x, y, z>> \in Seq(Plain) /\ <<x, y, z>> # <<>>
  OBVIOUS

\* Handles are plain locks.
LEMMA PlainOf == \A h \in Handles : R(h) \in Plain /\ W(h) \in Plain
  BY DEF Plain, Reads

\* The methods that start from a context.
LEMMA OnContextSound == \A c \in Handles : \A f \in OnContext(c) : Sound(f)
<1> SUFFICES ASSUME NEW c \in Handles, NEW f \in OnContext(c) PROVE Sound(f)
  OBVIOUS
<1>1. f = On(c, <<>>)
  BY DEF OnContext, Alloc, NewStream, NewEvent, LoadModule, LoadModuleEx, NewLinker,
         AllocHost, RegisterHost, AllocManaged, DefaultMemPool, PoolAttribute,
         OpenIPCBuffer, OpenIPCEvent, AllocPitched, AllocVolume, AllocArray2D,
         ContextQuery, PointerMemoryType
<1>2. <<>> \in Seq(Request) /\ Careful(<<>>) BY DEF Careful
<1> QED BY <1>1, <1>2, OnSound

\* The methods on one handle.
LEMMA OnOneSound == \A h \in Handles : \A f \in OnOne(h) : Sound(f)
<1> SUFFICES ASSUME NEW h \in Handles, NEW f \in OnOne(h) PROVE Sound(f)
  OBVIOUS
<1>1. f \in {Use(<<R(h)>>), Direct(<<R(h)>>), Use(<<W(h)>>), Direct(<<W(h)>>)}
  BY DEF OnOne, CopySlice, CopyAt, ViewCopy, CopyIPC, CopyPitched, CopyVolume, CopyArray,
         NewTexture, NewSurface, EventIPCHandle, AllocAsync, AllocFromPool, CopyGlobal,
         Memset, Fill, Advise, IPCHandle, StreamQuery, EventQuery, BeginCapture,
         EndCapture, Instantiate, GetFunction, GetGlobal, FunctionAttribute,
         SetFunctionAttribute, Occupancy, AddInput, Complete
<1>2. <<R(h)>> \in Seq(Plain) /\ <<W(h)>> \in Seq(Plain) BY PlainOf, Lists
<1>3. <<R(h)>> # <<>> /\ <<W(h)>> # <<>> OBVIOUS
<1> QED BY <1>1, <1>2, <1>3, UseSound

\* The methods that make no driver call.
LEMMA PeekSound ==
  ASSUME NEW locks \in Seq(Request), locks # <<>> PROVE Sound(Peek(locks))
<1>1. /\ Peek(locks).locks = locks /\ Peek(locks).drives = FALSE
      /\ Peek(locks).destroys = {}
  BY DEF Peek
<1>2. Len(locks) > 0 OBVIOUS
<1> QED BY <1>1, <1>2, SoundIf

\* The methods that look at one handle.
LEMMA PeeksSound == \A h \in Handles : \A f \in Peeks(h) : Sound(f)
<1> SUFFICES ASSUME NEW h \in Handles, NEW f \in Peeks(h) PROVE Sound(f)
  OBVIOUS
<1>1. PICK r \in Request : f = Peek(<<r>>)
  BY Requests DEF Peeks, View, HostSlice, ManagedSlice, LinkLog, SetPackedBuffer
<1>2. <<r>> \in Seq(Request) /\ <<r>> # <<>> OBVIOUS
<1> QED BY <1>1, <1>2, PeekSound

\* Pack looks at one handle after the other.
LEMMA PackSound == \A args \in Seq(Handles) \ {<<>>} : Sound(Pack(args))
<1> SUFFICES ASSUME NEW args \in Seq(Handles) \ {<<>>} PROVE Sound(Pack(args))
  OBVIOUS
<1>1. PICK locks : locks = [i \in DOMAIN args |-> Brief(args[i])] OBVIOUS
<1>2. \A i \in 1 .. Len(args) : Brief(args[i]) \in Request BY Requests
<1>3. locks \in Seq(Request) /\ Len(locks) = Len(args) BY <1>1, <1>2
<1>4. locks # <<>> BY <1>3
<1> QED BY <1>1, <1>3, <1>4, PeekSound DEF Pack

\* The methods on several handles.
LEMMA OnSeveralSound ==
  \A a, b, d \in Handles : \A f \in OnSeveral(a, b, d) : Sound(f)
<1> SUFFICES ASSUME NEW a \in Handles, NEW b \in Handles, NEW d \in Handles,
                    NEW f \in OnSeveral(a, b, d)
             PROVE  Sound(f)
  OBVIOUS
<1>1. R(a) \in Plain /\ R(b) \in Plain /\ R(d) \in Plain /\ W(a) \in Plain BY PlainOf
<1>2. /\ <<R(a)>> \in Seq(Plain) /\ <<R(a)>> # <<>>
      /\ <<R(a), R(b)>> \in Seq(Plain) /\ <<R(a), R(b)>> # <<>>
      /\ <<W(a), R(b)>> \in Seq(Plain) /\ <<W(a), R(b)>> # <<>>
      /\ <<R(a), R(b), R(d)>> \in Seq(Plain) /\ <<R(a), R(b), R(d)>> # <<>>
  BY <1>1, Lists
<1>3. /\ Sound(Use(<<R(a)>>)) /\ Sound(Use(<<R(a), R(b)>>)) /\ Sound(Use(<<W(a), R(b)>>))
      /\ Sound(Use(<<R(a), R(b), R(d)>>)) /\ Sound(Launching(<<R(a), R(b)>>))
  BY <1>2, UseSound
<1>4. Sound(CopyToDevice(a, b))
  <2>1. CopyToDevice(a, b) \in {Use(<<R(a)>>), Use(<<R(a), R(b)>>)} BY DEF CopyToDevice
  <2> QED BY <1>3, <2>1
<1>5. Sound(CopyToDeviceAsync(a, b, d))
  <2>1. CopyToDeviceAsync(a, b, d) \in {Use(<<R(a), R(b)>>), Use(<<R(a), R(b), R(d)>>)}
    BY DEF CopyToDeviceAsync
  <2> QED BY <1>3, <2>1
<1>6. Sound(PeerAccess(a, b))
  <2>1. <<R(b)>> \in Seq(Plain) BY <1>1, Lists
  <2>2. <<R(b)>> \in Seq(Request) /\ Careful(<<R(b)>>) BY <2>1, PlainCareful DEF Plain
  <2>3. Sound(On(a, <<R(b)>>)) BY <2>2, OnSound
  <2>4. /\ PeerAccess(a, b).locks = On(a, <<R(b)>>).locks
        /\ PeerAccess(a, b).drives = On(a, <<R(b)>>).drives
        /\ PeerAccess(a, b).destroys = On(a, <<R(b)>>).destroys
    BY DEF PeerAccess, On
  <2> QED BY <2>3, <2>4, SameSound
<1>7. f \in {CopyToDevice(a, b), CopyToDeviceAsync(a, b, d), PeerAccess(a, b),
             Use(<<R(a), R(b)>>), Use(<<W(a), R(b)>>), Use(<<R(a), R(b), R(d)>>),
             Launching(<<R(a), R(b)>>)}
  BY DEF OnSeveral, CopyHost, CopyHostAsync, MemsetAsync, FillAsync, CopyToDeviceAt,
         CopyToDeviceAtAsync, CopyToPeer, WaitEvent, Record, GraphLaunch, GraphUpdate,
         Prefetch, CopyPitchedHostAsync, CopyVolumeHostAsync, CopyArrayHostAsync,
         LaunchPackedOn
<1> QED BY <1>3, <1>4, <1>5, <1>6, <1>7

\* Two locks by address: the flags of both are read under the second.
LEMMA PairCareful ==
  ASSUME NEW a \in Handles, NEW b \in Handles
  PROVE  /\ LockPair(a, b) \in Seq(Request) /\ LockPair(a, b) # <<>>
         /\ Careful(LockPair(a, b)) /\ LockPair(a, b)[1].h \in Handles
<1>1. CASE a = b
  <2>1. LockPair(a, b) = <<R(a)>> BY <1>1 DEF LockPair
  <2>2. <<R(a)>> \in Seq(Plain) BY PlainOf, Lists
  <2>3. <<R(a)>> \in Seq(Request) /\ Careful(<<R(a)>>) BY <2>2, PlainCareful DEF Plain
  <2> QED BY <2>1, <2>3, Requests
<1>2. CASE a # b
  <2>1. PICK x \in Handles, y \in Handles :
          /\ {x, y} = {a, b}
          /\ LockPair(a, b) = <<Bare(x), [R(y) EXCEPT !.check = {a, b}]>>
    BY <1>2 DEF LockPair
  <2>2. PICK locks : locks = <<Bare(x), [R(y) EXCEPT !.check = {a, b}]>> OBVIOUS
  <2>3. /\ locks[1] \in Request /\ locks[1].h = x /\ locks[1].check = {} /\ locks[1].keep
        /\ locks[2] \in Request /\ locks[2].h = y /\ locks[2].check = {a, b}
        /\ locks[2].keep
    BY <2>2 DEF Bare, R, Request
  <2>4. locks \in Seq(Request) /\ Len(locks) = 2 /\ DOMAIN locks = 1 .. 2 /\ locks # <<>>
    BY <2>2, <2>3
  <2>5. Careful(locks)
    <3>1. /\ \A h \in locks[2].check : \E j \in 1 .. 2 : locks[j].h = h
          /\ \E j \in 1 .. 2 : locks[1].h \in locks[j].check
          /\ \E j \in 2 .. 2 : locks[2].h \in locks[j].check
      BY <2>1, <2>3
    <3>2. \A i \in 1 .. 2 : i = 1 \/ i = 2 OBVIOUS
    <3> QED BY <2>3, <2>4, <3>1, <3>2 DEF Careful
  <2> QED BY <2>1, <2>2, <2>3, <2>4, <2>5
<1> QED BY <1>1, <1>2

\* Careful locks after a plain one are careful.
LEMMA AfterCareful ==
  ASSUME NEW s \in Handles, NEW locks \in Seq(Request), Careful(locks)
  PROVE  /\ <<R(s)>> \o locks \in Seq(Request) /\ Careful(<<R(s)>> \o locks)
         /\ <<R(s)>> \o locks # <<>> /\ (<<R(s)>> \o locks)[1].h = s
<1>1. PICK all : all = <<R(s)>> \o locks OBVIOUS
<1>2. R(s) \in Request /\ R(s).h = s /\ R(s).check = {s} /\ R(s).keep BY Requests
<1>3. /\ all \in Seq(Request) /\ Len(all) = Len(locks) + 1 /\ Len(locks) \in Nat
      /\ DOMAIN all = 1 .. Len(locks) + 1 /\ DOMAIN locks = 1 .. Len(locks)
      /\ all[1] = R(s) /\ \A i \in 1 .. Len(locks) : all[i + 1] = locks[i]
  BY <1>1, <1>2
<1>4. Careful(all)
  <2> SUFFICES ASSUME NEW i \in DOMAIN all
               PROVE  /\ all[i].keep
                      /\ \A h \in all[i].check : \E j \in 1 .. i : all[j].h = h
                      /\ \E j \in i .. Len(all) : all[i].h \in all[j].check
    BY DEF Careful
  <2>1. CASE i = 1 BY <1>2, <1>3, <2>1
  <2>2. CASE i # 1
    <3>1. PICK k \in 1 .. Len(locks) : i = k + 1
      <4>1. i - 1 \in 1 .. Len(locks) /\ i = (i - 1) + 1 BY <1>3, <2>2
      <4> QED BY <4>1
    <3>2. all[i] = locks[k] BY <1>3, <3>1
    <3>3. ASSUME NEW h \in all[i].check PROVE \E j \in 1 .. i : all[j].h = h
      <4>1. PICK j \in 1 .. k : locks[j].h = h BY <1>3, <3>2, <3>3 DEF Careful
      <4>2. all[j + 1] = locks[j] /\ j + 1 \in 1 .. i BY <1>3, <3>1
      <4> QED BY <4>1, <4>2
    <3>4. \E j \in i .. Len(all) : all[i].h \in all[j].check
      <4>1. PICK j \in k .. Len(locks) : locks[k].h \in locks[j].check
        BY <1>3 DEF Careful
      <4>2. all[j + 1] = locks[j] /\ j + 1 \in i .. Len(all) BY <1>3, <3>1
      <4> QED BY <3>2, <4>1, <4>2
    <3> QED BY <1>3, <3>2, <3>3, <3>4 DEF Careful
  <2> QED BY <2>1, <2>2
<1> QED BY <1>1, <1>2, <1>3, <1>4

\* Use of careful locks.
LEMMA UseCareful ==
  ASSUME NEW locks \in Seq(Request), Careful(locks), locks[1].h \in Handles
  PROVE  Sound(Use(locks))
  BY OnSound, LockPlansAssumption DEF Use

\* The methods on a pair.
LEMMA PairsSound == \A a, b, d \in Handles : \A f \in Pairs(a, b, d) : Sound(f)
<1> SUFFICES ASSUME NEW a \in Handles, NEW b \in Handles, NEW d \in Handles,
                    NEW f \in Pairs(a, b, d)
             PROVE  Sound(f)
  OBVIOUS
<1>1. Sound(Use(LockPair(a, b))) BY PairCareful, UseCareful
<1>2. Sound(Use(<<R(d)>> \o LockPair(a, b)))
  BY PairCareful, AfterCareful, UseCareful
<1>3. f \in {Use(LockPair(a, b)), Use(<<R(d)>> \o LockPair(a, b))}
  BY DEF Pairs, Elapsed, CopyPitchedToDevice, CopyPitchedToDeviceAsync, lockPitchedPair
<1> QED BY <1>1, <1>2, <1>3

\* The launches, whatever read locks their arguments need.
LEMMA LaunchesSound ==
  \A s, m \in Handles, locks \in Seq(Reads) : \A f \in Launches(s, m, locks) : Sound(f)
<1> SUFFICES ASSUME NEW s \in Handles, NEW m \in Handles, NEW locks \in Seq(Reads),
                    NEW f \in Launches(s, m, locks)
             PROVE  Sound(f)
  OBVIOUS
<1>1. R(s) \in Plain /\ R(m) \in Plain /\ Reads \subseteq Plain BY PlainOf DEF Plain
<1>2. <<R(m)>> \o locks \in Seq(Plain) /\ <<R(m)>> \o locks # <<>> BY <1>1
<1>3. <<R(s), R(m)>> \o locks \in Seq(Plain) /\ <<R(s), R(m)>> \o locks # <<>> BY <1>1
<1> QED BY <1>2, <1>3, UseSound DEF Launches

\* The closes: the write lock of what they destroy.
LEMMA EndsSound == \A h \in Handles : \A f \in Ends(h) : Sound(f)
<1> SUFFICES ASSUME NEW h \in Handles, NEW f \in Ends(h) PROVE Sound(f)
  OBVIOUS
<1>1. Sound(CloseHandle(h))
  <2>1. <<W(h)>> \in Seq(Plain) BY PlainOf, Lists
  <2>2. 1 \in DOMAIN <<W(h)>> /\ <<W(h)>>[1] = W(h) OBVIOUS
  <2> QED BY <2>1, <2>2, DestroySound DEF CloseHandle
<1>2. Sound(CloseContext(h))
  <2>1. <<W(h)>> \in Seq(Plain) BY PlainOf, Lists
  <2>2. <<W(h)>> \in Seq(Request) /\ Careful(<<W(h)>>) BY <2>1, PlainCareful DEF Plain
  <2>3. /\ CloseContext(h).locks = <<W(h)>> /\ CloseContext(h).drives = TRUE
        /\ CloseContext(h).destroys = {h}
    BY DEF CloseContext
  <2>4. 1 \in DOMAIN <<W(h)>> /\ <<W(h)>>[1].write /\ <<W(h)>>[1].h = h
        /\ Len(<<W(h)>>) > 0
    BY Requests
  <2> QED BY <2>2, <2>3, <2>4 DEF Sound
<1>3. f \in {CloseHandle(h), CloseContext(h)}
  BY DEF Ends, CloseStream, CloseEvent, CloseModule, CloseGraph, CloseGraphExec,
         CloseLinker, CloseHostBuffer, CloseRegisteredHost, CloseManaged, CloseIPCBuffer,
         ClosePitched, CloseVolume, CloseArray2D, CloseTexture, CloseSurface
<1> QED BY <1>1, <1>2, <1>3

\* FreeAsync: the write lock comes second.
LEMMA FreeAsyncSound == \A s, b \in Handles : Sound(FreeAsync(s, b))
<1> SUFFICES ASSUME NEW s \in Handles, NEW b \in Handles PROVE Sound(FreeAsync(s, b))
  OBVIOUS
<1>1. PICK locks : locks = <<R(s), W(b)>> OBVIOUS
<1>2. locks \in Seq(Plain) /\ 2 \in DOMAIN locks /\ locks[2] = W(b) BY <1>1, PlainOf, Lists
<1>3. Sound(Destroy(locks, b)) BY <1>2, DestroySound
<1>4. /\ FreeAsync(s, b).locks = Destroy(locks, b).locks
      /\ FreeAsync(s, b).drives = Destroy(locks, b).drives
      /\ FreeAsync(s, b).destroys = Destroy(locks, b).destroys
  BY <1>1 DEF FreeAsync, Destroy, Direct, Use, On
<1> QED BY <1>3, <1>4, SameSound

\* Every method keeps the discipline: its locks are held to the end, each
\* handle is found open under its lock, and what it destroys it has locked
\* for writing.
THEOREM MethodsSound == \A f \in Methods : Sound(f)
<1> SUFFICES ASSUME NEW f \in Methods PROVE Sound(f)
  OBVIOUS
<1>1. PICK a \in Handles, b \in Handles, d \in Handles, locks \in Seq(Reads),
           args \in Seq(Handles) \ {<<>>} :
        f \in OnContext(a) \cup OnOne(a) \cup Peeks(a) \cup OnSeveral(a, b, d)
                \cup Pairs(a, b, d) \cup Launches(a, b, locks) \cup Ends(a)
                \cup {FreeAsync(a, b), Pack(args)}
  BY DEF Methods
<1> QED BY <1>1, OnContextSound, OnOneSound, PeeksSound, OnSeveralSound, PairsSound,
           LaunchesSound, EndsSound, FreeAsyncSound, PackSound

\* Whatever methods of the package run concurrently, on whatever handles, none
\* uses a handle after its Close or while it is being destroyed.
THEOREM PackageSafe ==
  ASSUME Work \subseteq [Procs -> Methods]
  PROVE  Spec => [](NeverAfterClose /\ DestroyAlone)
<1>1. SoundWork BY MethodsSound DEF SoundWork
<1> QED BY <1>1, NoUseAfterClose, DestroyedByOne, PTL
=============================================================================
