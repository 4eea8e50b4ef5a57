------------------------------ MODULE LockPlans ------------------------------
(***************************************************************************)
(* The locks that the methods of package cuda take, method by method.      *)
(*                                                                         *)
(* Every resource (buffer, host memory, stream, event, module, graph,      *)
(* array, texture, linker, context) is a handle with a sync.RWMutex and a  *)
(* closed flag.  A method locks the handles it touches one after the       *)
(* other, returns at the first one that is closed, and hands a job to the  *)
(* context, which takes the context's own read lock last.  A plan is that  *)
(* list.  Module Handles runs plans against each other.                    *)
(*                                                                         *)
(* Handles are numbers because some locks are ordered by address.  Nil     *)
(* arguments and what is checked before the first lock are left out: such  *)
(* a call touches nothing.                                                 *)
(***************************************************************************)
EXTENDS Naturals, Sequences, SequencesExt

CONSTANTS Handles,  \* the handles, by address
          CtxOf     \* the context a handle belongs to; a context is its own

ASSUME LockPlansAssumption ==
  /\ Handles \subseteq Nat /\ CtxOf \in [Handles -> Handles]
  /\ \A h \in Handles : CtxOf[CtxOf[h]] = CtxOf[h]

----------------------------------------------------------------------------
(* A request names a handle, whether it is for the write lock, the handles *)
(* whose closed flag is read once it is granted, and whether the lock is   *)
(* kept until the method returns.                                          *)

R(h) == [h |-> h, write |-> FALSE, check |-> {h}, keep |-> TRUE]
W(h) == [R(h) EXCEPT !.write = TRUE]
Bare(h) == [R(h) EXCEPT !.check = {}]
Brief(h) == [R(h) EXCEPT !.keep = FALSE]

\* A driver call on context c under the given locks.  After the requests
\* numbered in stops the method may also return because contexts, lengths or
\* options do not fit.
On(c, locks) == [locks |-> Append(locks, R(c)), stops |-> {Len(locks)},
                 drives |-> TRUE, destroys |-> {}]
Use(locks) == On(CtxOf[locks[1].h], locks)

\* The same where nothing is left to compare.
Direct(locks) == [Use(locks) EXCEPT !.stops = {}]

\* A method that reads fields of Go values and makes no driver call.
Peek(locks) == [locks |-> locks, stops |-> {}, drives |-> FALSE, destroys |-> {}]

\* A driver call that ends the life of h.  It may fail; then h stays open.
Destroy(locks, h) == [Direct(locks) EXCEPT !.destroys = {h}]

----------------------------------------------------------------------------
(* Buffers and views of them.                                              *)

Alloc(c) == On(c, <<>>)
AllocAsync(s) == Use(<<R(s)>>)

\* CopyFrom, CopyTo and CopyFromHost, CopyToHost: the buffer, then the pinned
\* memory; the asynchronous ones lock the stream first.
CopySlice(b) == Use(<<R(b)>>)
CopyHost(b, p) == Use(<<R(b), R(p)>>)
CopyHostAsync(s, b, p) == Use(<<R(s), R(b), R(p)>>)

Memset(b) == Direct(<<R(b)>>)
MemsetAsync(s, b) == Use(<<R(s), R(b)>>)
Fill(b) == Memset(b)
FillAsync(s, b) == MemsetAsync(s, b)

\* Source before destination, whatever their addresses; a self-copy locks
\* once.
CopyToDevice(b, dst) == Use(IF dst = b THEN <<R(b)>> ELSE <<R(b), R(dst)>>)
CopyToDeviceAsync(s, b, dst) ==
  Use(IF dst = b THEN <<R(s), R(b)>> ELSE <<R(s), R(b), R(dst)>>)

\* The offset copies.
CopyAt(b) == CopySlice(b)
CopyToDeviceAt(b, dst) == CopyToDevice(b, dst)
CopyToDeviceAtAsync(s, b, dst) == CopyToDeviceAsync(s, b, dst)

\* A view is made under its owner's lock, which is all it has.
View(b) == Peek(<<R(b)>>)
ViewCopy(b) == CopyAt(b)

\* The buffer is freed under its read lock.
BugFreeAsyncShared(s, b) == Destroy(<<R(s), R(b)>>, b)

\* The stream's read lock, then the buffer's write lock.
FreeAsync(s, b) == [Destroy(<<R(s), W(b)>>, b) EXCEPT !.stops = {2}]

----------------------------------------------------------------------------
(* Pairs of events and of pitched buffers.                                 *)

\* The pair is locked in the order it is given.
BugPairUnsorted(a, b) == <<Bare(a), [R(b) EXCEPT !.check = {a, b}]>>

\* lockEvents, lockPitchedPair: by address, and once if the two are one.  The
\* closed flags are read when both are held.
LockPair(a, b) ==
  IF a = b THEN <<R(a)>>
  ELSE LET first  == IF a < b THEN a ELSE b
           second == IF a < b THEN b ELSE a
       IN  <<Bare(first), [R(second) EXCEPT !.check = {a, b}]>>

lockPitchedPair(a, b) == LockPair(a, b)

----------------------------------------------------------------------------
(* Streams, events and graphs.                                             *)

NewStream(c) == On(c, <<>>)
NewEvent(c) == On(c, <<>>)
StreamQuery(s) == Direct(<<R(s)>>)
EventQuery(e) == Direct(<<R(e)>>)
WaitEvent(s, e) == Use(<<R(s), R(e)>>)
Record(s, e) == Use(<<R(s), R(e)>>)
Elapsed(a, b) == Use(LockPair(a, b))

BeginCapture(s) == Direct(<<R(s)>>)
EndCapture(s) == Direct(<<R(s)>>)
Instantiate(g) == Direct(<<R(g)>>)
GraphLaunch(s, x) == Use(<<R(s), R(x)>>)

\* Update writes the executable and reads the graph.
GraphUpdate(x, g) == Use(<<W(x), R(g)>>)

----------------------------------------------------------------------------
(* Modules, globals, the linker.                                           *)

LoadModule(c) == On(c, <<>>)
LoadModuleEx(c) == On(c, <<>>)
GetFunction(m) == Direct(<<R(m)>>)
GetGlobal(m) == Direct(<<R(m)>>)
CopyGlobal(m) == Use(<<R(m)>>)
FunctionAttribute(m) == Direct(<<R(m)>>)
SetFunctionAttribute(m) == Direct(<<R(m)>>)
Occupancy(m) == Direct(<<R(m)>>)

\* The driver writes the log buffers during these calls: write locks.
NewLinker(c) == On(c, <<>>)
AddInput(l) == Use(<<W(l)>>)
Complete(l) == Direct(<<W(l)>>)
LinkLog(l) == Peek(<<Bare(l)>>)

----------------------------------------------------------------------------
(* Kernel launches.                                                        *)

\* kernelArgBuilder: the argument locks in the order of the list, each taken
\* once (holdsLock).
ArgLocks(args) ==
  FoldLeft(LAMBDA held, a : IF Contains(held, R(a)) THEN held
                                                    ELSE Append(held, R(a)),
           <<>>, args)

\* A texture or surface among the arguments is locked like a buffer.
ArgTexture(t) == ArgLocks(<<t>>)
ArgSurface(t) == ArgLocks(<<t>>)

\* A launch can return after any of its locks: the contexts are compared one
\* by one.
Launching(locks) == [Use(locks) EXCEPT !.stops = DOMAIN locks]

Launch(m, args) == Launching(<<R(m)>> \o ArgLocks(args))
LaunchOn(s, m, args) == Launching(<<R(s), R(m)>> \o ArgLocks(args))
LaunchCooperativeOn(s, m, args) == LaunchOn(s, m, args)

\* Pack takes a snapshot of each argument and keeps no lock; neither does a
\* packed launch hold anything but stream and module.
Pack(args) == Peek([i \in DOMAIN args |-> Brief(args[i])])
SetPackedBuffer(b) == Peek(<<Brief(b)>>)
LaunchPackedOn(s, m) == Launching(<<R(s), R(m)>>)

----------------------------------------------------------------------------
(* Host memory, managed memory, memory pools, IPC.                         *)

AllocHost(c) == On(c, <<>>)
RegisterHost(c) == On(c, <<>>)
HostSlice(p) == Peek(<<R(p)>>)

AllocManaged(c) == On(c, <<>>)
ManagedSlice(b) == Peek(<<R(b)>>)
Prefetch(s, b) == Use(<<R(s), R(b)>>)
Advise(b) == Direct(<<R(b)>>)

DefaultMemPool(c) == On(c, <<>>)
PoolAttribute(c) == On(c, <<>>)
AllocFromPool(s) == Use(<<R(s)>>)

IPCHandle(b) == Direct(<<R(b)>>)
OpenIPCBuffer(c) == On(c, <<>>)
CopyIPC(b) == Use(<<R(b)>>)
EventIPCHandle(e) == Use(<<R(e)>>)
OpenIPCEvent(c) == On(c, <<>>)

----------------------------------------------------------------------------
(* Pitched buffers, volumes, arrays, textures, surfaces.                   *)

AllocPitched(c) == On(c, <<>>)
CopyPitched(b) == Use(<<R(b)>>)
CopyPitchedToDevice(b, dst) == Use(lockPitchedPair(b, dst))
CopyPitchedHostAsync(s, b, p) == Use(<<R(s), R(b), R(p)>>)
CopyPitchedToDeviceAsync(s, b, dst) ==
  Use(<<R(s)>> \o lockPitchedPair(b, dst))

AllocVolume(c) == On(c, <<>>)
CopyVolume(v) == Use(<<R(v)>>)
CopyVolumeHostAsync(s, v, p) == Use(<<R(s), R(v), R(p)>>)

AllocArray2D(c) == On(c, <<>>)
CopyArray(a) == Use(<<R(a)>>)
CopyArrayHostAsync(s, a, p) == Use(<<R(s), R(a), R(p)>>)
NewTexture(a) == Use(<<R(a)>>)
NewSurface(a) == Use(<<R(a)>>)

----------------------------------------------------------------------------
(* Contexts.                                                               *)

\* StreamPriorityRange, MemInfo; PointerMemoryType.
ContextQuery(c) == On(c, <<>>)
PointerMemoryType(c) == On(c, <<>>)

\* EnablePeerAccess, DisablePeerAccess: the peer's lock, then one's own.
PeerAccess(c, peer) == [On(c, <<R(peer)>>) EXCEPT !.stops = {}]

\* The two buffers are of different contexts; only the source's is locked.
CopyToPeer(b, dst) == CopyToDevice(b, dst)

----------------------------------------------------------------------------
(* Closes.  All but the context's have one shape: the write lock, then the *)
(* destroying call under doBarrier.                                        *)

CloseHandle(h) == Destroy(<<W(h)>>, h)

CloseStream(s) == CloseHandle(s)
CloseEvent(e) == CloseHandle(e)
CloseModule(m) == CloseHandle(m)
CloseGraph(g) == CloseHandle(g)
CloseGraphExec(x) == CloseHandle(x)
CloseLinker(l) == CloseHandle(l)
CloseHostBuffer(p) == CloseHandle(p)
CloseRegisteredHost(p) == CloseHandle(p)
CloseManaged(b) == CloseHandle(b)
CloseIPCBuffer(b) == CloseHandle(b)
ClosePitched(b) == CloseHandle(b)
CloseVolume(v) == CloseHandle(v)
CloseArray2D(a) == CloseHandle(a)
CloseTexture(t) == CloseHandle(t)
CloseSurface(t) == CloseHandle(t)

CloseContext(c) ==
  [locks |-> <<W(c)>>, stops |-> {}, drives |-> TRUE, destroys |-> {c}]
=============================================================================
