------------------------------ MODULE MCHandles ------------------------------
(* Instances of Handles for TLC: two goroutines at work, two that close.   *)
EXTENDS Handles

b1 == 1   \* two buffers, events, pitched buffers...: only addresses matter
b2 == 2
s1 == 3   \* a stream
p1 == 4   \* pinned memory, or a texture
m1 == 5   \* a module, or a linker
x1 == 6   \* an executable graph
g1 == 7   \* a graph
c1 == 8   \* their context
c2 == 9   \* another context,
d1 == 10  \* and a buffer in it

MCHandleSet == 1 .. 10
MCCtxOf == [h \in MCHandleSet |-> IF h \in {c2, d1} THEN c2 ELSE c1]

\* The methods on one handle, and those that create one.
Single ==
  {Alloc(c1), NewStream(c1), NewEvent(c1), LoadModule(c1), LoadModuleEx(c1),
   NewLinker(c1), AllocHost(c1), RegisterHost(c1), AllocManaged(c1),
   DefaultMemPool(c1), PoolAttribute(c1), OpenIPCBuffer(c1), OpenIPCEvent(c1),
   AllocPitched(c1), AllocVolume(c1), AllocArray2D(c1), ContextQuery(c1),
   PointerMemoryType(c1),
   CopySlice(b1), Memset(b1), Fill(b1), CopyAt(b1), ViewCopy(b1), Advise(b1),
   IPCHandle(b1), CopyIPC(b1), CopyPitched(b1), CopyVolume(b1), CopyArray(b1),
   NewTexture(b1), NewSurface(b1), EventQuery(b1), EventIPCHandle(b1),
   View(b1), ManagedSlice(b1), HostSlice(p1), SetPackedBuffer(b1),
   StreamQuery(s1), AllocAsync(s1), BeginCapture(s1), EndCapture(s1),
   AllocFromPool(s1), Instantiate(g1),
   GetFunction(m1), GetGlobal(m1), CopyGlobal(m1), FunctionAttribute(m1),
   SetFunctionAttribute(m1), Occupancy(m1),
   AddInput(m1), Complete(m1), LinkLog(m1)}

\* The methods on several handles, in lock orders that agree.
Ordered ==
  <<MemsetAsync(s1, b1), CopyHost(b1, p1), CopyHostAsync(s1, b2, p1),
    Elapsed(b1, b2), Elapsed(b2, b1), Elapsed(b1, b1),
    CopyPitchedToDeviceAsync(s1, b2, b1), GraphLaunch(s1, x1), GraphUpdate(x1, g1),
    Launch(m1, <<b1, p1>>), LaunchOn(s1, m1, <<b1, b1>>),
    LaunchPackedOn(s1, m1), Pack(<<b2, b1>>), FreeAsync(s1, b1),
    CopyToDevice(b1, b1), CopyToDeviceAsync(s1, b1, b2), CopyToDeviceAt(b1, b2),
    CopyToPeer(b1, d1), PeerAccess(c1, c2)>>

\* The other methods on several handles have one of those plans.
ASSUME SamePlans ==
  {Prefetch(s1, b1), FillAsync(s1, b1), CopyPitchedHostAsync(s1, b2, p1),
   CopyVolumeHostAsync(s1, b2, p1), CopyArrayHostAsync(s1, b2, p1),
   CopyPitchedToDevice(b2, b1),
   Record(s1, b1), WaitEvent(s1, b1), LaunchCooperativeOn(s1, m1, <<b1>>),
   CopyToDeviceAtAsync(s1, b1, b1)} \subseteq Range(Ordered)

\* Two closes, of handles that the operations use.
Closes == {<<CloseHandle(b1), CloseEvent(b2)>>,
           <<CloseStream(s1), CloseVolume(b1)>>,
           <<CloseModule(m1), CloseTexture(p1)>>,
           <<CloseGraphExec(x1), CloseGraph(g1)>>,
           <<CloseHandle(b1), CloseContext(c1)>>}

Uses(f) == {f.locks[i].h : i \in DOMAIN f.locks}

\* A method on one handle against one on several, and any two on several,
\* which in which goroutine does not matter.
Partners(i) == Single \cup {Ordered[j] : j \in i .. Len(Ordered)}
OrderedWork ==
  {w \in UNION {{<<Ordered[i], g>> \o z : g \in Partners(i), z \in Closes} :
                i \in DOMAIN Ordered} :
     w[3].destroys \cup w[4].destroys \subseteq Uses(w[1]) \cup Uses(w[2])}

\* The same two buffers, once in each direction.
OppositeCopies ==
  {<<CopyToDevice(b1, b2), CopyToDevice(b2, b1), CloseHandle(b1),
     CloseHandle(b2)>>}
=============================================================================
