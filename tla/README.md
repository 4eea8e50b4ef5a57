# A TLA+ development of gocudrv

gocudrv is a Go binding of the CUDA driver API. CUDA keeps the "current
context" in thread-local state, so the library runs every driver call on
goroutines pinned to OS threads, and hands jobs to them over channels. That
machinery, the locks of the handles above it and what happens when the driver
fails half way are what this development models.

## The system

| Part | State | Operations | What is hard |
|---|---|---|---|
| `internal/executor` | task channel (capacity 1), completion pool, completion state word, `closed`/`quit`/`done`, `retire` | `DoJob`, `DoCtxWait`, `DoJobCtx`, `DoCtx`, `Do`, `Close`, `Retire`, the worker loop | cancellation races delivery; Close races submission; pooled channels are reused by other calls |
| `cuda.Context` | command executor, copy executor, wait lanes with `pending`, `syncActive`, `commandErr`, `closed` | `doJob`, `doWith`, `doCopyJob`, `doCopyWait`, `doJobCtx`, `syncBarrier`, `Close` | cancelled waits keep running; lanes are created by racing callers; Close fails part way and is retried |
| Handles (buffers, pitched buffers, volumes, arrays, textures, surfaces, streams, events, graphs, modules, linkers, host, managed and IPC memory) | an `RWMutex` and a `closed` flag each | copies, memsets, launches, records, `Close`, `FreeAsync` | several locks per operation, writers that hold readers back, destroy that may fail |
| Virtual memory | reserved range, handle, mapping | acquire with rollback, `Close` with retry | one of several driver calls fails |
| Host callbacks | registry of pending functions | register, enqueue, invoke | exactly once; a failed enqueue; a context closed with callbacks queued |
| `internal/argpack` | arena and offsets | `Add`, `Set`, `Params`, `Reset` | pointers into a growing arena |
| Job dispatch | pools of operations and of tracked wrappers | `memcpy...`, `memset`, `newSyncOp`, `launchKernel`, ... | a reused operation carries another call's fields; who puts it back |
| Start-up | installed driver, library, bound entry points, retains | `Init`, `Load`, `OpenAny`, `GetDevice`, `Primary` | racing callers, failure at any step, retry, rollback |
| Linker, registered memory | Go memory lent to the driver, pins | `NewLinker`, `RegisterHost`, `Close` | a failed creation or Close; a context closed underneath; entry points that are missing |
| Numeric helpers | none | `LaunchConfig1D`, `roundUp`, offsets, views, byte sizes | overflow, zero, truncation |
| `cudaresult`, `cudasys`, devices, attributes | tables of entry points | one driver call each | wrappers and tables are written apart and must agree |

A `Context` submits to executors; the methods of a handle take the handle's
lock, then the context's `opMu`, then go to an executor with a pooled
operation. `Init` installs the driver that every context calls through. Calls
come from any number of goroutines; the only callbacks are host functions.

## Modules

`TaskService` is what an executor promises: it accepts a job only while open,
runs accepted jobs one at a time and once each, hands each back exactly once
and before its submitter hears of the result, answers each call with the
outcome of its own job, and stops with nothing accepted left over.

`Executor` is `executor.go` step by step. A call moves through `submit`
(`start`, `lock`, `send`), the wait and the end of the handshake (`received`,
`put`, `drain`); the worker through `run`, `runTask`, `delivered` and
`finishThread` (`wpc`); a closer through `closeOnce`, the lock, `quit` and
`done`. The three atomic swaps are three separate steps, and so are the
channel operations around them. A result in a channel is the name of the call
it belongs to, which is all that its value could tell. `Get` returns any pooled
completion or a fresh one, as `sync.Pool` may; that the pool can also drop
completions only makes them fresh again. Polling before parking has no state.
The `<-e.done` branch of `submit` is left out; `DoneMeansQuiet` shows that
nobody is at that select when `done` is closed.

`Context` is `context.go`. An executor is abstracted to a thread and the tasks
it has accepted (one running, one buffered), which `Executor` justifies.
`pc` follows each call; `cl` follows `Close`. Driver calls are external and may
fail: binding a new thread, clearing the current context, releasing and
restoring it, destroying a handle. A job that panics inside the driver binding
is not considered (`Close` would return early at context.go:544). Handle locks
of waits and destroys are modelled for streams and events, the only handles
with waits.

`LockPlans` says which locks each method of package `cuda` takes. A plan is
the list of lock requests in the order the method makes them, with the `closed`
flags it reads under them, the points where it may return because contexts,
lengths or options do not fit, and what it destroys. Both directions of a copy
share an operator, as do a resource's queries that lock alike; one operator per
method or such pair, named after it, so that the file can be read beside the
Go files. The sizes, descriptors and driver functions differ; the plans do not.

`Handles` runs plans against each other. `sync.RWMutex` is modelled with
announced writers, which keep new readers out as Go's does. A driver call is one
step here; its way through the executors is in `Context`. A call that returns
releases all it holds in one step, so that one method forgets one `RUnlock` is
not something this module can show.

`ArgPack` is `argpack.go`, slot by slot and byte by byte: the two tables of
metadata, the arena with its capacity, the cached pointer array and `dirty`.
When the arena moves, the cached pointers into it become `Stale`. `given` is
what the caller last gave for each argument.

`VirtualBuffer` is `vmm.go`. `apc` follows `AllocVirtual` through the four
acquiring calls and, when one fails, through the rollback it needs; `cpc`
follows each `Close`, whose three teardown calls are `tryFree` on the flags
`live`; `upc` follows the copies. `drv` is what the driver really holds, and
`misuse` records a call it forbids: unmapping what is not mapped, freeing a
range that is mapped or not reserved, releasing what is not held. Any driver
call may fail and then changes nothing.

`HostCallback` is `hostcb.go` and `hostfunc.go`. A launch draws a key, stores
its closure and enqueues the key; a driver thread per stream takes keys in
order and calls `Invoke`, which may happen before the launch has returned. The
32 shards are one map: a key lives in one shard, and each access is one critical
section. The creation of the trampoline in a `sync.Once` has no other state.
A stream belongs to a context, which may be closed at any time: `Context.Close`
drains no stream, so from then on launches are refused, and the driver may go on
calling what is queued (another retain may keep the primary context alive) or
never call it again.

`Symbols` has the two tables of entry points that `cudasys` binds, and, written
apart from them as in the code, the entry points that the wrappers of each file
of `cudaresult` call, with what a wrapper answers when its entry point is
missing: `ErrNotInitialized` for a core call, `ErrSymbolUnavailable` for a
feature.

`Startup` is `init.go` with `Load`, `OpenAny`, `Driver.Close`, `GetDevice` and
`Primary`. `Init` holds the package lock through opening a library, looking up
the required and the optional entry points and `cuInit`; each is a step that may
fail, after which the library is closed and a later `Init` starts over. `Primary`
is not under that lock: its retain, its set-current, and the release and the
executor it gives back when that fails are steps of their own. A `Context`
closes in one step here.

`Features` composes `Startup` with the resources that need optional entry
points: linkers, registered host memory and virtual buffers. `pinned` is what
Go has pinned, `lent` what the driver may still use. The context a resource
lives in may be closed at any time, and the resource then can no longer reach
the driver.

`Dispatch` is `dispatch.go` and `event_dispatch.go`. Each dispatching function
is a record of its operation type, its kind, the entry point it is for and the
fields it sets; the switch of each `Run` is the entry point and the fields its
kind reads. The value of a field is the call that wrote it, so that a leftover
of another call is visible. A call takes an operation from the pool (any, or a
new one), fills it, submits it to the service of `TaskService`, and the
operation goes back by the hand of the caller, the executor or the tracked
wrapper, as its type has it.

`Ranges` is the arithmetic: byte sizes, `roundUp`, `LaunchConfig1D`, the
volumes' and arrays' products, the range checks of offset copies and nested
views, and what each copy and memset then touches on the device and of the
host slice. Buffers imported over IPC are left out: their length is the caller's
word. Go's `int` and `uint64` wrap, at widths given
by the constants `MaxInt` and `MaxUint32`.

The `MC...` modules hold the instances, the `...Proofs` modules the proofs.
Operators named `Bug...` are deliberate mistakes, used only to see that the properties notice them.

## Runs

| Run | Instance | Shows |
|---|---|---|
| `executor` | 2 calls (1 cancellable), 2 completions, 2 closers, fair | pool and channels stay clean, results go home, jobs are recycled once, nothing blocks, `done` means quiet; the inductive invariant; refinement of `TaskService`; every call and Close returns, every accepted job is recycled, `Retire` is honoured |
| `context_lanes` | 3 waits, 2 lanes, 1 destroy, 1 Close | the lane cap, exact counters, no destroy under a running wait |
| `context_close` | wait, destroy, copy, command, 2 Closes, fair | the context is current wherever it is used, threads are given back clean, the retain is dropped once; every call and every Close returns |
| `handles` | a method on several handles against any other, 2 closes, 10 handles in 2 contexts, fair | no use after close, destroys run alone, locks are released on every path, no deadlock |
| `handles_opposite` | 2 opposite copies, 2 closes, fair | expected to fail: see Findings |
| `virtual_buffer` | 2 copies, 3 Closes | every rollback and every retried Close is legal and complete; copies only on mapped memory; the inductive invariant |
| `arg_pack` | 4 arguments of 1, 3 and 5 bytes, 2 slots of 2 bytes | every argument keeps its value through growth, updates and reuse; the driver reads it, aligned, through the pointers of `Params` |
| `host_callback` | 4 launches on 2 streams, each in a context that may be closed, fair | no accepted closure runs twice or is lost, no other runs; the registry holds exactly the closures still to be called, also those a closed context leaves behind; an accepted closure is run unless its context is closed first |
| `startup` | 2 goroutines, 2 paths, 2 libraries that may each lack any one entry point that matters, a linker, a registration, a virtual buffer | nobody calls a driver that is closed, not initialised or lacks a core entry point; failures leave no library, thread or retain behind; lent memory is pinned for as long as it is lent; a linker or a virtual buffer that exists can be destroyed |
| `dispatch` | 2 calls of any dispatching functions of one operation type, 2 operations, 2 wrappers, refused, cancelled, abandoned or run | a driver call is the one asked for, with the arguments of its own call; an operation has one owner and is never in the pool while it is in use |
| `ranges` | 2 allocations of any kind, a view, all integers of 4 bits, `uint32` of 2 bits, elements of 1, 2, 4, 8 bytes | no request leaves its allocation or its host slice; the overflow checks refuse exactly what does not fit |
| `ranges_pitched` | the same | expected to fail: see Findings |

Bounds. Two completions between two calls are reused, the only way one call can
meet another's leftovers; that more calls, completions and closers change
nothing is proved for the invariants and for the refinement.
Two lanes and three waits make waits miss
the pool together and share a lane; the real cap, 8, is the constant
`MaxLanes`. `MaxThreads` counts the threads a run may start and is large enough
that none is refused: the command thread, one per wait, one for copies and one
per recovery. Two Closes are enough for one to fail and recover and the next to
meet what it left.
In `handles` two workers and two writers are the smallest group in which a
reader waits behind a writer that waits for a reader. Methods with equal plans
are run once (`SamePlans` is evaluated by TLC), the closes are of handles the two
methods use, and the address order of the handles puts both orders of a pair in
front of `lockEvents`. In `arg_pack` the sizes are scaled down so that the
second spilled argument can move the arena and `Reset` drops it or keeps it. Three Closes of a virtual
buffer fail at two different calls before one succeeds. Three launches on one
stream queue up behind each other while a fourth overlaps them on another, whose
context may stay open when theirs is closed.

`MaxOpens` is 2 because a second library is what a retried `Init` loads after
the first was given up; two goroutines race for the lock and hold two retains
of the same primary context; `MaxLeaks` 1 lets a release fail on the way out of
`Primary`. In `dispatch` a leftover field or a second put shows when the next
call takes the operation, so two calls suffice; the types have pools of their
own, so a behaviour is about one type, and TLC tries all nine. In `ranges` the
code mentions the widths only through `math.MaxInt`, `MaxUint64` and
`MaxUint32`, so a word of 4 bits meets every wrap one of 64 does; one kind of
allocation at a time and one request at a time, as no method takes two kinds and
the requests do not interact.

Deadlock checking is on in `arg_pack` and `startup` and off elsewhere: when
every call has returned, every handle is closed and nobody starts anew, the
system rests. That nobody is stuck before that is a property
(`EveryCallReturns`, `EveryJobRecycled`, `EveryOpReturns`, `AcceptedRuns`);
`dispatch` and `ranges` have no waiting in them.

Symmetry is used in `startup`, `dispatch` and `ranges`, which check no
liveness: goroutines, calls, operations, wrappers and allocations are each
interchangeable.

Fairness is weak fairness of each goroutine once its call was made, of each
worker and of each Close. Go's scheduler is preemptive and the spin loops
yield; `RWMutex` and channels queue their waiters. Nothing is assumed about
callers, cancellation or new Closes. A job, and so a driver call, is assumed to
end: a driver call that hangs hangs its caller in the code as well. Driver
threads are fair to the callbacks of a stream only while its context is open,
as CUDA promises for a stream whose earlier work ends. After `Context.Close`
nothing is assumed: `docs/api/cuda.md` says of host functions still queued that
"they may never run, and their closures are retained for the life of the
process", and `AcceptedRuns` excepts them. A context whose work fails, so that
the driver stops calling back, is outside the assumption too. A closure that
`Invoke` has taken out is run, whatever happens to the context.

## Proofs

For any number of calls, completions and closers TLAPS proves (`ExecutorProofs`)

    Spec => []IInv          IInv = TypeOK /\ Ownership /\ Handshake
                                   /\ JobOwnership /\ Closing

and from it `TypeOK`, `PoolClean`, `OwnResult`, `NeverStuck`, `RecycledOnce`,
`WaitMeansFinished` and `DoneMeansQuiet`. None of these is inductive: that the
pool is clean depends on what each side still intends to do. `Ownership` gives
every completion one holder, `Handshake` lists the pairs of places the two
sides can be at with what the state word and the channel then hold,
`JobOwnership` does the same for the job, and `Closing` says what `e.mu`
excludes. There is one lemma per action and the same invariant is checked by
TLC in `executor`.

It also proves `RetireHonoured`, which speaks of two moments: `Unclosed` says that
before the first Close nobody has signalled `quit` and the thread is not free, so
that a `Retire` then establishes `Kept` (retired, and not past `finishThread`),
which no step undoes. And it proves `Spec => Service!SSpec`, the refinement: under
the mapping `phase`, `reply`, `mode` each action is one abstract step or a stutter.

The assumptions are that `WaitCalls` is a set of calls and that the two null
values are neither calls nor completions.

`HostCallbackProofs` proves `ExactlyOnce` and `RegistryExact` for any finite set
of launches and any streams, in contexts closed at any time. Neither is inductive alone: a callback finds its
closure only because keys are unique, an entry sits under the key of its launch
(`EntriesAtHome`), and a key in a stream's queue is that of one accepted launch
there (`QueuesExact`). That the launches are finitely many gives every draw a
key that is still free.

`FeaturesProofs` proves `UsableDriver` and `NothingLeaks` of `Startup` together
with `LentMemoryPinned` and `Disposable` of `Features`, for any finite set of
goroutines and any paths, libraries and resources, from one invariant `FInv`.
Its start-up half says that whoever is inside `Init` holds the lock and no driver
is installed meanwhile, what it has opened and bound at each step, and that
everybody else's driver is the installed one, which is complete; its other half
that a resource was made through the installed driver, with the entry points it
needs, and is pinned from before its creation until after its end. `NothingLeaks` counts owners,
so its proof goes through the cardinality of the set of owners, which one step
changes by at most one. The table lemmas `CoreRequired` and `FeatureKnown` are
what makes `UsableDriver` and `Disposable` true: every call of a core wrapper is
in the table of required symbols, and every call of a feature is in the group
that its constructor checks. The assumption on the resources is that linkers,
registrations and virtual buffers are different things.

The last section of `FeaturesProofs` is about `VirtualBuffer`, a buffer made
through such a driver: `VSpec => []IInv` for any number of copies and Closes, and
from it `NeverMisused`, `RollbackComplete`, `CloseComplete` and `CopyOnMapped`,
with no assumptions. `Transaction` says what the driver holds at
each step of the acquisition and that the flags are exact once the buffer is
open, `Locking` what `opMu` excludes, `Teardown` what a Close without errors has
already given back. `NeverMisused` is not inductive without the first,
`CloseComplete` not without the last.

`DispatchProofs` proves `OwnArguments` and `OneOwner` for any calls, operations
and wrappers. The invariant says which call owns each operation at each point
and that the fields the function sets carry the owner's name from `Begin` until
the operation is recycled. It rests on two lemmas about the tables,
`FunctionsCover` (each dispatching function sets every field that its kind reads,
and its kind calls the entry point the function is for) and `FunctionsTidy` (a
recycled operation keeps no reference to memory its caller lent it).

`HandlesProofs` proves `NeverAfterClose` and `DestroyAlone` for any goroutines
and handles, provided every plan is `Sound`: a method that calls the driver keeps
its locks until the call is over, reads the `closed` flag of every handle it has
locked and reads it under that lock, and holds the write lock of what it
destroys. The invariant adds where each goroutine is in its plan, that a write
lock excludes every other holder, and that what was found open stays open.
`MethodsSound` discharges the proviso for every method
of `LockPlans` on any handles, aliased or not, and `PackageSafe` puts the two
together. Lock orders play no part in it: the deadlock of `handles_opposite` is
safe. `PackageSafe` takes the locks of a launch's arguments as any list of read
locks; that `ArgLocks` makes such a list is a fold, and stays with TLC.

`ContextProofs` proves all six safety properties of `Context`: `LaneCap`,
`CountsExact`, `NoWaitOnDestroyed`, `ContextCurrent`, `ThreadsClean` and
`RetainBalance`, for any finite set of waits, any destroys, copies and commands,
and any number of lanes, threads and Closes. The assumptions are that the waits
are finitely many, so that they can be counted, that a call is of one kind, and
that the value for "nobody creates a lane" is no wait. The invariant `CInv` has
one part per reason:

- `Locking` is `opMu`: a call at work has an open context and no Close beside
  it; a Close at work has taken the lanes and no call is at work. An abandoned
  wait is not at work and yet on its lane, which is why a Close keeps the lanes
  it has taken (`leaving`) until each has run dry.
- `Roles` gives each running thread exactly one role (command, copies, one lane,
  one lane being closed) and says that the context is current in it. Without
  disjoint roles the closing of one executor could take the context away from
  another.
- `Creating` is `laneCreateMu`: one creator, and room for its lane since its
  second look, which holds because only the creator adds a lane.
- `LanesKept` says that claimed lanes and the lanes a barrier has yet to visit
  stay in the pool while their calls are at work.
- `QueuesExact` says that a task is queued once, on the thread it was sent to,
  until it is reported as finished, and that only a wait may have left its task.
- `Barriers` is the reason for `NoWaitOnDestroyed`: from the moment a destroy
  has its handle's lock, the waits on that handle that are left are abandoned
  ones; each is on a lane the barrier has yet to visit, or ahead of its no-op on
  the lane it is visiting, and none is left when the destroy is sent.

`CountsExact` is used as well as proved: a destroy that reads `syncActive = 0`
skips the lanes, which is right only because the count is exact. That
`leastLoadedWaitLane` returns a lane needs the least element of a set of
naturals, taken from the library's theorem that `<` is well-founded.

`RangesProofs` proves `InsideAllocation` and `ExactlyWhatFits` for integers of
any width (`MaxInt` is any positive number, `MaxUint32` at most that, and
nothing needs them to be powers of two less one) and any number of allocations. First
come facts of quotients, remainders and products; then one lemma per helper that
says what it computes in unbounded arithmetic (`SizeExact`, `RoundUpExact`,
`LaunchExact`, `VolumeExact`, `RangeExact`, ...), which is where every possible
wrap is ruled out or shown to be refused. `ExactlyWhatFits` follows from these.
`InsideAllocation` is not inductive: that a copy stays inside depends on how the
allocation's size came about. The invariant `RInv` says, for each kind of
allocation, how its size follows from the length or the dimensions that its
wrapper remembers, and that a view is a window of its owner's length. The proof
also covers the pitched buffers of the finding below: their copies stay inside
whatever size the driver gave, because `elements` refuses the products that wrap.
The assumption on the elements is that they have 1, 2, 4 or 8 bytes.

`ArgPackProofs` proves `ValuesKept` and `DriverSeesArguments` for any number of
arguments and slots, any sizes, alignment, minimum and retained capacity. The
invariant `AInv` has one part per reason:

- `Lists` says how long each list is, so that an index into the metadata is one.
- `Stored` puts each argument in its slot, or in the part of the arena in use, at
  an aligned offset and only when `hasSpill` is set.
- `Apart` says that arguments in the arena lie behind each other. Without it
  `ValuesKept` is not inductive: a write to one argument could reach another.
- `Cached` says that the array `Params` may return without building it points to
  those places. It is why a move of the arena must leave `dirty` set, and why
  `DriverSeesArguments` survives updates in place, which leave it clear.

That a move takes the arguments along is `MovedFacts`: the new arena has room
for the next argument and agrees with the old one up to `spillLen`. The
assumptions are that sizes are positive, that slots and the alignment are not
empty and that zero is a byte.

The inductive invariants that no run lists were model-checked on the instances
of the runs before they were proved.

Every safety property that a passing run checks is proved, and so is the
refinement. Only model-checked are liveness under fairness and whatever speaks of
`ENABLED`, both out of the prover's reach; and what a fold computes for every
input (`ArgLocks`), which would take an induction over data.

## Findings

`Buffer.CopyToDevice` and its variants lock source and destination in argument
order. Two such copies in opposite directions and a `Close` of each buffer
stop for ever, each reader behind a writer that waits for the other reader
(`handles_opposite`). Event pairs and pitched pairs are locked by address for
this very reason. Kernel launches, which lock their arguments in list order,
have the same shape: two launches with two buffers in opposite orders. So has
`EnablePeerAccess`, which locks the peer's context and then its own.

`AllocPitched` promises to reject "byte-size overflow" and checks the width in
bytes only: a width and a height whose product of bytes does not fit a `uint64`
are passed to the driver (`ranges_pitched`). `AllocVolume`, with the same
promise, checks the product. The copies of such a buffer are guarded by
`elements`, and `ranges` shows that none leaves the allocation the driver gave.

## Not modelled, and the plan

Not modelled, because there is no state or order in it that a property could be
about: the marshalling of arguments and the layout of types in `cudasys`, the
translation of result codes into errors, device attributes and versions, the
bit patterns of fills, formats and sampling options, nil receivers, the
examples. Not modelled, because it is the driver's or the device's: the contents
of memory, the GPU's own ordering of queued work, the capture state of a
stream, peer access.

What is left to do is on the side of liveness: `EveryCallReturns`,
`EveryOpReturns`, `AcceptedRuns` and the like hold on the instances above, and a
proof for every instance needs a prover that reasons about fairness. An
extension of the code would start in `LockPlans` for a new method and in
`Dispatch` for a new driver call: `MethodsSound` and `FunctionsCover` then say
what has to be shown about it.
