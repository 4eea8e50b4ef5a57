--------------------------- MODULE DispatchProofs ---------------------------
(***************************************************************************)
(* The pooled operations, for any number of calls, ops and wrappers.  The  *)
(* argument: an op that has left its pool belongs to one call until that   *)
(* call, or the executor for it, puts it back; nobody else writes to it    *)
(* meanwhile; and every kind reads only fields that its dispatching        *)
(* function has set.                                                       *)
(***************************************************************************)
EXTENDS Dispatch, FiniteSetTheorems, TLAPS

Phases == {"new", "accepted", "running", "ran", "released"}

Types ==
  /\ field \in [Ops -> [Fields -> Calls \cup {NoCall}]]
  /\ pool \in [Ops -> {0, 1}] /\ fresh \subseteq Ops
  /\ tjob \in [Tracked -> Ops \cup {NoCall}]
  /\ tpool \in [Tracked -> {0, 1}] /\ tfresh \subseteq Tracked
  /\ fn \in [Calls -> Functions]
  /\ op \in [Calls -> Ops \cup {NoCall}] /\ trk \in [Calls -> Tracked \cup {NoCall}]
  /\ pc \in [Calls -> {"idle", "filled", "wait", "back", "done"}]
  /\ phase \in [Calls -> Phases]
  /\ outcome \in [Calls -> {"none", "ok", "error"}]
  /\ DOMAIN kind = Ops
  /\ DOMAIN reply = Calls /\ DOMAIN seen = Calls /\ DOMAIN elapsed = Calls

\* Where a caller is and how far its job has come: only a cancellable wait,
\* whose op the executor recycles, is left behind by its caller.
CallsExact ==
  \A k \in Calls :
    /\ pc[k] = "idle" => op[k] = NoCall /\ trk[k] = NoCall
    /\ pc[k] # "idle" => op[k] \in Ops /\ fn[k].op = type
    /\ phase[k] = "new" <=> pc[k] \in {"idle", "filled"}
    /\ ~ByExecutor(fn[k]) /\ phase[k] \in {"accepted", "running", "ran"}
         => pc[k] = "wait"
    /\ phase[k] \in {"new", "accepted", "running"} => outcome[k] = "none"
    /\ phase[k] \in {"new", "accepted"} => seen[k] = NotRun
    /\ trk[k] # NoCall => ByExecutor(fn[k])
    /\ reply[k] = "result" => phase[k] = "released"

\* An op is new, or in its pool, or has exactly one owner.
OpsOwned ==
  \A o \in Ops :
    /\ o \in fresh => pool[o] = 0
    /\ (\E k \in Calls : Owns(k, o)) <=> o \notin fresh /\ pool[o] = 0
    /\ \A j, k \in Calls : Owns(j, o) /\ Owns(k, o) => j = k

TracksOwned ==
  \A t \in Tracked :
    /\ t \in tfresh => tpool[t] = 0
    /\ (\E k \in Calls : Wraps(k, t)) <=> t \notin tfresh /\ tpool[t] = 0
    /\ \A j, k \in Calls : Wraps(j, t) /\ Wraps(k, t) => j = k

\* The fields through which an op would keep somebody's memory reachable.
Reachable == {"host", "params", "desc"}

\* An owned op holds what its owner wrote.
FieldsExact ==
  \A k \in Calls, o \in Ops : Owns(k, o) =>
    /\ kind[o] = fn[k].kind
    /\ \A x \in fn[k].sets : field[o][x] = k
    /\ \A x \in Reachable \ fn[k].sets : field[o][x] = NoCall
    /\ type = "eventElapsedOp" /\ outcome[k] = "ok" => field[o]["ms"] = k

\* An op nobody owns holds nobody's memory.
PoolClean ==
  \A o \in Ops : o \in fresh \/ pool[o] = 1 =>
    \A x \in Reachable : field[o][x] = NoCall

\* A wrapper in use holds the op of its call, one out of use holds none.
WrapsExact ==
  /\ \A k \in Calls, t \in Tracked : Wraps(k, t) => tjob[t] = op[k]
  /\ \A t \in Tracked : tpool[t] = 1 => tjob[t] = NoCall

\* The inductive invariant.
IInv == Types /\ CallsExact /\ OpsOwned /\ TracksOwned /\ FieldsExact /\ PoolClean
          /\ WrapsExact /\ OwnArguments

----------------------------------------------------------------------------
(* The tables.                                                             *)

\* The kinds of a dispatching function call the entry point the function is
\* for and read only fields that it sets.
Covers(f) == /\ Run(f.op, f.kind).calls = f.asks
             /\ "driver" \in Run(f.op, f.kind).reads
             /\ Run(f.op, f.kind).reads \subseteq f.sets

\* A function whose kind does what it asks for, reading what it sets.
LEMMA CoversIf ==
  ASSUME NEW o, NEW k, NEW a, NEW s, NEW r, Run(o, k) = Does(a, r),
         r \cup {"driver"} \subseteq s
  PROVE  Covers(Fn(o, k, a, s))
<1>1. /\ Fn(o, k, a, s).op = o /\ Fn(o, k, a, s).kind = k
      /\ Fn(o, k, a, s).asks = a /\ Fn(o, k, a, s).sets = s
  BY DEF Fn
<1>2. Does(a, r).calls = a /\ Does(a, r).reads = r \cup {"driver"} BY DEF Does
<1> QED BY <1>1, <1>2 DEF Covers

\* Every memOp function.
LEMMA MemOpsCover ==
  /\ \A f \in {memcpyHtoD, memcpyDtoH, memcpyDtoD, memcpyHtoDAsync, memcpyDtoHAsync,
               memcpyDtoDAsync} : Covers(f)
  /\ \A size \in {1, 2, 4} : Covers(memset(size)) /\ Covers(memsetAsync(size))
<1>0. \A k : Run("memOp", k) = MemOpRun[k] BY DEF Run
<1>a. ASSUME NEW k, NEW a, NEW s, MemOpRun[k] = Does(a, s) PROVE Covers(MemOp(k, a, s))
  BY <1>0, <1>a, CoversIf DEF MemOp
<1>1. Covers(memcpyHtoD) BY <1>a DEF memcpyHtoD, MemOpRun
<1>2. Covers(memcpyDtoH) BY <1>a DEF memcpyDtoH, MemOpRun
<1>3. Covers(memcpyDtoD) BY <1>a DEF memcpyDtoD, MemOpRun
<1>4. Covers(memcpyHtoDAsync) BY <1>a DEF memcpyHtoDAsync, MemOpRun
<1>5. Covers(memcpyDtoHAsync) BY <1>a DEF memcpyDtoHAsync, MemOpRun
<1>6. Covers(memcpyDtoDAsync) BY <1>a DEF memcpyDtoDAsync, MemOpRun
<1>7. ASSUME NEW size \in {1, 2, 4} PROVE Covers(memset(size))
  BY <1>a DEF memset, memsetKind, MemOpRun
<1>8. ASSUME NEW size \in {1, 2, 4} PROVE Covers(memsetAsync(size))
  BY <1>a DEF memsetAsync, memsetKind, MemOpRun
<1> QED BY <1>1, <1>2, <1>3, <1>4, <1>5, <1>6, <1>7, <1>8

\* Every syncOp function.
LEMMA SyncOpsCover == \A f \in SyncFns : Covers(f)
<1>0. \A k : Run("syncOp", k) = SyncOpRun[k] BY DEF Run
<1>a. ASSUME NEW k, NEW a, NEW r \in SUBSET {"stream", "event", "flags"},
             SyncOpRun[k] = Does(a, r)
      PROVE  Covers(newSyncOp(k, a))
  BY <1>0, <1>a, CoversIf DEF newSyncOp
<1>1. Covers(newSyncOp("opStreamSync", "StreamSynchronize")) BY <1>a DEF SyncOpRun
<1>2. Covers(newSyncOp("opStreamQuery", "StreamQuery")) BY <1>a DEF SyncOpRun
<1>3. Covers(newSyncOp("opStreamWaitEvent", "StreamWaitEvent")) BY <1>a DEF SyncOpRun
<1>4. Covers(newSyncOp("opCtxSync", "CtxSynchronize")) BY <1>a DEF SyncOpRun
<1>5. Covers(newSyncOp("opEventRecord", "EventRecord")) BY <1>a DEF SyncOpRun
<1>6. Covers(newSyncOp("opEventQuery", "EventQuery")) BY <1>a DEF SyncOpRun
<1>7. Covers(newSyncOp("opEventSync", "EventSynchronize")) BY <1>a DEF SyncOpRun
<1> QED BY <1>1, <1>2, <1>3, <1>4, <1>5, <1>6, <1>7 DEF SyncFns

\* Every other one.
LEMMA OthersCover ==
  /\ \A f \in {memcpy2D, memcpy3D, memcpy2DAsync, memcpy3DAsync, graphLaunch, eventElapsed} :
       Covers(f)
  /\ \A coop \in BOOLEAN : Covers(launchKernel(coop))
<1>a. \A k : /\ Run("memcpy2DOp", k) = Does("Memcpy2D", {"desc"})
             /\ Run("memcpy3DOp", k) = Does("Memcpy3D", {"desc"})
             /\ Run("memcpy2DAsyncOp", k) = Does("Memcpy2DAsync", {"desc", "stream"})
             /\ Run("memcpy3DAsyncOp", k) = Does("Memcpy3DAsync", {"desc", "stream"})
             /\ Run("graphLaunchOp", k) = Does("GraphLaunch", {"exec", "stream"})
             /\ Run("eventElapsedOp", k) = Does("EventElapsedTime", {"start", "end"})
             /\ Run("launchOp", k) = LaunchOpRun(k = "launchOp cooperative")
  BY DEF Run
<1>1. Covers(memcpy2D) BY <1>a, CoversIf DEF memcpy2D
<1>2. Covers(memcpy3D) BY <1>a, CoversIf DEF memcpy3D
<1>3. Covers(memcpy2DAsync) BY <1>a, CoversIf DEF memcpy2DAsync
<1>4. Covers(memcpy3DAsync) BY <1>a, CoversIf DEF memcpy3DAsync
<1>5. Covers(graphLaunch) BY <1>a, CoversIf DEF graphLaunch
<1>6. Covers(eventElapsed) BY <1>a, CoversIf DEF eventElapsed
<1>7. Covers(launchKernel(TRUE)) BY <1>a, CoversIf DEF launchKernel, LaunchOpRun
<1>8. Covers(launchKernel(FALSE)) BY <1>a, CoversIf DEF launchKernel, LaunchOpRun
<1> QED BY <1>1, <1>2, <1>3, <1>4, <1>5, <1>6, <1>7, <1>8

\* Every dispatching function.
LEMMA FunctionsCover == \A f \in Functions : Covers(f)
  BY MemOpsCover, SyncOpsCover, OthersCover DEF Functions

\* Every dispatching function sets fields of the op.
LEMMA SetsFields == \A f \in Functions : f.sets \subseteq Fields
  BY DEF Fields

\* Among them are the ones that reach memory.
LEMMA ReachableFields == Reachable \subseteq Fields
<1>1. memcpyHtoD \in Functions /\ memcpy2D \in Functions /\ launchKernel(TRUE) \in Functions
  BY DEF Functions
<1>2. "host" \in memcpyHtoD.sets BY DEF memcpyHtoD, MemOp, Fn
<1>3. "desc" \in memcpy2D.sets BY DEF memcpy2D, Fn
<1>4. "params" \in launchKernel(TRUE).sets BY DEF launchKernel, Fn
<1> QED BY <1>1, <1>2, <1>3, <1>4, SetsFields DEF Reachable

\* Only the milliseconds are not for a caller to set; only a syncOp waits on a
\* lane, and it reaches no memory; every other op drops what it reaches when
\* its caller recycles it.
Tidy(f) == /\ "ms" \notin f.sets
           /\ Route(f) = "wait" => ByExecutor(f)
           /\ ByExecutor(f) => f.sets \cap Reachable = {}
           /\ ~ByExecutor(f) => f.sets \cap Reachable \subseteq Cleared(f)

\* So for every dispatching function.
LEMMA FunctionsTidy == \A f \in Functions : Tidy(f)
<1> USE DEF Tidy, Route, ByExecutor, Reachable, Cleared, Fn, MemOp
<1>1. /\ Tidy(memcpyHtoD) /\ Tidy(memcpyDtoH) /\ Tidy(memcpyDtoD)
      /\ Tidy(memcpyHtoDAsync) /\ Tidy(memcpyDtoHAsync) /\ Tidy(memcpyDtoDAsync)
  BY DEF memcpyHtoD, memcpyDtoH, memcpyDtoD, memcpyHtoDAsync, memcpyDtoHAsync,
         memcpyDtoDAsync
<1>2. \A size \in {1, 2, 4} : Tidy(memset(size)) BY DEF memset, memsetKind
<1>3. \A size \in {1, 2, 4} : Tidy(memsetAsync(size)) BY DEF memsetAsync, memsetKind
<1>4. \A f \in SyncFns : Tidy(f)
  <2>1. ASSUME NEW k, NEW a PROVE Tidy(newSyncOp(k, a))
    <3>1. newSyncOp(k, a).op = "syncOp"
          /\ newSyncOp(k, a).sets = {"driver", "stream", "event", "flags"}
      BY DEF newSyncOp
    <3> QED BY <3>1
  <2> QED BY <2>1 DEF SyncFns
<1>5. Tidy(memcpy2D) /\ Tidy(memcpy3D) BY DEF memcpy2D, memcpy3D
<1>6. Tidy(memcpy2DAsync) /\ Tidy(memcpy3DAsync)
  BY ReachableFields DEF memcpy2DAsync, memcpy3DAsync
<1>7. Tidy(graphLaunch) /\ Tidy(eventElapsed) BY DEF graphLaunch, eventElapsed
<1>8. Tidy(launchKernel(TRUE)) BY DEF launchKernel
<1>9. Tidy(launchKernel(FALSE)) BY DEF launchKernel
<1> HIDE DEF Tidy
<1> QED BY <1>1, <1>2, <1>3, <1>4, <1>5, <1>6, <1>7, <1>8, <1>9 DEF Functions

----------------------------------------------------------------------------
(* Facts the steps share.                                                  *)

\* The initial state.
LEMMA InitInv == Init => IInv
<1> SUFFICES ASSUME Init PROVE IInv
  OBVIOUS
<1> USE DispatchAssumption DEF Init
<1>1. Types
  <2>1. AnyFn \in Functions BY DEF AnyFn, Functions
  <2> QED BY <2>1 DEF Types, Phases
<1>2. CallsExact BY DEF CallsExact
<1>3. \A k \in Calls, o \in Ops : ~Owns(k, o) BY DEF Owns
<1>4. \A k \in Calls, t \in Tracked : ~Wraps(k, t) BY DEF Wraps
<1>5. OpsOwned /\ TracksOwned BY <1>3, <1>4 DEF OpsOwned, TracksOwned
<1>6. FieldsExact BY <1>3 DEF FieldsExact
<1>7. PoolClean BY ReachableFields DEF PoolClean
<1>8. WrapsExact BY <1>4 DEF WrapsExact
<1>9. OwnArguments BY DEF OwnArguments
<1> QED BY <1>1, <1>2, <1>5, <1>6, <1>7, <1>8, <1>9 DEF IInv

\* A job that the executor has is the op of its call, which its call owns.
LEMMA JobIsOwn ==
  ASSUME IInv, NEW k \in Calls, phase[k] \in {"accepted", "running", "ran"}
  PROVE  op[k] \in Ops /\ JobOf(k) = op[k] /\ Owns(k, op[k])
<1> USE DEF IInv, CallsExact
<1>1. pc[k] # "idle" /\ op[k] \in Ops OBVIOUS
<1>2. Owns(k, op[k]) BY DEF Owns
<1>3. JobOf(k) = op[k]
  <2>1. CASE trk[k] = NoCall BY <2>1 DEF JobOf
  <2>2. CASE trk[k] # NoCall
    <3>1. trk[k] \in Tracked /\ Wraps(k, trk[k]) BY <2>2 DEF Types, Wraps
    <3> QED BY <2>2, <3>1 DEF WrapsExact, JobOf
  <2> QED BY <2>1, <2>2
<1> QED BY <1>1, <1>2, <1>3

\* The caller that is to recycle its op still owns it when it is back.
LEMMA CallerOwns ==
  ASSUME IInv, NEW k \in Calls, pc[k] \in {"filled", "back"}, ~ByExecutor(fn[k])
  PROVE  op[k] \in Ops /\ Owns(k, op[k])
  BY DEF IInv, CallsExact, Owns

\* A step of one call does not make or unmake another an owner.
LEMMA OthersStay ==
  ASSUME Types, NEW k \in Calls, NEW j \in Calls, j # k,
         pc'[j] = pc[j], phase'[j] = phase[j], fn'[j] = fn[j], op'[j] = op[j],
         trk'[j] = trk[j]
  PROVE  /\ \A o \in Ops : Owns(j, o)' <=> Owns(j, o)
         /\ \A t \in Tracked : Wraps(j, t)' <=> Wraps(j, t)
  BY DEF Owns, Wraps, ByExecutor

\* A call takes an op nobody owns and sets its fields.
LEMMA BeginStep == ASSUME IInv, NEW k \in Calls, Begin(k) PROVE IInv'
<1> USE DEF IInv
<1>1. PICK f \in Functions, o \in Ops :
        /\ f.op = type /\ Get(o)
        /\ fn' = [fn EXCEPT ![k] = f]
        /\ op' = [op EXCEPT ![k] = o]
        /\ kind' = [kind EXCEPT ![o] = f.kind]
        /\ field' = [field EXCEPT ![o] = [x \in Fields |-> IF x \in f.sets THEN k ELSE @[x]]]
  BY DEF Begin
<1>2. /\ pc[k] = "idle" /\ pc' = [pc EXCEPT ![k] = "filled"]
      /\ UNCHANGED <<type, tjob, tpool, tfresh, trk, elapsed, phase, reply, mode, seen, outcome>>
  BY DEF Begin, Goto, trackVars, execVars
<1>3. /\ fresh' = fresh \ {o} /\ pool' = [pool EXCEPT ![o] = 0]
      /\ o \in fresh \/ pool[o] = 1
  BY <1>1 DEF Get, Types, OpsOwned
<1>4. \A j \in Calls : ~Owns(j, o) BY <1>3 DEF OpsOwned
<1>5. phase[k] = "new" /\ op[k] = NoCall /\ trk[k] = NoCall /\ outcome[k] = "none"
  BY <1>2 DEF CallsExact, Types
<1>6. Types'
  <2>1. field' \in [Ops -> [Fields -> Calls \cup {NoCall}]] BY <1>1 DEF Types
  <2> QED BY <1>1, <1>2, <1>3, <2>1 DEF Types
<1>7. CallsExact'
  BY <1>1, <1>2, <1>5 DEF CallsExact, Types, Phases, ByExecutor
<1>8. /\ \A j \in Calls, x \in Ops : Owns(j, x)' <=> Owns(j, x) \/ (j = k /\ x = o)
      /\ \A j \in Calls, t \in Tracked : Wraps(j, t)' <=> Wraps(j, t)
  <2> SUFFICES ASSUME NEW j \in Calls
               PROVE  /\ \A x \in Ops : Owns(j, x)' <=> Owns(j, x) \/ (j = k /\ x = o)
                      /\ \A t \in Tracked : Wraps(j, t)' <=> Wraps(j, t)
    OBVIOUS
  <2>1. CASE j # k BY <1>1, <1>2, <2>1, OthersStay DEF Types
  <2>2. CASE j = k
    BY <1>1, <1>2, <1>5, <2>2, DispatchAssumption DEF Owns, Wraps, Types, Phases
  <2> QED BY <2>1, <2>2
<1>9. OpsOwned'
  BY <1>3, <1>4, <1>8 DEF OpsOwned, Types
<1>10. TracksOwned' BY <1>2, <1>8 DEF TracksOwned
<1>11. FieldsExact'
  <2> SUFFICES ASSUME NEW j \in Calls, NEW x \in Ops, Owns(j, x)'
               PROVE  /\ kind'[x] = fn'[j].kind
                      /\ \A y \in fn'[j].sets : field'[x][y] = j
                      /\ \A y \in Reachable \ fn'[j].sets : field'[x][y] = NoCall
                      /\ type = "eventElapsedOp" /\ outcome[j] = "ok" => field'[x]["ms"] = j
    BY <1>2 DEF FieldsExact
  <2>1. CASE j = k
    <3>1. x = o BY <1>5, <1>8, <2>1, DispatchAssumption DEF Owns
    <3>2. PoolClean /\ \A y \in Reachable : field[o][y] = NoCall
      BY <1>3 DEF PoolClean
    <3>3. /\ \A y \in Fields : field'[o][y] = IF y \in f.sets THEN k ELSE field[o][y]
          /\ kind'[o] = f.kind /\ fn'[k] = f
      BY <1>1 DEF Types
    <3> QED BY <1>5, <2>1, <3>1, <3>2, <3>3, SetsFields, ReachableFields
  <2>2. CASE j # k
    <3>1. Owns(j, x) /\ x # o BY <1>4, <1>8, <2>2
    <3>2. kind'[x] = kind[x] /\ field'[x] = field[x] /\ fn'[j] = fn[j]
      BY <1>1, <2>2, <3>1 DEF Types
    <3> QED BY <3>1, <3>2 DEF FieldsExact
  <2> QED BY <2>1, <2>2
<1>12. PoolClean'
  <2> SUFFICES ASSUME NEW x \in Ops, x \in fresh' \/ pool'[x] = 1
               PROVE  x # o /\ (x \in fresh \/ pool[x] = 1)
    BY <1>1 DEF PoolClean, Types
  <2> QED BY <1>3 DEF Types
<1>13. WrapsExact'
  <2>1. \A j \in Calls, t \in Tracked : Wraps(j, t)' => op'[j] = op[j]
    BY <1>1, <1>2, <1>5, <1>8, DispatchAssumption DEF Wraps, Types
  <2> QED BY <1>2, <1>8, <2>1 DEF WrapsExact
<1>14. OwnArguments'
  <2>1. seen[k] = NotRun BY <1>5 DEF CallsExact
  <2> QED BY <1>1, <1>2, <2>1 DEF OwnArguments, Types
<1> QED BY <1>6, <1>7, <1>9, <1>10, <1>11, <1>12, <1>13, <1>14

\* A cancellable wait takes a wrapper nobody uses.
LEMMA TrackStep == ASSUME IInv, NEW k \in Calls, Track(k) PROVE IInv'
<1> USE DEF IInv
<1>1. PICK t \in Tracked :
        /\ \/ t \in tfresh /\ tfresh' = tfresh \ {t} /\ UNCHANGED tpool
           \/ tpool[t] > 0 /\ tpool' = [tpool EXCEPT ![t] = @ - 1] /\ UNCHANGED tfresh
        /\ trk' = [trk EXCEPT ![k] = t]
        /\ tjob' = [tjob EXCEPT ![t] = op[k]]
  BY DEF Track
<1>2. /\ pc[k] = "filled" /\ trk[k] = NoCall /\ phase[k] = "new" /\ Route(fn[k]) = "wait"
      /\ UNCHANGED <<type, field, kind, pool, fresh, fn, op, pc, elapsed, phase, reply,
                     mode, seen, outcome>>
  BY DEF Track, poolVars, execVars
<1>3. /\ tfresh' = tfresh \ {t} /\ tpool' = [tpool EXCEPT ![t] = 0]
      /\ t \in tfresh \/ tpool[t] = 1
  BY <1>1 DEF Types, TracksOwned
<1>4. \A j \in Calls : ~Wraps(j, t) BY <1>3 DEF TracksOwned
<1>5. op[k] \in Ops /\ ByExecutor(fn[k])
  BY <1>2, FunctionsTidy DEF CallsExact, Types, Tidy
<1>6. Types' BY <1>1, <1>2, <1>3, <1>5 DEF Types
<1>7. CallsExact' BY <1>1, <1>2, <1>5 DEF CallsExact, Types, ByExecutor
<1>8. /\ \A j \in Calls, x \in Ops : Owns(j, x)' <=> Owns(j, x)
      /\ \A j \in Calls, y \in Tracked : Wraps(j, y)' <=> Wraps(j, y) \/ (j = k /\ y = t)
  BY <1>1, <1>2, DispatchAssumption DEF Owns, Wraps, Types, ByExecutor
<1>9. OpsOwned' BY <1>2, <1>8 DEF OpsOwned
<1>10. TracksOwned' BY <1>3, <1>4, <1>8 DEF TracksOwned, Types
<1>11. FieldsExact' BY <1>2, <1>8 DEF FieldsExact
<1>12. PoolClean' BY <1>2 DEF PoolClean
<1>13. WrapsExact'
  <2>1. ASSUME NEW j \in Calls, NEW y \in Tracked, Wraps(j, y)' PROVE tjob'[y] = op'[j]
    <3>1. CASE y = t
      <4>1. j = k BY <1>4, <1>8, <2>1, <3>1
      <4> QED BY <1>1, <1>2, <3>1, <4>1 DEF Types
    <3>2. CASE y # t
      <4>1. Wraps(j, y) BY <1>8, <2>1, <3>2
      <4> QED BY <1>1, <1>2, <3>2, <4>1 DEF WrapsExact, Types
    <3> QED BY <3>1, <3>2
  <2>2. ASSUME NEW y \in Tracked, tpool'[y] = 1 PROVE tjob'[y] = NoCall
    BY <1>1, <1>3, <2>2 DEF WrapsExact, Types
  <2> QED BY <2>1, <2>2 DEF WrapsExact
<1>14. OwnArguments' BY <1>2 DEF OwnArguments
<1> QED BY <1>6, <1>7, <1>9, <1>10, <1>11, <1>12, <1>13, <1>14

\* RecycleJob, in the hands of the executor or on the way back: a syncOp
\* returns to its pool, with its wrapper if it has one; any other op stays
\* its caller's.
LEMMA Recycles ==
  ASSUME IInv, NEW k \in Calls, RecycleJob(k),
         NEW p, pc' = [pc EXCEPT ![k] = p],
         \/ pc[k] = "filled" /\ phase[k] = "new" /\ p = "back"
         \/ phase[k] = "ran" /\ p = pc[k],
         phase' = [phase EXCEPT ![k] = "released"],
         \A j \in Calls : j # k \/ pc'[j] = "done" => reply'[j] = reply[j],
         DOMAIN reply' = Calls,
         UNCHANGED <<type, field, kind, fresh, tfresh, fn, op, trk, elapsed, seen, outcome>>
  PROVE  IInv'
<1> USE DEF IInv
<1>1. op[k] \in Ops /\ Owns(k, op[k]) /\ p \notin {"idle", "filled"}
      /\ p \in {"wait", "back", "done"}
  BY DEF CallsExact, Owns, Types
<1>2. ASSUME trk[k] # NoCall
      PROVE  /\ trk[k] \in Tracked /\ Wraps(k, trk[k]) /\ tjob[trk[k]] = op[k]
             /\ ByExecutor(fn[k]) /\ tpool[trk[k]] = 0
  BY <1>2 DEF CallsExact, Wraps, Types, WrapsExact, TracksOwned
<1>3. pool[op[k]] = 0 /\ op[k] \notin fresh BY <1>1 DEF OpsOwned
<1>4. pool' = IF ByExecutor(fn[k]) THEN [pool EXCEPT ![op[k]] = 1] ELSE pool
  <2>1. pool[op[k]] + 1 = 1 BY <1>3
  <2> QED BY <1>1, <1>2, <2>1 DEF RecycleJob, RecycleTracked, Put
<1>5. /\ trk[k] = NoCall => tjob' = tjob /\ tpool' = tpool
      /\ trk[k] # NoCall => /\ tjob' = [tjob EXCEPT ![trk[k]] = NoCall]
                            /\ tpool' = [tpool EXCEPT ![trk[k]] = 1]
  <2>1. trk[k] # NoCall => tpool[trk[k]] + 1 = 1 BY <1>2
  <2> QED BY <1>2, <2>1 DEF RecycleJob, RecycleTracked
<1>6. Types'
  <2>1. pool' \in [Ops -> {0, 1}] BY <1>1, <1>4 DEF Types
  <2>2. tjob' \in [Tracked -> Ops \cup {NoCall}] /\ tpool' \in [Tracked -> {0, 1}]
    BY <1>2, <1>5 DEF Types
  <2>3. pc' \in [Calls -> {"idle", "filled", "wait", "back", "done"}]
        /\ phase' \in [Calls -> Phases]
    BY <1>1 DEF Types, Phases
  <2> QED BY <2>1, <2>2, <2>3 DEF Types
<1>7. CallsExact' BY <1>1 DEF CallsExact, Types, ByExecutor
<1>8. /\ \A j \in Calls, x \in Ops : j # k => (Owns(j, x)' <=> Owns(j, x))
      /\ \A j \in Calls, t \in Tracked : j # k => (Wraps(j, t)' <=> Wraps(j, t))
  BY OthersStay DEF Types
<1>9. \A x \in Ops : Owns(k, x)' <=> Owns(k, x) /\ ~ByExecutor(fn[k])
  BY <1>1 DEF Owns, Types, ByExecutor, CallsExact
<1>10. \A t \in Tracked : ~Wraps(k, t)' /\ (Wraps(k, t) <=> t = trk[k])
  BY <1>1, DispatchAssumption DEF Wraps, Types, CallsExact
<1>11. OpsOwned'
  <2> SUFFICES ASSUME NEW x \in Ops
               PROVE  /\ x \in fresh => pool'[x] = 0
                      /\ (\E j \in Calls : Owns(j, x)') <=> x \notin fresh /\ pool'[x] = 0
                      /\ \A i, j \in Calls : Owns(i, x)' /\ Owns(j, x)' => i = j
    BY DEF OpsOwned
  <2>1. CASE x = op[k] /\ ByExecutor(fn[k])
    <3>1. pool'[x] = 1 /\ x \notin fresh BY <1>1, <1>3, <1>4, <2>1 DEF Types
    <3>2. \A j \in Calls : ~Owns(j, x)'
      BY <1>1, <1>8, <1>9, <2>1 DEF OpsOwned
    <3> QED BY <3>1, <3>2
  <2>2. CASE ~(x = op[k] /\ ByExecutor(fn[k]))
    <3>1. pool'[x] = pool[x] BY <1>1, <1>4, <2>2 DEF Types
    <3>2. \A j \in Calls : Owns(j, x)' <=> Owns(j, x)
      BY <1>8, <1>9, <2>2 DEF Owns
    <3> QED BY <3>1, <3>2 DEF OpsOwned
  <2> QED BY <2>1, <2>2
<1>12. TracksOwned'
  <2> SUFFICES ASSUME NEW t \in Tracked
               PROVE  /\ t \in tfresh => tpool'[t] = 0
                      /\ (\E j \in Calls : Wraps(j, t)') <=> t \notin tfresh /\ tpool'[t] = 0
                      /\ \A i, j \in Calls : Wraps(i, t)' /\ Wraps(j, t)' => i = j
    BY DEF TracksOwned
  <2>1. CASE t = trk[k]
    <3>1. trk[k] # NoCall BY <2>1, DispatchAssumption
    <3>2. tpool'[t] = 1 /\ t \notin tfresh
      BY <1>2, <1>5, <2>1, <3>1 DEF Types, TracksOwned
    <3>3. \A j \in Calls : ~Wraps(j, t)'
      BY <1>2, <1>8, <1>10, <2>1, <3>1 DEF TracksOwned
    <3> QED BY <3>2, <3>3
  <2>2. CASE t # trk[k]
    <3>1. tpool'[t] = tpool[t] BY <1>5, <2>2 DEF Types
    <3>2. \A j \in Calls : Wraps(j, t)' <=> Wraps(j, t) BY <1>8, <1>10, <2>2
    <3> QED BY <3>1, <3>2 DEF TracksOwned
  <2> QED BY <2>1, <2>2
<1>13. FieldsExact' BY <1>8, <1>9 DEF FieldsExact
<1>14. PoolClean'
  <2> SUFFICES ASSUME NEW x \in Ops, x \in fresh \/ pool'[x] = 1, NEW y \in Reachable
               PROVE  field[x][y] = NoCall
    BY DEF PoolClean
  <2>1. CASE x = op[k] /\ ByExecutor(fn[k])
    <3>1. y \notin fn[k].sets BY <2>1, FunctionsTidy DEF Tidy, Types
    <3> QED BY <1>1, <2>1, <3>1 DEF FieldsExact
  <2>2. CASE ~(x = op[k] /\ ByExecutor(fn[k]))
    <3>1. pool'[x] = pool[x] BY <1>1, <1>4, <2>2 DEF Types
    <3> QED BY <3>1 DEF PoolClean
  <2> QED BY <2>1, <2>2
<1>15. WrapsExact'
  <2>1. ASSUME NEW j \in Calls, NEW t \in Tracked, Wraps(j, t)' PROVE tjob'[t] = op[j]
    <3>1. j # k /\ Wraps(j, t) BY <1>8, <1>10, <2>1
    <3>2. t # trk[k] BY <1>10, <3>1 DEF TracksOwned
    <3>3. tjob'[t] = tjob[t] BY <1>5, <3>2 DEF Types
    <3> QED BY <3>1, <3>3 DEF WrapsExact
  <2>2. ASSUME NEW t \in Tracked, tpool'[t] = 1 PROVE tjob'[t] = NoCall
    BY <1>5, <2>2 DEF WrapsExact, Types
  <2> QED BY <2>1, <2>2 DEF WrapsExact
<1>16. OwnArguments'
  <2>1. \A j \in Calls : pc'[j] = "done" => pc[j] = "done" BY <1>1 DEF Types
  <2> QED BY <2>1 DEF OwnArguments
<1> QED BY <1>6, <1>7, <1>11, <1>12, <1>13, <1>14, <1>15, <1>16

\* The op is turned away.
LEMMA RefuseStep == ASSUME IInv, NEW k \in Calls, Refuse(k) PROVE IInv'
<1>1. /\ pc[k] = "filled" /\ phase[k] = "new" /\ pc' = [pc EXCEPT ![k] = "back"]
      /\ RecycleJob(k) /\ phase' = [phase EXCEPT ![k] = "released"]
      /\ UNCHANGED <<type, field, kind, fresh, tfresh, fn, op, trk, elapsed, seen, outcome>>
  BY DEF Refuse, Goto
<1>2. PICK r : reply' = [reply EXCEPT ![k] = r] BY DEF Refuse
<1>3. DOMAIN reply' = Calls BY <1>2 DEF IInv, Types
<1>4. \A j \in Calls : j # k \/ pc'[j] = "done" => reply'[j] = reply[j]
  BY <1>1, <1>2 DEF IInv, Types
<1> QED BY <1>1, <1>3, <1>4, Recycles

\* The worker recycles the job it has run.
LEMMA ReleaseStep == ASSUME IInv, NEW k \in Calls, Release(k) PROVE IInv'
<1>1. /\ phase[k] = "ran" /\ RecycleJob(k) /\ phase' = [phase EXCEPT ![k] = "released"]
      /\ UNCHANGED <<type, field, kind, fresh, tfresh, fn, op, trk, pc, elapsed, reply,
                     seen, outcome>>
  BY DEF Release, callVars
<1>2. pc' = [pc EXCEPT ![k] = pc[k]] BY <1>1 DEF IInv, Types
<1>3. DOMAIN reply' = Calls BY <1>1 DEF IInv, Types
<1> QED BY <1>1, <1>2, <1>3, Recycles

\* A step that leaves every op and wrapper with its owner, and the fields as
\* they are.
LEMMA OwnersStay ==
  ASSUME IInv, Types', CallsExact', OwnArguments',
         \A j \in Calls, x \in Ops : Owns(j, x)' <=> Owns(j, x),
         \A j \in Calls, t \in Tracked : Wraps(j, t)' <=> Wraps(j, t),
         \A j \in Calls : outcome'[j] = "ok" => outcome[j] = "ok",
         UNCHANGED <<type, field, kind, pool, fresh, tjob, tpool, tfresh, fn, op>>
  PROVE  IInv'
<1>1. OpsOwned' BY DEF IInv, OpsOwned
<1>2. TracksOwned' BY DEF IInv, TracksOwned
<1>3. FieldsExact' BY DEF IInv, FieldsExact
<1>4. PoolClean' /\ WrapsExact' BY DEF IInv, PoolClean, WrapsExact
<1> QED BY <1>1, <1>2, <1>3, <1>4 DEF IInv

\* The executor takes the job; its op is still that of the call.
LEMMA AcceptStep == ASSUME IInv, NEW k \in Calls, Accept(k) PROVE IInv'
<1> USE DEF IInv
<1>1. /\ pc[k] = "filled" /\ phase[k] = "new" /\ pc' = [pc EXCEPT ![k] = "wait"]
      /\ phase' = [phase EXCEPT ![k] = "accepted"]
      /\ UNCHANGED <<type, field, kind, pool, fresh, tjob, tpool, tfresh, fn, op, trk,
                     elapsed, reply, mode, seen, outcome>>
  BY DEF Accept, Goto, poolVars, trackVars
<1>2. Types' BY <1>1 DEF Types, Phases
<1>3. CallsExact' BY <1>1 DEF CallsExact, Types, ByExecutor
<1>4. \A j \in Calls, x \in Ops : Owns(j, x)' <=> Owns(j, x)
  BY <1>1 DEF Owns, Types, ByExecutor
<1>5. \A j \in Calls, t \in Tracked : Wraps(j, t)' <=> Wraps(j, t)
  BY <1>1 DEF Wraps, Types
<1>6. OwnArguments' BY <1>1 DEF OwnArguments, Types
<1> QED BY <1>1, <1>2, <1>3, <1>4, <1>5, <1>6, OwnersStay

\* The driver is called with what the kind reads, all of it the call's own.
LEMMA StartStep == ASSUME IInv, NEW k \in Calls, Start(k) PROVE IInv'
<1> USE DEF IInv
<1>1. /\ phase[k] = "accepted" /\ phase' = [phase EXCEPT ![k] = "running"]
      /\ UNCHANGED <<type, field, kind, pool, fresh, tjob, tpool, tfresh, fn, op, trk, pc,
                     elapsed, reply, mode, outcome>>
  BY DEF Start, poolVars, trackVars, callVars
<1>2. op[k] \in Ops /\ JobOf(k) = op[k] /\ Owns(k, op[k]) BY <1>1, JobIsOwn
<1>3. seen' = [seen EXCEPT ![k] = [calls |-> fn[k].asks, from |-> {k}]]
  <2>1. kind[op[k]] = fn[k].kind /\ \A x \in fn[k].sets : field[op[k]][x] = k
    BY <1>2 DEF FieldsExact
  <2>2. fn[k] \in Functions /\ fn[k].op = type BY <1>1 DEF Types, CallsExact
  <2>3. PICK run : run = Run(type, kind[op[k]]) OBVIOUS
  <2>4. /\ run.calls = fn[k].asks /\ "driver" \in run.reads
        /\ run.reads \subseteq fn[k].sets
    BY <2>1, <2>2, <2>3, FunctionsCover DEF Covers
  <2>5. {field[op[k]][x] : x \in run.reads} = {k} BY <2>1, <2>4
  <2>6. seen' = [seen EXCEPT ![k] = [calls |-> run.calls,
                                     from |-> {field[op[k]][x] : x \in run.reads}]]
    BY <1>2, <2>3 DEF Start
  <2> QED BY <2>4, <2>5, <2>6
<1>4. Types' BY <1>1, <1>3 DEF Types, Phases
<1>5. CallsExact' BY <1>1, <1>3 DEF CallsExact, Types, ByExecutor
<1>6. \A j \in Calls, x \in Ops : Owns(j, x)' <=> Owns(j, x)
  BY <1>1 DEF Owns, Types, ByExecutor, CallsExact
<1>7. \A j \in Calls, t \in Tracked : Wraps(j, t)' <=> Wraps(j, t)
  BY <1>1 DEF Wraps, Types
<1>8. OwnArguments' BY <1>1, <1>3 DEF OwnArguments, Types
<1> QED BY <1>1, <1>4, <1>5, <1>6, <1>7, <1>8, OwnersStay

\* The driver call returns and may leave the milliseconds in the op.
LEMMA FinishStep == ASSUME IInv, NEW k \in Calls, Finish(k) PROVE IInv'
<1> USE DEF IInv
<1>1. PICK r \in {"ok", "error"} :
        /\ outcome' = [outcome EXCEPT ![k] = r]
        /\ field' = IF type = "eventElapsedOp"
                    THEN [field EXCEPT ![JobOf(k)]["ms"] = IF r = "ok" THEN k ELSE NoCall]
                    ELSE field
  BY DEF Finish
<1>2. /\ phase[k] = "running" /\ phase' = [phase EXCEPT ![k] = "ran"]
      /\ UNCHANGED <<type, kind, pool, fresh, tjob, tpool, tfresh, fn, op, trk, pc, elapsed,
                     reply, mode, seen>>
  BY DEF Finish, trackVars, callVars
<1>3. op[k] \in Ops /\ JobOf(k) = op[k] /\ Owns(k, op[k]) BY <1>2, JobIsOwn
<1>4. "ms" \in Fields /\ "ms" \notin Reachable
  <2>1. "ms" \in Fields BY DEF Fields
  <2>2. "ms" \notin Reachable BY DEF Reachable
  <2> QED BY <2>1, <2>2
<1>5. field' \in [Ops -> [Fields -> Calls \cup {NoCall}]] BY <1>1, <1>3, <1>4 DEF Types
<1>6. /\ \A x \in Ops : x # op[k] => field'[x] = field[x]
      /\ \A y \in Fields : y # "ms" => field'[op[k]][y] = field[op[k]][y]
      /\ type = "eventElapsedOp" => field'[op[k]]["ms"] = IF r = "ok" THEN k ELSE NoCall
  BY <1>1, <1>3, <1>4 DEF Types
<1>7. Types' BY <1>1, <1>2, <1>5 DEF Types, Phases
<1>8. CallsExact' BY <1>1, <1>2 DEF CallsExact, Types, ByExecutor
<1>9. \A j \in Calls, x \in Ops : Owns(j, x)' <=> Owns(j, x)
  BY <1>2 DEF Owns, Types, ByExecutor, CallsExact
<1>10. \A j \in Calls, t \in Tracked : Wraps(j, t)' <=> Wraps(j, t)
  BY <1>2 DEF Wraps, Types
<1>11. OpsOwned' /\ TracksOwned'
  <2>1. OpsOwned' BY <1>2, <1>9 DEF OpsOwned
  <2>2. TracksOwned' BY <1>2, <1>10 DEF TracksOwned
  <2> QED BY <2>1, <2>2
<1>12. FieldsExact'
  <2> SUFFICES ASSUME NEW j \in Calls, NEW x \in Ops, Owns(j, x)
               PROVE  /\ kind[x] = fn[j].kind
                      /\ \A y \in fn[j].sets : field'[x][y] = j
                      /\ \A y \in Reachable \ fn[j].sets : field'[x][y] = NoCall
                      /\ type = "eventElapsedOp" /\ outcome'[j] = "ok" => field'[x]["ms"] = j
    BY <1>2, <1>9 DEF FieldsExact
  <2>1. CASE x = op[k]
    <3>1. j = k BY <1>3, <2>1 DEF OpsOwned
    <3>2. \A y \in fn[k].sets : y \in Fields /\ y # "ms"
      BY FunctionsTidy, SetsFields DEF Types, Tidy
    <3>3. outcome'[k] = r BY <1>1 DEF Types
    <3> QED BY <1>3, <1>4, <1>6, <2>1, <3>1, <3>2, <3>3, ReachableFields DEF FieldsExact
  <2>2. CASE x # op[k]
    <3>1. j # k BY <1>3, <2>2 DEF Owns
    <3>2. outcome'[j] = outcome[j] BY <1>1, <3>1 DEF Types
    <3> QED BY <1>6, <2>2, <3>2 DEF FieldsExact
  <2> QED BY <2>1, <2>2
<1>13. PoolClean'
  <2>1. op[k] \notin fresh /\ pool[op[k]] # 1 BY <1>3 DEF OpsOwned
  <2> QED BY <1>2, <1>6, <2>1 DEF PoolClean
<1>14. WrapsExact' BY <1>2, <1>10 DEF WrapsExact
<1>15. OwnArguments'
  <2> SUFFICES ASSUME NEW j \in Calls
               PROVE  /\ seen[j] # NotRun => seen[j] = [calls |-> fn[j].asks, from |-> {j}]
                      /\ pc[j] = "done" /\ outcome'[j] = "ok" /\ reply[j] = "result"
                           => elapsed[j] = IF type = "eventElapsedOp" THEN j ELSE NoCall
    BY <1>2 DEF OwnArguments
  <2>1. CASE j # k BY <1>1, <2>1 DEF OwnArguments, Types
  <2>2. CASE j = k /\ reply[k] # "result" BY <2>2 DEF OwnArguments
  <2>3. CASE j = k /\ reply[k] = "result"
    <3>1. pc[k] # "done" BY <1>2, <2>3 DEF CallsExact
    <3> QED BY <2>3, <3>1 DEF OwnArguments
  <2> QED BY <2>1, <2>2, <2>3
<1> QED BY <1>7, <1>8, <1>11, <1>12, <1>13, <1>14, <1>15

\* The caller comes back, with the answer or because it gave up waiting.
LEMMA BackStep == ASSUME IInv, NEW k \in Calls, Answered(k) \/ Abandon(k) PROVE IInv'
<1> USE DEF IInv
<1>1. /\ pc[k] = "wait" /\ pc' = [pc EXCEPT ![k] = "back"]
      /\ phase[k] = "released" \/ Route(fn[k]) = "wait"
      /\ UNCHANGED <<type, field, kind, pool, fresh, tjob, tpool, tfresh, fn, op, trk,
                     elapsed, phase, mode, seen, outcome>>
  BY DEF Answered, Abandon, Goto, poolVars, trackVars
<1>2. PICK r \in {"result", "ctx"} : /\ reply' = [reply EXCEPT ![k] = r]
                                     /\ r = "result" => phase[k] = "released"
  BY DEF Answered, Abandon
<1>3. phase[k] = "released" \/ ByExecutor(fn[k])
  BY <1>1, FunctionsTidy DEF Tidy, Types
<1>4. Types' BY <1>1, <1>2 DEF Types
<1>5. CallsExact' BY <1>1, <1>2, <1>3 DEF CallsExact, Types, ByExecutor
<1>6. \A j \in Calls, x \in Ops : Owns(j, x)' <=> Owns(j, x)
  BY <1>1, <1>3 DEF Owns, Types, ByExecutor, CallsExact
<1>7. \A j \in Calls, t \in Tracked : Wraps(j, t)' <=> Wraps(j, t)
  BY <1>1 DEF Wraps, Types, CallsExact
<1>8. OwnArguments' BY <1>1, <1>2 DEF OwnArguments, Types
<1> QED BY <1>1, <1>4, <1>5, <1>6, <1>7, <1>8, OwnersStay

\* The caller reads the result and recycles what is its to recycle.
LEMMA ReturnStep == ASSUME IInv, NEW k \in Calls, Return(k) PROVE IInv'
<1> USE DEF IInv
<1>1. /\ pc[k] = "back" /\ pc' = [pc EXCEPT ![k] = "done"]
      /\ UNCHANGED <<type, kind, fresh, tjob, tpool, tfresh, fn, op, trk, phase, reply, mode,
                     seen, outcome>>
  BY DEF Return, Goto, trackVars, execVars
<1>2. elapsed' = [elapsed EXCEPT ![k] =
        IF type = "eventElapsedOp" /\ reply[k] = "result" /\ outcome[k] = "ok"
        THEN field[op[k]]["ms"] ELSE NoCall]
  BY DEF Return
<1>3. op[k] \in Ops /\ fn[k] \in Functions /\ fn[k].op = type /\ phase[k] # "new"
  BY <1>1 DEF CallsExact, Types
<1>4. CallsExact' BY <1>1 DEF CallsExact, Types, ByExecutor
<1>5. \A j \in Calls, t \in Tracked : Wraps(j, t)' <=> Wraps(j, t)
  BY <1>1, <1>3 DEF Wraps, Types
<1>6. OwnArguments'
  <2> SUFFICES ASSUME NEW j \in Calls
               PROVE  /\ seen[j] # NotRun => seen[j] = [calls |-> fn[j].asks, from |-> {j}]
                      /\ pc'[j] = "done" /\ outcome[j] = "ok" /\ reply[j] = "result"
                           => elapsed'[j] = IF type = "eventElapsedOp" THEN j ELSE NoCall
    BY <1>1 DEF OwnArguments
  <2>1. CASE j # k BY <1>1, <1>2, <2>1 DEF OwnArguments, Types
  <2>2. CASE j = k
    <3>1. ASSUME type = "eventElapsedOp", outcome[k] = "ok" PROVE field[op[k]]["ms"] = k
      <4>1. ~ByExecutor(fn[k]) BY <1>3, <3>1 DEF ByExecutor
      <4>2. Owns(k, op[k]) BY <1>1, <4>1, CallerOwns
      <4> QED BY <1>3, <3>1, <4>2 DEF FieldsExact
    <3> QED BY <1>2, <2>2, <3>1 DEF OwnArguments, Types
  <2> QED BY <2>1, <2>2
<1>7. CASE ByExecutor(fn[k])
  <2>1. field' = field /\ pool' = pool BY <1>7 DEF Return
  <2>2. Types' BY <1>1, <1>2, <2>1 DEF Types
  <2>3. \A j \in Calls, x \in Ops : Owns(j, x)' <=> Owns(j, x)
    BY <1>1, <1>3, <1>7 DEF Owns, Types, ByExecutor
  <2> QED BY <1>1, <1>4, <1>5, <1>6, <2>1, <2>2, <2>3, OwnersStay
<1>8. CASE ~ByExecutor(fn[k])
  <2>1. Owns(k, op[k]) BY <1>1, <1>8, CallerOwns
  <2>2. pool[op[k]] = 0 /\ op[k] \notin fresh BY <1>3, <2>1 DEF OpsOwned
  <2>3. /\ field' = [field EXCEPT ![op[k]] =
                       [x \in Fields |-> IF x \in Cleared(fn[k]) THEN NoCall ELSE @[x]]]
        /\ pool' = [pool EXCEPT ![op[k]] = 1]
    <3>1. pool[op[k]] + 1 = 1 BY <2>2
    <3> QED BY <1>3, <1>8, <3>1 DEF Return, Put
  <2>4. Types'
    <3>1. field' \in [Ops -> [Fields -> Calls \cup {NoCall}]] BY <1>3, <2>3 DEF Types
    <3>2. pool' \in [Ops -> {0, 1}] BY <1>3, <2>3 DEF Types
    <3> QED BY <1>1, <1>2, <3>1, <3>2 DEF Types
  <2>5. \A j \in Calls, x \in Ops : j # k => (Owns(j, x)' <=> Owns(j, x))
    BY <1>1, OthersStay DEF Types
  <2>6. \A x \in Ops : ~Owns(k, x)' BY <1>1, <1>8 DEF Owns, Types, ByExecutor
  <2>7. \A j \in Calls : Owns(j, op[k]) => j = k BY <1>3, <2>1 DEF OpsOwned
  <2>8. OpsOwned'
    <3> SUFFICES ASSUME NEW x \in Ops
                 PROVE  /\ x \in fresh => pool'[x] = 0
                        /\ (\E j \in Calls : Owns(j, x)') <=> x \notin fresh /\ pool'[x] = 0
                        /\ \A i, j \in Calls : Owns(i, x)' /\ Owns(j, x)' => i = j
      BY <1>1 DEF OpsOwned
    <3>1. CASE x = op[k]
      <4>1. pool'[x] = 1 BY <1>3, <2>3, <3>1 DEF Types
      <4> QED BY <2>2, <2>5, <2>6, <2>7, <3>1, <4>1
    <3>2. CASE x # op[k]
      <4>1. pool'[x] = pool[x] BY <2>3, <3>2 DEF Types
      <4>2. \A j \in Calls : Owns(j, x)' <=> Owns(j, x)
        BY <2>5, <2>6, <3>2 DEF Owns
      <4> QED BY <4>1, <4>2 DEF OpsOwned
    <3> QED BY <3>1, <3>2
  <2>9. TracksOwned' BY <1>1, <1>5 DEF TracksOwned
  <2>10. \A x \in Ops : x # op[k] => field'[x] = field[x] /\ pool'[x] = pool[x]
    BY <2>3 DEF Types
  <2>11. FieldsExact'
    <3> SUFFICES ASSUME NEW j \in Calls, NEW x \in Ops, Owns(j, x)'
                 PROVE  Owns(j, x) /\ field'[x] = field[x]
      BY <1>1 DEF FieldsExact
    <3> QED BY <2>5, <2>6, <2>7, <2>10
  <2>12. PoolClean'
    <3> SUFFICES ASSUME NEW x \in Ops, x \in fresh \/ pool'[x] = 1, NEW y \in Reachable
                 PROVE  field'[x][y] = NoCall
      BY <1>1 DEF PoolClean
    <3>1. CASE x = op[k]
      <4>1. field'[x][y] = IF y \in Cleared(fn[k]) THEN NoCall ELSE field[x][y]
        BY <1>3, <2>3, <3>1, ReachableFields DEF Types
      <4>2. y \in fn[k].sets => y \in Cleared(fn[k])
        BY <1>3, <1>8, FunctionsTidy DEF Tidy
      <4>3. y \notin fn[k].sets => field[x][y] = NoCall
        BY <2>1, <3>1 DEF FieldsExact
      <4> QED BY <4>1, <4>2, <4>3
    <3>2. CASE x # op[k] BY <2>10, <3>2 DEF PoolClean
    <3> QED BY <3>1, <3>2
  <2>13. WrapsExact' BY <1>1, <1>5 DEF WrapsExact
  <2> QED BY <1>4, <1>6, <2>4, <2>8, <2>9, <2>11, <2>12, <2>13
<1> QED BY <1>7, <1>8

\* A step that changes no op, wrapper or call.
LEMMA NothingMoves ==
  ASSUME IInv, UNCHANGED <<type, poolVars, trackVars, callVars, phase, reply, seen, outcome>>
  PROVE  IInv'
<1> USE DEF IInv, poolVars, trackVars, callVars
<1>1. Types' BY DEF Types
<1>2. CallsExact' BY DEF CallsExact, ByExecutor
<1>3. \A j \in Calls, x \in Ops : Owns(j, x)' <=> Owns(j, x) BY DEF Owns, ByExecutor
<1>4. \A j \in Calls, t \in Tracked : Wraps(j, t)' <=> Wraps(j, t) BY DEF Wraps
<1>5. OwnArguments' BY DEF OwnArguments
<1> QED BY <1>1, <1>2, <1>3, <1>4, <1>5, OwnersStay

----------------------------------------------------------------------------
\* Every step keeps the invariant.
LEMMA NextInv == IInv /\ [Next]_vars => IInv'
<1> SUFFICES ASSUME IInv, [Next]_vars PROVE IInv'
  OBVIOUS
<1>1. CASE UNCHANGED vars BY <1>1, NothingMoves DEF vars, execVars
<1>2. CASE Shut BY <1>2, NothingMoves DEF Shut
<1>3. ASSUME NEW k \in Calls,
             \/ Begin(k) \/ Track(k) \/ Refuse(k) \/ Accept(k) \/ Start(k)
             \/ Finish(k) \/ Release(k) \/ Answered(k) \/ Abandon(k) \/ Return(k)
      PROVE  IInv'
  BY <1>3, BeginStep, TrackStep, RefuseStep, AcceptStep, StartStep, FinishStep,
     ReleaseStep, BackStep, ReturnStep
<1> QED BY <1>1, <1>2, <1>3 DEF Next

\* The invariant holds throughout.
THEOREM OpsAreOwned == Spec => []IInv
  BY InitInv, NextInv, PTL DEF Spec

\* Every driver call is made with its own method's entry point and arguments,
\* and eventElapsed returns its own milliseconds.
THEOREM ArgumentsAreOwn == Spec => []OwnArguments
<1>1. IInv => OwnArguments BY DEF IInv
<1> QED BY <1>1, OpsAreOwned, PTL

\* No op is put back twice or handed out while it is in use, and a pooled op
\* keeps nobody's memory reachable.
THEOREM OneOwnerEach == Spec => []OneOwner
<1>1. IInv => OneOwner
  <2> SUFFICES ASSUME IInv PROVE OneOwner
    OBVIOUS
  <2> USE DEF IInv
  <2>1. ASSUME NEW o \in Ops \ fresh
        PROVE  pool[o] + Cardinality({k \in Calls : Owns(k, o)}) = 1
    <3>1. CASE pool[o] = 0
      <4>1. PICK j \in Calls : Owns(j, o) BY <2>1, <3>1 DEF OpsOwned
      <4>2. {k \in Calls : Owns(k, o)} = {j} BY <2>1, <4>1 DEF OpsOwned
      <4>3. Cardinality({k \in Calls : Owns(k, o)}) = 1 BY <4>2, FS_Singleton
      <4> QED BY <3>1, <4>3
    <3>2. CASE pool[o] = 1
      <4>1. {k \in Calls : Owns(k, o)} = {} BY <2>1, <3>2 DEF OpsOwned
      <4>2. Cardinality({k \in Calls : Owns(k, o)}) = 0 BY <4>1, FS_EmptySet
      <4> QED BY <3>2, <4>2
    <3> QED BY <2>1, <3>1, <3>2 DEF Types
  <2>2. ASSUME NEW t \in Tracked \ tfresh
        PROVE  tpool[t] + Cardinality({k \in Calls : Wraps(k, t)}) = 1
    <3>1. CASE tpool[t] = 0
      <4>1. PICK j \in Calls : Wraps(j, t) BY <2>2, <3>1 DEF TracksOwned
      <4>2. {k \in Calls : Wraps(k, t)} = {j} BY <2>2, <4>1 DEF TracksOwned
      <4>3. Cardinality({k \in Calls : Wraps(k, t)}) = 1 BY <4>2, FS_Singleton
      <4> QED BY <3>1, <4>3
    <3>2. CASE tpool[t] = 1
      <4>1. {k \in Calls : Wraps(k, t)} = {} BY <2>2, <3>2 DEF TracksOwned
      <4>2. Cardinality({k \in Calls : Wraps(k, t)}) = 0 BY <4>1, FS_EmptySet
      <4> QED BY <3>2, <4>2
    <3> QED BY <2>2, <3>1, <3>2 DEF Types
  <2>3. \A k \in Calls : phase[k] \in {"accepted", "running"} => Owns(k, JobOf(k))
    BY JobIsOwn
  <2>4. \A o \in Ops : pool[o] > 0 => \A x \in Reachable : field[o][x] = NoCall
    BY DEF PoolClean, Types
  <2>5. \A t \in Tracked : tpool[t] > 0 => tjob[t] = NoCall BY DEF WrapsExact, Types
  <2> QED BY <2>1, <2>2, <2>3, <2>4, <2>5 DEF OneOwner, Reachable
<1> QED BY <1>1, OpsAreOwned, PTL
=============================================================================
