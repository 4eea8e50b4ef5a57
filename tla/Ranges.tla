------------------------------- MODULE Ranges -------------------------------
(***************************************************************************)
(* The arithmetic of cuda: byte sizes, rounding, launch shapes, offsets    *)
(* and nested views, in the machine's integers.                            *)
(*                                                                         *)
(* A Go int is signed, a uint64 or CUdeviceptr unsigned; both have the     *)
(* same width and wrap; a uint32 is narrower.  The code mentions the       *)
(* widths only through math.MaxInt, MaxUint64 and MaxUint32, and nothing   *)
(* depends on their being powers of two less one, so the first and the     *)
(* last are constants.  A narrow word meets every wrap a wide one does.    *)
(* One element type T is in use at a time, of size es.  A device pointer   *)
(* is an allocation and a distance from its start, modulo the word.        *)
(***************************************************************************)
EXTENDS Integers

CONSTANTS MaxInt,     \* math.MaxInt
          MaxUint32,  \* math.MaxUint32
          ElemSizes,  \* unsafe.Sizeof of the Supported types
          Objects     \* the allocations and globals a behaviour can have

ASSUME RangesAssumption == /\ MaxInt \in Nat \ {0} /\ MaxUint32 \in 1 .. MaxInt
                           /\ ElemSizes \subseteq {1, 2, 4, 8}

Word == 2 * (MaxInt + 1)
MaxUint64 == Word - 1
GoInt == -MaxInt - 1 .. MaxInt

\* Conversion to and arithmetic in uint64, arithmetic in int.
U(x) == x % Word
I(x) == ((x + MaxInt + 1) % Word) - (MaxInt + 1)

----------------------------------------------------------------------------
(* The helpers, as functions of the element size.                          *)

\* The check in front of every allocation of n elements.
SizeOK(n, size) == n > 0 /\ U(n) <= MaxUint64 \div size
Bytes(n, size) == U(U(n) * size)

\* The padding may pass the top of the range.
BugRoundUp(v, mult) == [size |-> U(v + ((mult - (v % mult)) % mult)), ok |-> TRUE]

roundUp(v, mult) ==
  LET r == v % mult
      pad == mult - r
  IN  IF r = 0 THEN [size |-> v, ok |-> TRUE]
      ELSE IF pad > MaxUint64 - v THEN [size |-> 0, ok |-> FALSE]
      ELSE [size |-> U(v + pad), ok |-> TRUE]

\* GridX and BlockX; <<0, 0>> is the empty config, which valid rejects.
LaunchConfig1D(n, blockSize) ==
  LET grid == U(U(n) + U(blockSize) - 1) \div U(blockSize)
  IN  IF n <= 0 \/ blockSize <= 0 \/ U(blockSize) > MaxUint32 THEN <<0, 0>>
      ELSE IF grid = 0 \/ grid > MaxUint32 THEN <<0, 0>>
      ELSE <<grid, blockSize>>
valid(cfg) == cfg[1] > 0 /\ cfg[2] > 0

PitchedOK(w, h, size) == w > 0 /\ h > 0 /\ U(w) <= MaxUint64 \div size

VolumeOK(w, h, d, size) ==
  /\ w > 0 /\ h > 0 /\ d > 0
  /\ U(w) <= MaxUint64 \div size
  /\ w <= MaxInt \div h /\ I(w * h) <= MaxInt \div d
  /\ Bytes(w, size) <= MaxUint64 \div U(U(h) * U(d))

ArrayOK(w, h, size) == w > 0 /\ h > 0 /\ w <= MaxInt \div h /\ size # 8

\* elements(): -1 is ErrInvalidLength.  A pitched buffer has depth 1.
elements(w, h, d) ==
  IF w > MaxInt \div h \/ I(w * h) > MaxInt \div d THEN -1 ELSE I(I(w * h) * d)

\* n elements from off lie in a window of length elements.
InRange(off, n, length) == off >= 0 /\ n > 0 /\ off <= I(length - n)

----------------------------------------------------------------------------
VARIABLES es,    \* the size of the element type
          obj,   \* obj[b]: an allocation, or a module's global
          view,  \* a View: its owner, offset and length
          req    \* the driver request being made

vars == <<es, obj, view, req>>

NoObj == [kind |-> "none", size |-> 0, length |-> 0, shape |-> <<0, 0, 0>>, pitch |-> 0]
NoView == [length |-> 0]

\* The bytes from .. from + n of b that the driver reads or writes.
Touch(b, from, n) == [of |-> b, from |-> from, n |-> n]

\* What a request asks the driver to allocate, touches on the device, and
\* reads or writes of a host slice of `slice` bytes.
NoReq == [fn |-> "none", ask |-> 0, dev |-> {}, host |-> 0, slice |-> 0]
DeviceReq(fn, dev) == [NoReq EXCEPT !.fn = fn, !.dev = dev]
HostReq(fn, t, host, slice) == [DeviceReq(fn, {t}) EXCEPT !.host = host, !.slice = slice]

\* A slice of n elements exists only if its bytes can be counted in an int.
HostLens == {n \in 0..MaxInt : n * es <= MaxInt}

Is(b, kinds) == obj[b].kind \in kinds

Init == /\ es \in ElemSizes
        /\ obj = [b \in Objects |-> NoObj]
        /\ view = NoView /\ req = NoReq

\* Room for an allocation of a kind: a behaviour uses one kind at a time, as no
\* method takes two.
Room(b, kind) == Is(b, {"none"}) /\ \A c \in Objects : Is(c, {"none", "closed", kind})

\* The driver refuses a request or gives what was asked, all of it.
Obtain(b, fn, ask, made) ==
  /\ req' = [NoReq EXCEPT !.fn = fn, !.ask = ask]
  /\ \/ UNCHANGED obj
     \/ made.size <= MaxUint64 /\ obj' = [obj EXCEPT ![b] = made]
  /\ UNCHANGED <<es, view>>

\* Alloc, AllocAsync, AllocFromPool.
Alloc(b) ==
  Room(b, "linear") /\ \E n \in GoInt :
    /\ SizeOK(n, es)
    /\ Obtain(b, "Alloc", Bytes(n, es),
              [NoObj EXCEPT !.kind = "linear", !.length = n, !.size = Bytes(n, es)])

\* The granularity is the driver's.
AllocVirtual(b) ==
  Room(b, "virtual") /\ \E n \in GoInt, gran \in 0..MaxUint64 :
    /\ SizeOK(n, es) /\ gran # 0
    /\ LET size == roundUp(Bytes(n, es), gran)
       IN  /\ size.ok
           /\ Obtain(b, "AllocVirtual", size.size,
                     [NoObj EXCEPT !.kind = "virtual", !.length = n, !.size = size.size])

\* cuMemAllocPitch chooses a pitch no smaller than the row.
AllocPitched(b) ==
  Room(b, "pitched") /\ \E w \in GoInt, h \in GoInt, pad \in {0, 1} :
    /\ PitchedOK(w, h, es)
    /\ LET pitch == Bytes(w, es) + pad
       IN  Obtain(b, "AllocPitched", Bytes(w, es) * U(h),
                  [NoObj EXCEPT !.kind = "pitched", !.shape = <<w, h, 1>>,
                                !.pitch = pitch, !.size = pitch * h])

AllocVolume(b) ==
  Room(b, "volume") /\ \E w \in GoInt, h \in GoInt, d \in GoInt, pad \in {0, 1} :
    /\ VolumeOK(w, h, d, es)
    /\ LET pitch == Bytes(w, es) + pad
           rows == U(U(h) * U(d))
       IN  Obtain(b, "AllocVolume", Bytes(w, es) * rows,
                  [NoObj EXCEPT !.kind = "volume", !.shape = <<w, h, d>>,
                                !.pitch = pitch, !.size = pitch * rows])

AllocArray2D(b) ==
  Room(b, "array") /\ \E w \in GoInt, h \in GoInt :
    /\ ArrayOK(w, h, es)
    /\ Obtain(b, "AllocArray2D", w * h * es,
              [NoObj EXCEPT !.kind = "array", !.shape = <<w, h, 1>>,
                            !.pitch = w * es, !.size = w * h * es])

\* Module.Global: the module decides how large it is.
Global(b) ==
  Room(b, "global") /\ \E n \in 1..MaxUint64 :
    Obtain(b, "Global", 0, [NoObj EXCEPT !.kind = "global", !.size = n])

\* Close and FreeAsync; a view keeps naming its owner.
Close(b) == /\ ~Is(b, {"none", "global", "closed"})
            /\ obj' = [obj EXCEPT ![b] = [NoObj EXCEPT !.kind = "closed"]]
            /\ UNCHANGED <<es, view, req>>

Request(r) == req' = r /\ UNCHANGED <<es, obj, view>>

\* The device pointer at element off.
offsetPtr(off) == U(U(off) * es)

\* CopyFrom, CopyTo and the pinned copies: the slice is as long as the buffer.
CopyWhole(b) ==
  /\ Is(b, {"linear", "virtual"}) /\ obj[b].length \in HostLens
  /\ LET bytes == Bytes(obj[b].length, es)
     IN  Request(HostReq("Copy", Touch(b, 0, bytes), bytes, obj[b].length * es))

\* Zero sets bytes, Fill elements of the memset's width.
Memset(b) ==
  /\ Is(b, {"linear"})
  /\ \/ Request(DeviceReq("Zero", {Touch(b, 0, Bytes(obj[b].length, es))}))
     \/ es # 8 /\ Request(DeviceReq("Fill", {Touch(b, 0, U(obj[b].length) * es)}))

CopyToDevice(b, dst) ==
  /\ Is(b, {"linear"}) /\ Is(dst, {"linear"})
  /\ obj[dst].length = obj[b].length
  /\ LET bytes == Bytes(obj[b].length, es)
     IN  Request(DeviceReq("CopyToDevice", {Touch(b, 0, bytes), Touch(dst, 0, bytes)}))

\* CopyFromAt and CopyToAt of a slice of n elements.
CopyHostAt(b, off, n) ==
  /\ Is(b, {"linear"}) /\ n \in HostLens
  /\ InRange(off, n, obj[b].length)
  /\ LET bytes == Bytes(n, es)
     IN  Request(HostReq("CopyAt", Touch(b, offsetPtr(off), bytes), bytes, n * es))

\* Also the asynchronous form.
CopyToDeviceAt(b, dst) ==
  /\ Is(b, {"linear"}) /\ Is(dst, {"linear"})
  /\ \E n \in GoInt, srcOff \in GoInt, dstOff \in GoInt :
    /\ InRange(srcOff, n, obj[b].length) /\ InRange(dstOff, n, obj[dst].length)
    /\ Request(DeviceReq("CopyToDeviceAt", {Touch(b, offsetPtr(srcOff), Bytes(n, es)),
                                            Touch(dst, offsetPtr(dstOff), Bytes(n, es))}))

BufferView(b) ==
  Is(b, {"linear"}) /\ \E off \in GoInt, n \in GoInt :
    /\ InRange(off, n, obj[b].length)
    /\ view' = [owner |-> b, offset |-> off, length |-> n]
    /\ UNCHANGED <<es, obj, req>>

\* The window is that of the owner, not of the view.
BugSubView ==
  \E off \in GoInt, n \in GoInt :
    /\ view # NoView /\ Is(view.owner, {"linear"})
    /\ InRange(off, n, obj[view.owner].length)
    /\ view' = [view EXCEPT !.offset = I(@ + off), !.length = n]
    /\ UNCHANGED <<es, obj, req>>

SubView ==
  \E off \in GoInt, n \in GoInt :
    /\ view # NoView /\ Is(view.owner, {"linear"})
    /\ InRange(off, n, view.length)
    /\ view' = [view EXCEPT !.offset = I(@ + off), !.length = n]
    /\ UNCHANGED <<es, obj, req>>

\* CopyFrom and CopyTo of a view: the owner's offset copy.
ViewCopy == view # NoView /\ CopyHostAt(view.owner, view.offset, view.length)

Rows(b) == obj[b].shape[2] * obj[b].shape[3]
RowBytes(b) == Bytes(obj[b].shape[1], es)

\* What a 2D or 3D descriptor covers on the device: whole rows but for the
\* padding of the last.
Covers(b) == Touch(b, 0, (Rows(b) - 1) * obj[b].pitch + RowBytes(b))

\* CopyFrom and CopyTo of pitched buffers, volumes and arrays; the host rows
\* are packed.
CopyRows(b) ==
  /\ Is(b, {"pitched", "volume", "array"})
  /\ \E n \in HostLens :
       /\ n = IF Is(b, {"array"}) THEN I(obj[b].shape[1] * obj[b].shape[2])
              ELSE elements(obj[b].shape[1], obj[b].shape[2], obj[b].shape[3])
       /\ Request(HostReq("CopyRows", Covers(b), RowBytes(b) * Rows(b), n * es))

CopyPitchedToDevice(b, dst) ==
  /\ Is(b, {"pitched"}) /\ Is(dst, {"pitched"})
  /\ obj[dst].shape = obj[b].shape
  /\ Request(DeviceReq("CopyPitchedToDevice", {Covers(b), Covers(dst)}))

\* WriteGlobal and ReadGlobal.
CopyGlobal(b) ==
  Is(b, {"global"}) /\ \E n \in HostLens \ {0} :
    /\ Bytes(n, es) <= obj[b].size
    /\ Request(HostReq("CopyGlobal", Touch(b, 0, Bytes(n, es)), Bytes(n, es), n * es))

\* A method that makes no request is one step; between two requests the first
\* returns.
Return == req # NoReq /\ req' = NoReq /\ UNCHANGED <<es, obj, view>>

Method ==
  \/ \E b \in Objects :
       \/ Alloc(b) \/ AllocVirtual(b) \/ AllocPitched(b) \/ AllocVolume(b)
       \/ AllocArray2D(b) \/ Global(b) \/ Close(b)
       \/ CopyWhole(b) \/ Memset(b) \/ BufferView(b) \/ CopyRows(b) \/ CopyGlobal(b)
       \/ \E off \in GoInt, n \in HostLens : CopyHostAt(b, off, n)
       \/ \E dst \in Objects : \/ CopyToDevice(b, dst) \/ CopyToDeviceAt(b, dst)
                               \/ CopyPitchedToDevice(b, dst)
  \/ SubView \/ ViewCopy

Next == (req = NoReq /\ Method) \/ Return

Spec == Init /\ [][Next]_vars

----------------------------------------------------------------------------
\* Every copy and memset of memory this process allocated touches only bytes
\* of open allocations, counted without wrap-around, and exactly the bytes of
\* the host slice it was given (an imported IPC buffer is as long as its
\* importer says, and no part of this);
\* a view, however deeply nested, is a window of its owner, and what is copied
\* through it is the whole window.
InsideAllocation ==
  /\ \A t \in req.dev : t.n > 0 /\ t.from + t.n <= obj[t.of].size
  /\ req.host = req.slice
  /\ view # NoView => /\ view.offset >= 0 /\ view.length > 0
                      /\ Is(view.owner, {"linear"}) =>
                           view.offset + view.length <= obj[view.owner].length

\* The smallest multiple of mult that is at least v, in unbounded arithmetic.
Multiple(v, mult) == mult * ((v + mult - 1) \div mult)

\* The overflow checks refuse what does not fit and nothing else, and what
\* they let through was computed without wrap-around: sizes, rounding, launch
\* shapes (the grid covers n with no idle block), volumes, arrays, and the
\* ranges of copies and views.  The first five depend on no allocation, so the
\* states before the first one suffice for them.
ExactlyWhatFits ==
  /\ (\A b \in Objects : Is(b, {"none"})) =>
       /\ \A n \in GoInt : /\ SizeOK(n, es) <=> n > 0 /\ n * es <= MaxUint64
                         /\ SizeOK(n, es) => Bytes(n, es) = n * es
       /\ \A v \in 0..MaxUint64, mult \in 1..MaxUint64 :
            roundUp(v, mult) = IF Multiple(v, mult) <= MaxUint64
                               THEN [size |-> Multiple(v, mult), ok |-> TRUE]
                               ELSE [size |-> 0, ok |-> FALSE]
       /\ \A n, block \in GoInt :
            LET cfg == LaunchConfig1D(n, block)
            IN  /\ valid(cfg) <=> /\ n > 0 /\ block \in 1..MaxUint32
                                  /\ n <= block * MaxUint32
                /\ valid(cfg) => /\ cfg[2] = block
                                 /\ cfg[1] * block >= n /\ (cfg[1] - 1) * block < n
       /\ \A w, h, d \in GoInt :
            VolumeOK(w, h, d, es) <=> /\ w > 0 /\ h > 0 /\ d > 0
                                      /\ w * h * d <= MaxInt
                                      /\ w * h * d * es <= MaxUint64
       /\ \A w, h \in GoInt :
            ArrayOK(w, h, es) <=> w > 0 /\ h > 0 /\ w * h <= MaxInt /\ es # 8
  /\ \A b \in Objects : Is(b, {"linear"}) =>
       \A off, n \in GoInt :
         InRange(off, n, obj[b].length) <=> off >= 0 /\ n > 0 /\ off + n <= obj[b].length

\* "It rejects a nil context, non-positive dimensions, and byte-size overflow"
\* (cuda/pitched.go, AllocPitched): the rows it asks the driver for have a size
\* a uint64 can hold.
PitchedSizeFits == req.fn = "AllocPitched" => req.ask <= MaxUint64
=============================================================================
