------------------------------- MODULE ArgPack -------------------------------
(***************************************************************************)
(* internal/argpack: the storage of kernel arguments.                      *)
(*                                                                         *)
(* cuLaunchKernel takes an array of pointers to argument values.  Small    *)
(* arguments live in slots of the Builder, the others in an arena that     *)
(* grows by moving.  Params caches the pointer array; dirty says that the  *)
(* cache must be rebuilt.  Reset keeps the storage for the next launch.    *)
(*                                                                         *)
(* A value of n bytes is n equal bytes.  Arguments, slots and offsets are  *)
(* numbered from zero, as in the code; the sequences that hold them from   *)
(* one.                                                                    *)
(***************************************************************************)
EXTENDS Integers, Sequences

CONSTANTS inlineArgs,   \* arguments that can live in slots
          slotBytes,    \* the size of a slot
          spillAlign, minArenaCap, MaxRetainedSpillBytes,
          Types, SizeOf,  \* types of arguments and their sizes
          RawSizes,       \* sizes of raw arguments
          Bytes,          \* what a byte can be
          MaxArgs         \* bound: arguments in a list

Raw == "raw"  \* the type of a raw argument: nil

ASSUME ArgPackAssumption ==
  /\ {inlineArgs, minArenaCap, MaxRetainedSpillBytes, MaxArgs} \subseteq Nat
  /\ {slotBytes, spillAlign} \subseteq Nat \ {0}
  /\ SizeOf \in [Types -> Nat \ {0}] /\ RawSizes \subseteq Nat \ {0}
  /\ Raw \notin Types /\ 0 \in Bytes

VARIABLES
  count,           \* number of arguments
  inlineValues,    \* the slots
  inlinePointers,  \* pointers to slots, nil until first used
  inlineMeta,      \* where the first inlineArgs arguments are
  overflowMeta,    \* where the others are
  spillBuf,        \* the arena, up to its capacity
  spillLen,        \* how much of it is in use
  spillPointers,   \* the cached array
  hasSpill, dirty,
  given            \* the arguments as the caller last gave them

slots == <<inlineValues, inlinePointers>>
metas == <<inlineMeta, overflowMeta>>
arena == <<spillBuf, spillLen>>
vars == <<count, slots, metas, arena, spillPointers, hasSpill, dirty, given>>

Index == 0 .. inlineArgs - 1
Max2(m, n) == IF m > n THEN m ELSE n

\* A pointer to a slot, into the arena, into an arena that was moved away, or
\* nil.
ToSlot(i) == [to |-> "slot", at |-> i]
ToArena(off) == [to |-> "arena", at |-> off]
Stale == [to |-> "old arena", at |-> 0]
Nil == [to |-> "nil", at |-> 0]

Init == /\ count = 0
        /\ inlineValues = [i \in Index |-> [k \in 1 .. slotBytes |-> 0]]
        /\ inlinePointers = [i \in Index |-> Nil]
        /\ inlineMeta = [i \in Index |-> [offset |-> 0, size |-> 0, typ |-> Raw]]
        /\ overflowMeta = <<>>
        /\ spillBuf = <<>> /\ spillLen = 0
        /\ spillPointers = <<>>
        /\ hasSpill = FALSE /\ dirty = FALSE
        /\ given = <<>>

----------------------------------------------------------------------------
(* Add, AddBytes.                                                          *)

\* setMeta.
SetMeta(m) ==
  \/ /\ count < inlineArgs
     /\ inlineMeta' = [inlineMeta EXCEPT ![count] = m]
     /\ UNCHANGED overflowMeta
  \/ /\ count >= inlineArgs
     /\ overflowMeta' = Append(overflowMeta, m)
     /\ UNCHANGED inlineMeta

meta(i) == IF i < inlineArgs THEN inlineMeta[i]
                             ELSE overflowMeta[i - inlineArgs + 1]

Fits(size) == count < inlineArgs /\ size <= slotBytes

\* The cached array is not known to be one argument short.
BugAddInlineClean(size, typ, v) ==
  /\ Fits(size)
  /\ inlineValues' = [inlineValues EXCEPT ![count] =
                        [k \in 1 .. slotBytes |-> IF k <= size THEN v ELSE 0]]
  /\ inlinePointers' = [inlinePointers EXCEPT ![count] = ToSlot(count)]
  /\ SetMeta([offset |-> -1, size |-> size, typ |-> typ])
  /\ UNCHANGED <<arena, spillPointers, hasSpill, dirty>>

AddInline(size, typ, v) ==
  /\ Fits(size)
  /\ inlineValues' = [inlineValues EXCEPT ![count] =
                        [k \in 1 .. slotBytes |-> IF k <= size THEN v ELSE 0]]
  /\ inlinePointers' = [inlinePointers EXCEPT ![count] = ToSlot(count)]
  /\ SetMeta([offset |-> -1, size |-> size, typ |-> typ])
  /\ dirty' = hasSpill
  /\ UNCHANGED <<arena, spillPointers, hasSpill>>

\* arenaAlloc: where the next argument goes, and whether the arena moves.
Offset(len) == ((len + spillAlign - 1) \div spillAlign) * spillAlign
Grows(size) == Len(spillBuf) < Offset(spillLen) + size

\* The old capacity doubled, but at least what is needed and the minimum.
Capacity(size) ==
  IF Grows(size)
  THEN Max2(Max2(2 * Len(spillBuf), Offset(spillLen) + size), minArenaCap)
  ELSE Len(spillBuf)

\* A new arena that does not get the old one's contents.
BugMovedEmpty(size) == [k \in 1 .. Capacity(size) |-> IF Grows(size) THEN 0 ELSE spillBuf[k]]

\* The arena after arenaAlloc; a new one gets the bytes in use.
Moved(size) == [k \in 1 .. Capacity(size) |->
                  IF Grows(size) /\ k > spillLen THEN 0 ELSE spillBuf[k]]

\* n bytes v from offset off on.
Written(s, off, n, v) ==
  [k \in DOMAIN s |-> IF k \in off + 1 .. off + n THEN v ELSE s[k]]

\* A move leaves the cached pointers behind.
Strand(p) == IF p.to = "arena" THEN Stale ELSE p

AddSpill(size, typ, v) ==
  LET off == Offset(spillLen)
  IN  /\ ~Fits(size)
      /\ spillBuf' = Written(Moved(size), off, size, v)
      /\ spillLen' = off + size
      /\ spillPointers' = IF Grows(size)
                          THEN [i \in DOMAIN spillPointers |-> Strand(spillPointers[i])]
                          ELSE spillPointers
      /\ SetMeta([offset |-> off, size |-> size, typ |-> typ])
      /\ hasSpill' = TRUE /\ dirty' = TRUE
      /\ UNCHANGED slots

add(size, typ, v) == /\ count < MaxArgs
                     /\ AddInline(size, typ, v) \/ AddSpill(size, typ, v)
                     /\ count' = count + 1
                     /\ given' = Append(given, [size |-> size, v |-> v])

Add(t, v) == add(SizeOf[t], t, v)
AddBytes(n, v) == add(n, Raw, v)

----------------------------------------------------------------------------
(* Set, SetBytes: in place, so the pointers stay as they are.              *)

write(i, v) ==
  LET m == meta(i)
  IN  /\ \/ /\ m.offset < 0
            /\ inlineValues' = [inlineValues EXCEPT ![i] = Written(@, 0, m.size, v)]
            /\ UNCHANGED spillBuf
         \/ /\ m.offset >= 0
            /\ spillBuf' = Written(spillBuf, m.offset, m.size, v)
            /\ UNCHANGED inlineValues
      /\ given' = [given EXCEPT ![i + 1].v = v]
      /\ UNCHANGED <<count, inlinePointers, metas, spillLen, spillPointers,
                     hasSpill, dirty>>

\* Other types, raw arguments and other sizes are refused: nothing happens.
Set(i, t, v) == i < count /\ meta(i).typ = t /\ write(i, v)
SetBytes(i, n, v) == i < count /\ meta(i).size = n /\ write(i, v)

----------------------------------------------------------------------------
(* Params, Reset.                                                          *)

\* Params when it has to rebuild the array.  Otherwise it changes nothing.
Params ==
  /\ count > 0 /\ hasSpill /\ dirty
  /\ spillPointers' = [i \in 1 .. count |->
                         IF meta(i - 1).offset < 0 THEN inlinePointers[i - 1]
                         ELSE ToArena(meta(i - 1).offset)]
  /\ dirty' = FALSE
  /\ UNCHANGED <<count, slots, metas, arena, hasSpill, given>>

\* The array Params returns without rebuilding it.
ParamArray == IF hasSpill THEN spillPointers
              ELSE [i \in 1 .. inlineArgs |-> inlinePointers[i - 1]]

Reset ==
  /\ count' = 0 /\ hasSpill' = FALSE /\ dirty' = FALSE
  /\ spillBuf' = IF Len(spillBuf) > MaxRetainedSpillBytes THEN <<>> ELSE spillBuf
  /\ spillLen' = 0
  /\ spillPointers' = <<>> /\ overflowMeta' = <<>> /\ given' = <<>>
  /\ UNCHANGED <<slots, inlineMeta>>

Next == \/ \E v \in Bytes : \/ \E t \in Types : Add(t, v)
                            \/ \E n \in RawSizes : AddBytes(n, v)
                            \/ \E i \in 0 .. MaxArgs - 1 :
                                 \/ \E t \in Types : Set(i, t, v)
                                 \/ \E n \in RawSizes : SetBytes(i, n, v)
        \/ Params
        \/ Reset

Spec == Init /\ [][Next]_vars

----------------------------------------------------------------------------
Meta == [offset : Int, size : Nat, typ : Types \cup {Raw}]
Pointer == {Nil, Stale} \cup [to : {"slot", "arena"}, at : Nat]

TypeOK == /\ count \in Nat
          /\ inlineValues \in [Index -> Seq(Bytes)]
          /\ inlinePointers \in [Index -> Pointer]
          /\ inlineMeta \in [Index -> Meta] /\ overflowMeta \in Seq(Meta)
          /\ spillBuf \in Seq(Bytes) /\ spillLen \in 0 .. Len(spillBuf)
          /\ spillPointers \in Seq(Pointer)
          /\ hasSpill \in BOOLEAN /\ dirty \in BOOLEAN

\* The storage a pointer leads to.
Storage(p) == IF p.to = "slot" THEN inlineValues[p.at]
              ELSE IF p.to = "arena" THEN SubSeq(spillBuf, p.at + 1, spillLen)
              ELSE <<>>

Holds(s, a) == Len(s) >= a.size /\ \A k \in 1 .. a.size : s[k] = a.v

\* Every argument keeps its value and its size, through later arguments,
\* moves of the arena, updates of other arguments and reuse after Reset: no
\* two arguments share bytes and none is lost in a move.
ValuesKept ==
  /\ TypeOK
  /\ \A i \in 0 .. count - 1 :
       LET m == meta(i)
       IN  /\ m.size = given[i + 1].size
           /\ Holds(Storage(IF m.offset < 0 THEN ToSlot(i) ELSE ToArena(m.offset)),
                    given[i + 1])

\* What the driver reads through the array of Params are the arguments as
\* last given, also when Params trusts the array it built before; the CUDA
\* driver is never handed a pointer into an arena that was moved away, nor one
\* that is not aligned for every type.
DriverSeesArguments ==
  count > 0 /\ (hasSpill => ~dirty)
    => \A i \in 1 .. count : /\ i \in DOMAIN ParamArray
                             /\ Holds(Storage(ParamArray[i]), given[i])
                             /\ ParamArray[i].to = "arena"
                                  => ParamArray[i].at % spillAlign = 0
=============================================================================
