---------------------------- MODULE ArgPackProofs ----------------------------
(***************************************************************************)
(* The arguments of a launch, for any number of arguments, slots and       *)
(* types, any sizes, alignment and growth of the arena.  The argument:     *)
(* each argument has a place of its own, in its slot or in a stretch of    *)
(* the arena that no other argument overlaps; a move takes all stretches   *)
(* along; and a cached pointer array that is not dirty points to those     *)
(* places.                                                                 *)
(***************************************************************************)
EXTENDS ArgPack, SequenceTheorems, TLAPS

\* Argument i is in its slot.
InSlot(i) ==
  /\ i < inlineArgs /\ meta(i).size <= slotBytes /\ inlinePointers[i] = ToSlot(i)
  /\ \A k \in 1 .. meta(i).size : inlineValues[i][k] = given[i + 1].v

\* Argument i is in the arena, at an aligned offset.
InArena(i) ==
  /\ hasSpill /\ meta(i).offset % spillAlign = 0
  /\ meta(i).offset + meta(i).size <= spillLen
  /\ \A k \in 1 .. meta(i).size : spillBuf[meta(i).offset + k] = given[i + 1].v

\* Every argument is where its metadata say.
Stored ==
  \A i \in 0 .. count - 1 : /\ meta(i) \in Meta
                            /\ meta(i).size = given[i + 1].size
                            /\ meta(i).offset < 0 => InSlot(i)
                            /\ meta(i).offset >= 0 => InArena(i)

\* Arguments in the arena lie behind each other.
Apart ==
  \A i, j \in 0 .. count - 1 :
    i < j /\ meta(i).offset >= 0 /\ meta(j).offset >= 0
      => meta(i).offset + meta(i).size <= meta(j).offset

\* The lists are as long as they should be.
Lists == /\ given \in Seq([size : Nat, v : Bytes]) /\ Len(given) = count
         /\ count <= inlineArgs => Len(overflowMeta) = 0
         /\ count > inlineArgs => Len(overflowMeta) = count - inlineArgs
         /\ \A i \in Index : DOMAIN inlineValues[i] = 1 .. slotBytes

\* The array Params may return without rebuilding it.
Cached ==
  hasSpill /\ ~dirty =>
    /\ DOMAIN spillPointers = 1 .. count
    /\ \A i \in 0 .. count - 1 :
         spillPointers[i + 1] = IF meta(i).offset < 0 THEN ToSlot(i)
                                ELSE ToArena(meta(i).offset)

\* The inductive invariant.
AInv == TypeOK /\ Lists /\ Stored /\ Apart /\ Cached

----------------------------------------------------------------------------
(* Helpers.                                                                *)

\* What the constants are.
LEMMA Constants ==
  /\ inlineArgs \in Nat /\ minArenaCap \in Nat /\ MaxRetainedSpillBytes \in Nat
  /\ slotBytes \in Nat \ {0} /\ spillAlign \in Nat \ {0} /\ 0 \in Bytes
  /\ \A t \in Types : SizeOf[t] \in Nat \ {0}
  /\ \A n \in RawSizes : n \in Nat \ {0}
  /\ \A i \in Nat : i \in Index <=> i < inlineArgs
  /\ Index \subseteq Nat
<1>1. \A i \in Nat : i \in 0 .. inlineArgs - 1 <=> i < inlineArgs
  BY ArgPackAssumption
<1> QED BY ArgPackAssumption, <1>1 DEF Index

\* A function on 1 to n is a sequence of length n.
LEMMA FunctionIsSeq ==
  ASSUME NEW S, NEW n \in Nat, NEW f \in [1 .. n -> S]
  PROVE  f \in Seq(S) /\ Len(f) = n /\ DOMAIN f = 1 .. n
  OBVIOUS

\* And the other way around.
LEMMA SeqIsFunction ==
  ASSUME NEW S, NEW f \in Seq(S)
  PROVE  f \in [1 .. Len(f) -> S] /\ Len(f) \in Nat
  OBVIOUS

\* The end of a sequence from a place on.
LEMMA FromThere ==
  ASSUME NEW S, NEW s \in Seq(S), NEW n \in 0 .. Len(s), NEW off \in Nat, NEW size \in Nat,
         off + size <= n
  PROVE  /\ Len(SubSeq(s, off + 1, n)) >= size
         /\ \A k \in 1 .. size : SubSeq(s, off + 1, n)[k] = s[off + k]
  OBVIOUS

\* arenaAlloc rounds up to the alignment.
LEMMA OffsetFacts ==
  ASSUME NEW len \in Nat
  PROVE  Offset(len) \in Nat /\ len <= Offset(len) /\ Offset(len) % spillAlign = 0
<1> USE Constants
<1>1. PICK q \in Nat : q = (len + spillAlign - 1) \div spillAlign
  <2>1. len + spillAlign - 1 \in Nat
    OBVIOUS
  <2> QED BY <2>1
<1>2. len + spillAlign - 1 < spillAlign * q + spillAlign BY <1>1
<1>3. q * spillAlign \in Nat /\ (q * spillAlign) % spillAlign = 0
  OBVIOUS
<1>4. spillAlign * q = q * spillAlign
  OBVIOUS
<1>5. len <= q * spillAlign BY <1>2, <1>3, <1>4
<1> QED BY <1>1, <1>3, <1>5 DEF Offset

\* Writing bytes keeps the sequence's length.
LEMMA WrittenFacts ==
  ASSUME NEW s \in Seq(Bytes), NEW off \in Nat, NEW n \in Nat, NEW v \in Bytes
  PROVE  /\ Written(s, off, n, v) \in Seq(Bytes)
         /\ Len(Written(s, off, n, v)) = Len(s)
         /\ DOMAIN Written(s, off, n, v) = DOMAIN s
<1>1. DOMAIN s = 1 .. Len(s) /\ Len(s) \in Nat /\ \A k \in DOMAIN s : s[k] \in Bytes
  OBVIOUS
<1>2. PICK f : f = Written(s, off, n, v)
  OBVIOUS
<1>3. /\ DOMAIN f = DOMAIN s
      /\ \A k \in DOMAIN s : f[k] = IF k \in off + 1 .. off + n THEN v ELSE s[k]
  BY <1>2 DEF Written
<1>4. f \in [1 .. Len(s) -> Bytes] BY <1>1, <1>2, <1>3 DEF Written
<1>5. f \in Seq(Bytes) /\ Len(f) = Len(s) BY <1>1, <1>4, FunctionIsSeq
<1> QED BY <1>2, <1>3, <1>5

\* A byte that is written.
LEMMA WrittenThere ==
  ASSUME NEW s \in Seq(Bytes), NEW off \in Nat, NEW n \in Nat, NEW v \in Bytes,
         off + n <= Len(s), NEW k \in 1 .. n
  PROVE  Written(s, off, n, v)[off + k] = v
<1>1. off + k \in DOMAIN s /\ off + k \in off + 1 .. off + n
  OBVIOUS
<1> QED BY <1>1 DEF Written

\* A byte that is not.
LEMMA WrittenElsewhere ==
  ASSUME NEW s \in Seq(Bytes), NEW off \in Nat, NEW n \in Nat, NEW v \in Bytes,
         NEW k \in DOMAIN s, k <= off \/ off + n < k
  PROVE  Written(s, off, n, v)[k] = s[k]
<1>1. k \notin off + 1 .. off + n
  OBVIOUS
<1> QED BY <1>1 DEF Written

\* Bytes written from the start on.
LEMMA SlotWritten ==
  ASSUME NEW s \in Seq(Bytes), NEW n \in Nat, NEW v \in Bytes, n <= Len(s)
  PROVE  /\ Written(s, 0, n, v) \in Seq(Bytes)
         /\ DOMAIN Written(s, 0, n, v) = DOMAIN s
         /\ \A k \in 1 .. n : Written(s, 0, n, v)[k] = v
<1>1. PICK len \in Nat : len = Len(s) /\ DOMAIN s = 1 .. len
  OBVIOUS
<1>2. PICK f : f = Written(s, 0, n, v)
  OBVIOUS
<1>3. f = [k \in 1 .. len |-> IF k \in 0 + 1 .. 0 + n THEN v ELSE s[k]]
  BY <1>1, <1>2 DEF Written
<1>4. \A k \in 1 .. len : s[k] \in Bytes BY <1>1
<1>5. f \in [1 .. len -> Bytes] BY <1>3, <1>4
<1>6. f \in Seq(Bytes) BY <1>5, FunctionIsSeq
<1>7. \A k \in 1 .. n : k \in 1 .. len /\ k \in 0 + 1 .. 0 + n BY <1>1
<1>8. \A k \in 1 .. n : f[k] = v BY <1>3, <1>7
<1> QED BY <1>1, <1>2, <1>5, <1>6, <1>8

\* The arena after arenaAlloc has room, and still has the bytes in use.
LEMMA MovedFacts ==
  ASSUME TypeOK, NEW size \in Nat
  PROVE  /\ Moved(size) \in Seq(Bytes)
         /\ Offset(spillLen) + size <= Len(Moved(size))
         /\ \A k \in 1 .. spillLen : Moved(size)[k] = spillBuf[k]
<1> USE Constants
<1>1. PICK old \in Nat : old = Len(spillBuf) /\ DOMAIN spillBuf = 1 .. old
  BY DEF TypeOK
<1>2. PICK off \in Nat : off = Offset(spillLen) /\ spillLen <= off BY OffsetFacts DEF TypeOK
<1>3. spillLen \in Nat /\ spillLen <= old /\ \A k \in 1 .. old : spillBuf[k] \in Bytes
  BY <1>1 DEF TypeOK
<1>4. PICK cap \in Nat : cap = Capacity(size) /\ off + size <= cap /\ (~Grows(size) => cap = old)
  BY <1>1, <1>2 DEF Capacity, Grows, Max2
<1>5. PICK f : f = Moved(size)
  OBVIOUS
<1>6. f = [k \in 1 .. cap |-> IF Grows(size) /\ k > spillLen THEN 0 ELSE spillBuf[k]]
  BY <1>4, <1>5 DEF Moved
<1>7. spillLen <= cap BY <1>2, <1>3, <1>4
<1>8. \A k \in 1 .. cap : (IF Grows(size) /\ k > spillLen THEN 0 ELSE spillBuf[k]) \in Bytes
  BY <1>3, <1>4
<1>9. f \in [1 .. cap -> Bytes] BY <1>6, <1>8
<1>10. f \in Seq(Bytes) /\ Len(f) = cap BY <1>9, FunctionIsSeq
<1>11. \A k \in 1 .. spillLen : f[k] = spillBuf[k]
  <2>1. \A k \in 1 .. spillLen : k \in 1 .. cap /\ ~(k > spillLen) BY <1>3, <1>7
  <2> QED BY <1>6, <2>1
<1> QED BY <1>2, <1>4, <1>5, <1>10, <1>11

\* The arena after the new argument is written.
LEMMA FilledFacts ==
  ASSUME TypeOK, NEW size \in Nat, NEW typ, NEW v \in Bytes, AddSpill(size, typ, v),
         NEW off \in Nat, off = Offset(spillLen)
  PROVE  /\ spillBuf' \in Seq(Bytes) /\ spillLen' \in 0 .. Len(spillBuf')
         /\ \A k \in 1 .. spillLen : spillBuf'[k] = spillBuf[k]
         /\ \A k \in 1 .. size : spillBuf'[off + k] = v
<1>1. PICK b : b = spillBuf'
  OBVIOUS
<1>2. spillBuf' = Written(Moved(size), off, size, v) /\ spillLen' = off + size
  BY DEF AddSpill
<1>3. PICK s \in Seq(Bytes) : /\ s = Moved(size) /\ off + size <= Len(s)
                              /\ \A k \in 1 .. spillLen : s[k] = spillBuf[k]
  BY MovedFacts
<1>4. b = Written(s, off, size, v) /\ off + size <= Len(s) BY <1>1, <1>2, <1>3
<1>5. b \in Seq(Bytes) /\ Len(b) = Len(s) BY <1>4, WrittenFacts
<1>6. \A k \in 1 .. size : b[off + k] = v
  <2>1. ASSUME NEW k \in 1 .. size PROVE Written(s, off, size, v)[off + k] = v
    BY <1>4, WrittenThere
  <2> QED BY <1>4, <2>1
<1>7. \A k \in DOMAIN s : k <= off \/ off + size < k => b[k] = s[k]
  <2>1. ASSUME NEW k \in DOMAIN s, k <= off \/ off + size < k
        PROVE  Written(s, off, size, v)[k] = s[k]
    BY <2>1, WrittenElsewhere
  <2> QED BY <1>4, <2>1
<1>8. spillLen \in Nat /\ spillLen <= off BY OffsetFacts DEF TypeOK
<1>9. \A k \in 1 .. spillLen : k \in DOMAIN s /\ k <= off BY <1>3, <1>4, <1>8
<1>10. \A k \in 1 .. spillLen : b[k] = spillBuf[k] BY <1>3, <1>7, <1>9
<1> QED BY <1>1, <1>2, <1>4, <1>5, <1>6, <1>10

----------------------------------------------------------------------------
(* The steps.                                                              *)

\* An empty list.
LEMMA InitInv == Init => AInv
<1> SUFFICES ASSUME Init PROVE AInv
  OBVIOUS
<1> USE Constants DEF Init
<1>1. [k \in 1 .. slotBytes |-> 0] \in [1 .. slotBytes -> Bytes]
  OBVIOUS
<1>2. inlineValues \in [Index -> Seq(Bytes)]
      /\ \A i \in Index : DOMAIN inlineValues[i] = 1 .. slotBytes
  BY <1>1, FunctionIsSeq
<1>3. inlinePointers \in [Index -> Pointer] BY DEF Pointer
<1>4. inlineMeta \in [Index -> Meta] BY DEF Meta, Raw
<1>5. overflowMeta \in Seq(Meta) /\ spillBuf \in Seq(Bytes) /\ spillPointers \in Seq(Pointer)
      /\ given \in Seq([size : Nat, v : Bytes]) /\ Len(overflowMeta) = 0
      /\ Len(spillBuf) = 0 /\ Len(given) = 0
  OBVIOUS
<1>6. TypeOK
  <2>1. count \in Nat /\ spillLen \in 0 .. Len(spillBuf) BY <1>5
  <2>2. hasSpill \in BOOLEAN /\ dirty \in BOOLEAN
    OBVIOUS
  <2> HIDE DEF Init
  <2> QED BY <1>2, <1>3, <1>4, <1>5, <2>1, <2>2 DEF TypeOK
<1>7. Lists BY <1>2, <1>5 DEF Lists
<1>8. Stored /\ Apart BY DEF Stored, Apart
<1>9. Cached BY DEF Cached
<1> QED BY <1>6, <1>7, <1>8, <1>9 DEF AInv

\* setMeta records the new argument and leaves the others.
LEMMA SetMetaFacts ==
  ASSUME AInv, NEW m \in Meta, SetMeta(m), NEW c \in Nat, c = count
  PROVE  /\ inlineMeta' \in [Index -> Meta] /\ overflowMeta' \in Seq(Meta)
         /\ \A j \in 0 .. count - 1 : meta(j)' = meta(j)
         /\ meta(c)' = m
         /\ count + 1 <= inlineArgs => Len(overflowMeta') = 0
         /\ count + 1 > inlineArgs => Len(overflowMeta') = count + 1 - inlineArgs
<1> USE Constants
<1>1. count \in Nat /\ inlineMeta \in [Index -> Meta] /\ overflowMeta \in Seq(Meta)
  BY DEF AInv, TypeOK
<1>2. /\ count <= inlineArgs => Len(overflowMeta) = 0
      /\ count > inlineArgs => Len(overflowMeta) = count - inlineArgs
  BY DEF AInv, Lists
<1>3. CASE /\ count < inlineArgs
           /\ inlineMeta' = [inlineMeta EXCEPT ![count] = m]
           /\ UNCHANGED overflowMeta
  <2>1. inlineMeta' \in [Index -> Meta] BY <1>1, <1>3
  <2>2. inlineMeta'[count] = m /\ \A j \in 0 .. count - 1 : inlineMeta'[j] = inlineMeta[j]
    BY <1>1, <1>3
  <2>3. meta(c)' = m BY <1>3, <2>2 DEF meta
  <2>4. ASSUME NEW j \in 0 .. count - 1 PROVE meta(j)' = meta(j)
    <3>1. j < inlineArgs BY <1>1, <1>3
    <3> QED BY <2>2, <3>1 DEF meta
  <2>5. count + 1 <= inlineArgs /\ count <= inlineArgs BY <1>1, <1>3
  <2> QED BY <1>1, <1>2, <1>3, <2>1, <2>3, <2>4, <2>5
<1>4. CASE /\ count >= inlineArgs
           /\ overflowMeta' = Append(overflowMeta, m)
           /\ UNCHANGED inlineMeta
  <2>1. /\ overflowMeta' \in Seq(Meta) /\ Len(overflowMeta') = Len(overflowMeta) + 1
        /\ overflowMeta'[Len(overflowMeta) + 1] = m
        /\ \A k \in 1 .. Len(overflowMeta) : overflowMeta'[k] = overflowMeta[k]
    BY <1>1, <1>4
  <2>2. Len(overflowMeta) = count - inlineArgs BY <1>1, <1>2, <1>4
  <2>3. meta(c)' = m
    <3>1. ~(c < inlineArgs) /\ c - inlineArgs + 1 = Len(overflowMeta) + 1
      BY <1>1, <1>4, <2>2
    <3> QED BY <2>1, <3>1 DEF meta
  <2>4. ASSUME NEW j \in 0 .. count - 1 PROVE meta(j)' = meta(j)
    <3>1. j >= inlineArgs => j - inlineArgs + 1 \in 1 .. Len(overflowMeta)
      BY <1>1, <2>2
    <3> QED BY <1>1, <1>4, <2>1, <3>1 DEF meta
  <2> QED BY <1>1, <1>4, <2>1, <2>2, <2>3, <2>4
<1> QED BY <1>3, <1>4 DEF SetMeta

\* The caller's list grows by one.
LEMMA GivenFacts ==
  ASSUME AInv, NEW size \in Nat, NEW v \in Bytes,
         given' = Append(given, [size |-> size, v |-> v])
  PROVE  /\ given' \in Seq([size : Nat, v : Bytes]) /\ Len(given') = count + 1
         /\ \A j \in 0 .. count - 1 : given'[j + 1] = given[j + 1]
         /\ given'[count + 1].size = size /\ given'[count + 1].v = v
<1>1. given \in Seq([size : Nat, v : Bytes]) /\ Len(given) = count /\ count \in Nat
  BY DEF AInv, Lists, TypeOK
<1>2. PICK a \in [size : Nat, v : Bytes] : a = [size |-> size, v |-> v]
  OBVIOUS
<1>3. /\ given' \in Seq([size : Nat, v : Bytes]) /\ Len(given') = count + 1
      /\ given'[count + 1] = a
      /\ \A k \in 1 .. count : given'[k] = given[k]
  BY <1>1, <1>2
<1>4. \A j \in 0 .. count - 1 : j + 1 \in 1 .. count BY <1>1
<1>5. a.size = size /\ a.v = v BY <1>2
<1> QED BY <1>3, <1>4, <1>5

\* An argument that fits goes to its slot.
LEMMA AddInlineStep ==
  ASSUME AInv, NEW size \in Nat \ {0}, NEW typ \in Types \cup {Raw}, NEW v \in Bytes,
         AddInline(size, typ, v), count' = count + 1,
         given' = Append(given, [size |-> size, v |-> v])
  PROVE  AInv'
<1> USE Constants
<1>1. PICK m \in Meta : m = [offset |-> -1, size |-> size, typ |-> typ]
  <2>1. -1 \in Int /\ size \in Nat
    OBVIOUS
  <2> QED BY <2>1 DEF Meta
<1>2. m.offset = -1 /\ m.size = size BY <1>1
<1>3. /\ count < inlineArgs /\ size <= slotBytes
      /\ inlinePointers' = [inlinePointers EXCEPT ![count] = ToSlot(count)]
      /\ SetMeta(m) /\ dirty' = hasSpill
      /\ UNCHANGED <<spillBuf, spillLen, spillPointers, hasSpill>>
  BY <1>1 DEF AddInline, Fits, arena
<1>4. PICK c \in Nat : c = count /\ c \in Index BY <1>3 DEF AInv, TypeOK
<1>5. PICK f \in [1 .. slotBytes -> Bytes] :
        /\ inlineValues' = [inlineValues EXCEPT ![count] = f]
        /\ \A k \in 1 .. size : f[k] = v
  <2>1. [k \in 1 .. slotBytes |-> IF k <= size THEN v ELSE 0] \in [1 .. slotBytes -> Bytes]
    OBVIOUS
  <2>2. \A k \in 1 .. size : k \in 1 .. slotBytes /\ k <= size BY <1>3
  <2> QED BY <2>1, <2>2 DEF AddInline
<1>6. f \in Seq(Bytes) /\ DOMAIN f = 1 .. slotBytes BY FunctionIsSeq
<1>7. /\ inlineValues' \in [Index -> Seq(Bytes)] /\ inlineValues'[count] = f
      /\ \A j \in Index : j # count => inlineValues'[j] = inlineValues[j]
  BY <1>4, <1>5, <1>6 DEF AInv, TypeOK
<1>8. /\ inlinePointers' \in [Index -> Pointer] /\ inlinePointers'[count] = ToSlot(count)
      /\ \A j \in Index : j # count => inlinePointers'[j] = inlinePointers[j]
  <2>1. ToSlot(count) \in Pointer BY <1>4 DEF ToSlot, Pointer
  <2> QED BY <1>3, <1>4, <2>1 DEF AInv, TypeOK
<1>9. /\ inlineMeta' \in [Index -> Meta] /\ overflowMeta' \in Seq(Meta)
      /\ \A j \in 0 .. count - 1 : meta(j)' = meta(j)
      /\ meta(c)' = m
      /\ count + 1 <= inlineArgs => Len(overflowMeta') = 0
      /\ count + 1 > inlineArgs => Len(overflowMeta') = count + 1 - inlineArgs
  BY <1>3, <1>4, SetMetaFacts
<1>10. /\ given' \in Seq([size : Nat, v : Bytes]) /\ Len(given') = count + 1
       /\ \A j \in 0 .. count - 1 : given'[j + 1] = given[j + 1]
       /\ given'[count + 1].size = size /\ given'[count + 1].v = v
  BY GivenFacts
<1>11. TypeOK'
  <2>1. count' \in Nat BY <1>4
  <2>2. spillBuf' \in Seq(Bytes) /\ spillLen' \in 0 .. Len(spillBuf')
        /\ spillPointers' \in Seq(Pointer) /\ hasSpill' \in BOOLEAN /\ dirty' \in BOOLEAN
    BY <1>3 DEF AInv, TypeOK
  <2> QED BY <1>7, <1>8, <1>9, <2>1, <2>2 DEF TypeOK
<1>12. Lists'
  <2>1. \A i \in Index : DOMAIN inlineValues'[i] = 1 .. slotBytes
    BY <1>6, <1>7 DEF AInv, Lists
  <2> QED BY <1>3, <1>4, <1>9, <1>10, <2>1 DEF Lists
<1>13. \A i \in 0 .. count' - 1 : i \in 0 .. count - 1 \/ i = c BY <1>4
<1>14. Stored'
  <2>1. ASSUME NEW i \in 0 .. count - 1
        PROVE  /\ meta(i)' \in Meta /\ meta(i)'.size = given'[i + 1].size
               /\ meta(i)'.offset < 0 => InSlot(i)'
               /\ meta(i)'.offset >= 0 => InArena(i)'
    <3>1. /\ meta(i) \in Meta /\ meta(i).size = given[i + 1].size
          /\ meta(i).offset < 0 => InSlot(i)
          /\ meta(i).offset >= 0 => InArena(i)
      BY DEF AInv, Stored
    <3>2. i \in Index /\ i # count BY <1>3, <1>4
    <3>3. meta(i)' = meta(i) /\ given'[i + 1] = given[i + 1] BY <1>9, <1>10
    <3>4. InSlot(i) => InSlot(i)' BY <1>7, <1>8, <3>2, <3>3 DEF InSlot
    <3>5. InArena(i) => InArena(i)' BY <1>3, <3>3 DEF InArena
    <3> QED BY <3>1, <3>3, <3>4, <3>5
  <2>2. /\ meta(c)' \in Meta /\ meta(c)'.size = given'[c + 1].size
        /\ meta(c)'.offset < 0 => InSlot(c)'
        /\ meta(c)'.offset >= 0 => InArena(c)'
    <3>1. meta(c)'.offset < 0 BY <1>2, <1>9
    <3>2. InSlot(c)'
      <4>1. \A k \in 1 .. size : inlineValues'[count][k] = v BY <1>5, <1>7
      <4>2. meta(c)'.size = size BY <1>2, <1>9
      <4>3. inlinePointers'[c] = ToSlot(c) /\ c < inlineArgs /\ given'[c + 1].v = v
        BY <1>3, <1>4, <1>8, <1>10
      <4> QED BY <1>3, <1>4, <4>1, <4>2, <4>3 DEF InSlot, ToSlot
    <3> QED BY <1>2, <1>4, <1>9, <1>10, <3>1, <3>2
  <2> QED BY <1>13, <2>1, <2>2 DEF Stored
<1>15. Apart'
  <2>1. ~(meta(c)'.offset >= 0) BY <1>2, <1>9
  <2> QED BY <1>9, <1>13, <2>1 DEF AInv, Apart
<1>16. Cached' BY <1>3 DEF Cached
<1> QED BY <1>11, <1>12, <1>14, <1>15, <1>16 DEF AInv

\* Another argument goes to the end of the arena, which may move.
LEMMA AddSpillStep ==
  ASSUME AInv, NEW size \in Nat \ {0}, NEW typ \in Types \cup {Raw}, NEW v \in Bytes,
         AddSpill(size, typ, v), count' = count + 1,
         given' = Append(given, [size |-> size, v |-> v])
  PROVE  AInv'
<1> USE Constants
<1>1. PICK off \in Nat : off = Offset(spillLen) /\ spillLen <= off /\ off % spillAlign = 0
  <2> HIDE Constants
  <2>1. spillLen \in Nat BY DEF AInv, TypeOK
  <2> QED BY <2>1, OffsetFacts
<1>2. PICK m \in Meta : m = [offset |-> off, size |-> size, typ |-> typ]
  <2>1. off \in Int /\ size \in Nat
    OBVIOUS
  <2> QED BY <2>1 DEF Meta
<1>3. m.offset = off /\ m.size = size BY <1>2
<1>4. /\ spillLen' = off + size /\ SetMeta(m) /\ hasSpill' = TRUE /\ dirty' = TRUE
      /\ UNCHANGED <<inlineValues, inlinePointers>>
  BY <1>1, <1>2 DEF AddSpill, slots
<1>5. PICK c \in Nat : c = count BY DEF AInv, TypeOK
<1>6. /\ spillBuf' \in Seq(Bytes) /\ spillLen' \in 0 .. Len(spillBuf')
      /\ \A k \in 1 .. spillLen : spillBuf'[k] = spillBuf[k]
      /\ \A k \in 1 .. size : spillBuf'[off + k] = v
  <2> HIDE Constants
  <2>1. TypeOK /\ size \in Nat BY DEF AInv
  <2> QED BY <1>1, <2>1, FilledFacts, ZenonT(60)
<1>7. spillPointers' \in Seq(Pointer)
  <2>1. spillPointers \in Seq(Pointer) BY DEF AInv, TypeOK
  <2>2. PICK n \in Nat : n = Len(spillPointers) /\ DOMAIN spillPointers = 1 .. n
    BY <2>1
  <2>3. \A p \in Pointer : Strand(p) \in Pointer BY DEF Strand, Pointer
  <2>4. \A i \in 1 .. n : spillPointers[i] \in Pointer BY <2>1, <2>2
  <2>5. PICK f : f = [i \in 1 .. n |-> Strand(spillPointers[i])]
    OBVIOUS
  <2>6. f \in [1 .. n -> Pointer] BY <2>3, <2>4, <2>5
  <2>7. f \in Seq(Pointer) BY <2>6, FunctionIsSeq
  <2>8. spillPointers' = f \/ spillPointers' = spillPointers BY <2>2, <2>5 DEF AddSpill
  <2> QED BY <2>1, <2>7, <2>8
<1>8. /\ inlineMeta' \in [Index -> Meta] /\ overflowMeta' \in Seq(Meta)
      /\ \A j \in 0 .. count - 1 : meta(j)' = meta(j)
      /\ meta(c)' = m
      /\ count + 1 <= inlineArgs => Len(overflowMeta') = 0
      /\ count + 1 > inlineArgs => Len(overflowMeta') = count + 1 - inlineArgs
  BY <1>4, <1>5, SetMetaFacts
<1>9. /\ given' \in Seq([size : Nat, v : Bytes]) /\ Len(given') = count + 1
      /\ \A j \in 0 .. count - 1 : given'[j + 1] = given[j + 1]
      /\ given'[count + 1].size = size /\ given'[count + 1].v = v
  BY GivenFacts
<1>10. TypeOK'
  <2>1. count' \in Nat BY <1>5
  <2>2. inlineValues' \in [Index -> Seq(Bytes)] /\ inlinePointers' \in [Index -> Pointer]
    BY <1>4 DEF AInv, TypeOK
  <2>3. hasSpill' \in BOOLEAN /\ dirty' \in BOOLEAN BY <1>4
  <2> QED BY <1>6, <1>7, <1>8, <2>1, <2>2, <2>3 DEF TypeOK
<1>11. Lists'
  <2>1. \A i \in Index : DOMAIN inlineValues'[i] = 1 .. slotBytes BY <1>4 DEF AInv, Lists
  <2> QED BY <1>5, <1>8, <1>9, <2>1 DEF Lists
<1>12. \A i \in 0 .. count' - 1 : i \in 0 .. count - 1 \/ i = c BY <1>5
<1>13. ASSUME NEW i \in 0 .. count - 1, meta(i).offset >= 0
       PROVE  meta(i).offset \in Nat /\ meta(i).size \in Nat
              /\ meta(i).offset + meta(i).size <= spillLen
  BY <1>13 DEF AInv, Stored, InArena, Meta
<1>14. Stored'
  <2>1. ASSUME NEW i \in 0 .. count - 1
        PROVE  /\ meta(i)' \in Meta /\ meta(i)'.size = given'[i + 1].size
               /\ meta(i)'.offset < 0 => InSlot(i)'
               /\ meta(i)'.offset >= 0 => InArena(i)'
    <3>1. /\ meta(i) \in Meta /\ meta(i).size = given[i + 1].size
          /\ meta(i).offset < 0 => InSlot(i)
          /\ meta(i).offset >= 0 => InArena(i)
      BY DEF AInv, Stored
    <3>2. meta(i)' = meta(i) /\ given'[i + 1] = given[i + 1] BY <1>8, <1>9
    <3>3. InSlot(i) => InSlot(i)' BY <1>4, <3>2 DEF InSlot
    <3>4. ASSUME meta(i).offset >= 0 PROVE InArena(i)'
      <4>1. spillLen \in Nat BY DEF AInv, TypeOK
      <4>2. /\ meta(i).offset \in Nat /\ meta(i).size \in Nat
            /\ meta(i).offset + meta(i).size <= spillLen
        BY <1>13, <3>4
      <4>3. /\ meta(i).offset % spillAlign = 0
            /\ \A k \in 1 .. meta(i).size : spillBuf[meta(i).offset + k] = given[i + 1].v
        BY <3>1, <3>4 DEF InArena
      <4>4. \A k \in 1 .. meta(i).size : meta(i).offset + k \in 1 .. spillLen BY <4>1, <4>2
      <4>5. meta(i).offset + meta(i).size <= spillLen' BY <1>1, <1>4, <4>1, <4>2
      <4>6. \A k \in 1 .. meta(i).size : spillBuf'[meta(i).offset + k] = given[i + 1].v
        BY <1>6, <4>3, <4>4
      <4> QED BY <1>4, <3>2, <4>3, <4>5, <4>6 DEF InArena
    <3> QED BY <3>1, <3>2, <3>3, <3>4
  <2>2. /\ meta(c)' \in Meta /\ meta(c)'.size = given'[c + 1].size
        /\ meta(c)'.offset < 0 => InSlot(c)'
        /\ meta(c)'.offset >= 0 => InArena(c)'
    <3>1. ~(meta(c)'.offset < 0) BY <1>3, <1>8
    <3>2. InArena(c)'
      <4>1. meta(c)'.offset = off /\ meta(c)'.size = size BY <1>3, <1>8
      <4>2. given'[c + 1].v = v BY <1>5, <1>9
      <4>3. off + size <= spillLen' BY <1>4
      <4> QED BY <1>1, <1>4, <1>6, <4>1, <4>2, <4>3 DEF InArena
    <3> QED BY <1>3, <1>5, <1>8, <1>9, <3>1, <3>2
  <2> QED BY <1>12, <2>1, <2>2 DEF Stored
<1>15. Apart'
  <2>1. ASSUME NEW i \in 0 .. count' - 1, NEW j \in 0 .. count' - 1,
               i < j, meta(i)'.offset >= 0, meta(j)'.offset >= 0
        PROVE  meta(i)'.offset + meta(i)'.size <= meta(j)'.offset
    <3>1. i \in 0 .. count - 1 BY <1>5, <2>1
    <3>2. meta(i)' = meta(i) BY <1>8, <3>1
    <3>3. CASE j \in 0 .. count - 1
      <4>1. meta(j)' = meta(j) BY <1>8, <3>3
      <4> QED BY <2>1, <3>1, <3>2, <3>3, <4>1 DEF AInv, Apart
    <3>4. CASE j = c
      <4>1. /\ meta(i).offset \in Nat /\ meta(i).size \in Nat
            /\ meta(i).offset + meta(i).size <= spillLen
        BY <1>13, <2>1, <3>1, <3>2
      <4>2. spillLen \in Nat BY DEF AInv, TypeOK
      <4>3. meta(j)'.offset = off BY <1>3, <1>8, <3>4
      <4> QED BY <1>1, <3>2, <4>1, <4>2, <4>3
    <3> QED BY <1>12, <3>3, <3>4
  <2> QED BY <2>1 DEF Apart
<1>16. Cached' BY <1>4 DEF Cached
<1> QED BY <1>10, <1>11, <1>14, <1>15, <1>16 DEF AInv

\* What a write in place does to the caller's list.
LEMMA GivenAgain ==
  ASSUME AInv, NEW i \in 0 .. count - 1, NEW v \in Bytes,
         given' = [given EXCEPT ![i + 1].v = v]
  PROVE  /\ given' \in Seq([size : Nat, v : Bytes]) /\ Len(given') = count
         /\ given'[i + 1].v = v
         /\ \A j \in 0 .. count - 1 : given'[j + 1].size = given[j + 1].size
         /\ \A j \in 0 .. count - 1 : j # i => given'[j + 1] = given[j + 1]
<1>1. given \in Seq([size : Nat, v : Bytes]) /\ Len(given) = count /\ count \in Nat
  BY DEF AInv, Lists, TypeOK
<1>2. given \in [1 .. count -> [size : Nat, v : Bytes]] BY <1>1, SeqIsFunction
<1>3. \A j \in 0 .. count - 1 : j + 1 \in 1 .. count BY <1>1
<1>4. PICK a \in [size : Nat, v : Bytes] :
        a = [given[i + 1] EXCEPT !.v = v] /\ a.v = v /\ a.size = given[i + 1].size
  BY <1>2, <1>3
<1>5. PICK g : g = given'
  OBVIOUS
<1>6. g = [given EXCEPT ![i + 1] = a] BY <1>4, <1>5
<1>7. /\ g \in [1 .. count -> [size : Nat, v : Bytes]] /\ g[i + 1] = a
      /\ \A j \in 1 .. count : j # i + 1 => g[j] = given[j]
  BY <1>2, <1>3, <1>6
<1>8. g \in Seq([size : Nat, v : Bytes]) /\ Len(g) = count BY <1>1, <1>7, FunctionIsSeq
<1>9. ASSUME NEW j \in 0 .. count - 1, j # i PROVE g[j + 1] = given[j + 1]
  <2>1. j + 1 # i + 1 BY <1>9
  <2> QED BY <1>3, <1>7, <2>1
<1> QED BY <1>4, <1>5, <1>7, <1>8, <1>9

\* An argument in a slot is rewritten: no other argument is in that slot.
LEMMA WriteSlotStep ==
  ASSUME AInv, NEW i \in 0 .. count - 1, NEW v \in Bytes, write(i, v), meta(i).offset < 0
  PROVE  AInv'
<1> USE Constants
<1>1. PICK n \in Nat : n = meta(i).size /\ n <= slotBytes /\ i \in Index
  <2>1. count \in Nat /\ i \in Nat BY DEF AInv, TypeOK
  <2>2. meta(i) \in Meta /\ InSlot(i) BY DEF AInv, Stored
  <2>3. meta(i).size \in Nat BY <2>2 DEF Meta
  <2> QED BY <2>1, <2>2, <2>3 DEF InSlot
<1>2. /\ inlineValues' = [inlineValues EXCEPT ![i] = Written(inlineValues[i], 0, n, v)]
      /\ UNCHANGED <<spillBuf, count, inlinePointers, inlineMeta, overflowMeta, spillLen,
                     spillPointers, hasSpill, dirty>>
      /\ given' = [given EXCEPT ![i + 1].v = v]
  <2>1. meta(i).offset \in Int BY DEF AInv, Stored, Meta
  <2> QED BY <1>1, <2>1 DEF write, metas
<1>3. PICK s \in Seq(Bytes) : s = inlineValues[i] /\ DOMAIN s = 1 .. slotBytes
  BY <1>1 DEF AInv, TypeOK, Lists
<1>4. Len(s) = slotBytes BY <1>3
<1>5. PICK f \in Seq(Bytes) :
        /\ f = Written(s, 0, n, v) /\ DOMAIN f = 1 .. slotBytes
        /\ \A k \in 1 .. n : f[k] = v
  <2>1. n <= Len(s) BY <1>1, <1>4
  <2> HIDE Constants
  <2>2. Written(s, 0, n, v) \in Seq(Bytes) /\ DOMAIN Written(s, 0, n, v) = DOMAIN s
    BY <2>1, SlotWritten
  <2>3. \A k \in 1 .. n : Written(s, 0, n, v)[k] = v BY <2>1, SlotWritten
  <2> QED BY <1>3, <2>2, <2>3
<1>6. /\ inlineValues' \in [Index -> Seq(Bytes)] /\ inlineValues'[i] = f
      /\ \A j \in Index : j # i => inlineValues'[j] = inlineValues[j]
  <2>1. inlineValues' = [inlineValues EXCEPT ![i] = f] BY <1>2, <1>3, <1>5
  <2> QED BY <1>1, <2>1 DEF AInv, TypeOK
<1>7. /\ given' \in Seq([size : Nat, v : Bytes]) /\ Len(given') = count
      /\ given'[i + 1].v = v
      /\ \A j \in 0 .. count - 1 : given'[j + 1].size = given[j + 1].size
      /\ \A j \in 0 .. count - 1 : j # i => given'[j + 1] = given[j + 1]
  BY <1>2, GivenAgain
<1>8. ASSUME NEW j \in 0 .. count - 1 PROVE meta(j)' = meta(j) BY <1>2 DEF meta
<1>9. TypeOK' BY <1>2, <1>6 DEF AInv, TypeOK
<1>10. Lists'
  <2>1. \A j \in Index : DOMAIN inlineValues'[j] = 1 .. slotBytes
    BY <1>5, <1>6 DEF AInv, Lists
  <2> QED BY <1>2, <1>7, <2>1 DEF AInv, Lists
<1>11. Stored'
  <2>1. ASSUME NEW j \in 0 .. count - 1
        PROVE  /\ meta(j)' \in Meta /\ meta(j)'.size = given'[j + 1].size
               /\ meta(j)'.offset < 0 => InSlot(j)'
               /\ meta(j)'.offset >= 0 => InArena(j)'
    <3>1. /\ meta(j) \in Meta /\ meta(j).size = given[j + 1].size
          /\ meta(j).offset < 0 => InSlot(j)
          /\ meta(j).offset >= 0 => InArena(j)
      BY DEF AInv, Stored
    <3>2. meta(j)' = meta(j) /\ given'[j + 1].size = given[j + 1].size BY <1>7, <1>8
    <3>3. CASE j = i
      <4>1. InSlot(i) BY <3>1, <3>3
      <4>2. \A k \in 1 .. n : inlineValues'[i][k] = given'[i + 1].v BY <1>5, <1>6, <1>7
      <4>3. InSlot(i)' BY <1>1, <1>2, <1>8, <4>1, <4>2 DEF InSlot
      <4>4. ~(meta(i).offset >= 0) BY <3>1, <3>3 DEF Meta
      <4> QED BY <3>1, <3>2, <3>3, <4>3, <4>4
    <3>4. CASE j # i
      <4>1. given'[j + 1] = given[j + 1] BY <1>7, <3>4
      <4>2. j \in Nat BY DEF AInv, TypeOK
      <4>3. InSlot(j) => InSlot(j)' BY <1>2, <1>6, <3>2, <3>4, <4>1, <4>2 DEF InSlot
      <4>4. InArena(j) => InArena(j)' BY <1>2, <3>2, <4>1 DEF InArena
      <4> QED BY <3>1, <3>2, <4>3, <4>4
    <3> QED BY <3>3, <3>4
  <2> QED BY <1>2, <2>1 DEF Stored
<1>12. Apart' BY <1>2, <1>8 DEF AInv, Apart
<1>13. Cached' BY <1>2, <1>8 DEF AInv, Cached, ToSlot, ToArena
<1> QED BY <1>9, <1>10, <1>11, <1>12, <1>13 DEF AInv

\* An argument in the arena is rewritten: the stretches of the others keep
\* their bytes.
LEMMA RewriteFacts ==
  ASSUME spillBuf \in Seq(Bytes), NEW off \in Nat, NEW n \in Nat, NEW v \in Bytes,
         off + n <= Len(spillBuf), spillBuf' = Written(spillBuf, off, n, v)
  PROVE  /\ spillBuf' \in Seq(Bytes) /\ Len(spillBuf') = Len(spillBuf)
         /\ \A k \in 1 .. n : spillBuf'[off + k] = v
         /\ \A k \in 1 .. Len(spillBuf) : k <= off \/ off + n < k => spillBuf'[k] = spillBuf[k]
<1>1. PICK s \in Seq(Bytes) : s = spillBuf
  OBVIOUS
<1>2. PICK b : b = spillBuf'
  OBVIOUS
<1>3. b = Written(s, off, n, v) /\ off + n <= Len(s) BY <1>1, <1>2
<1>4. b \in Seq(Bytes) /\ Len(b) = Len(s) BY <1>3, WrittenFacts
<1>5. \A k \in 1 .. n : b[off + k] = v
  <2>1. ASSUME NEW k \in 1 .. n PROVE b[off + k] = v
    <3>1. off + k \in DOMAIN s /\ off + k \in off + 1 .. off + n BY <1>3
    <3> QED BY <1>3, <3>1 DEF Written
  <2> QED BY <2>1
<1>6. \A k \in 1 .. Len(s) : k <= off \/ off + n < k => b[k] = s[k]
  <2>1. ASSUME NEW k \in DOMAIN s, k <= off \/ off + n < k
        PROVE  Written(s, off, n, v)[k] = s[k]
    BY <2>1, WrittenElsewhere
  <2>2. DOMAIN s = 1 .. Len(s)
    OBVIOUS
  <2> QED BY <1>3, <2>1, <2>2
<1> QED BY <1>1, <1>2, <1>4, <1>5, <1>6

\* An argument in the arena is rewritten where it is.
LEMMA WriteArenaStep ==
  ASSUME AInv, NEW i \in 0 .. count - 1, NEW v \in Bytes, write(i, v), meta(i).offset >= 0
  PROVE  AInv'
<1>1. PICK len \in Nat : len = spillLen /\ len <= Len(spillBuf) /\ spillBuf \in Seq(Bytes)
  BY DEF AInv, TypeOK
<1>2. meta(i) \in Meta /\ InArena(i) BY DEF AInv, Stored
<1>3. PICK off \in Nat, n \in Nat : off = meta(i).offset /\ n = meta(i).size /\ off + n <= len
  <2>1. meta(i).offset \in Nat /\ meta(i).size \in Nat BY <1>2 DEF Meta
  <2> QED BY <1>1, <1>2, <2>1 DEF InArena
<1>4. /\ spillBuf' = Written(spillBuf, off, n, v)
      /\ UNCHANGED <<inlineValues, count, inlinePointers, inlineMeta, overflowMeta, spillLen,
                     spillPointers, hasSpill, dirty>>
      /\ given' = [given EXCEPT ![i + 1].v = v]
  <2>1. ~(meta(i).offset < 0) BY <1>3
  <2> QED BY <1>3, <2>1 DEF write, metas
<1>5. /\ spillBuf' \in Seq(Bytes) /\ Len(spillBuf') = Len(spillBuf)
      /\ \A k \in 1 .. n : spillBuf'[off + k] = v
      /\ \A k \in 1 .. Len(spillBuf) : k <= off \/ off + n < k => spillBuf'[k] = spillBuf[k]
  <2>1. Len(spillBuf) \in Nat BY <1>1
  <2>2. off + n <= Len(spillBuf) BY <1>1, <1>3, <2>1
  <2> QED BY <1>1, <1>4, <2>2, RewriteFacts
<1>6. /\ given' \in Seq([size : Nat, v : Bytes]) /\ Len(given') = count
      /\ given'[i + 1].v = v
      /\ \A j \in 0 .. count - 1 : given'[j + 1].size = given[j + 1].size
      /\ \A j \in 0 .. count - 1 : j # i => given'[j + 1] = given[j + 1]
  BY <1>4, GivenAgain
<1>7. ASSUME NEW j \in 0 .. count - 1 PROVE meta(j)' = meta(j) BY <1>4 DEF meta
<1>8. TypeOK' BY <1>4, <1>5 DEF AInv, TypeOK
<1>9. Lists' BY <1>4, <1>6 DEF AInv, Lists
<1>10. Stored'
  <2>1. ASSUME NEW j \in 0 .. count - 1
        PROVE  /\ meta(j)' \in Meta /\ meta(j)'.size = given'[j + 1].size
               /\ meta(j)'.offset < 0 => InSlot(j)'
               /\ meta(j)'.offset >= 0 => InArena(j)'
    <3>1. /\ meta(j) \in Meta /\ meta(j).size = given[j + 1].size
          /\ meta(j).offset < 0 => InSlot(j)
          /\ meta(j).offset >= 0 => InArena(j)
      BY DEF AInv, Stored
    <3>2. meta(j)' = meta(j) /\ given'[j + 1].size = given[j + 1].size BY <1>6, <1>7
    <3>3. CASE j = i
      <4>1. \A k \in 1 .. n : spillBuf'[off + k] = given'[i + 1].v BY <1>5, <1>6
      <4>2. InArena(i)' BY <1>2, <1>3, <1>4, <1>7, <4>1 DEF InArena
      <4>3. ~(meta(i).offset < 0) BY <1>3
      <4> QED BY <3>1, <3>2, <3>3, <4>2, <4>3
    <3>4. CASE j # i
      <4>1. given'[j + 1] = given[j + 1] BY <1>6, <3>4
      <4>2. InSlot(j) => InSlot(j)' BY <1>4, <3>2, <4>1 DEF InSlot
      <4>3. ASSUME meta(j).offset >= 0 PROVE InArena(j)'
        <5>1. PICK o \in Nat, z \in Nat : o = meta(j).offset /\ z = meta(j).size
          BY <3>1, <4>3 DEF Meta
        <5>2. o + z <= len /\ o % spillAlign = 0 /\ hasSpill
              /\ \A k \in 1 .. z : spillBuf[o + k] = given[j + 1].v
          BY <1>1, <3>1, <4>3, <5>1 DEF InArena
        <5>3. o + z <= off \/ off + n <= o
          <6>1. count \in Nat BY DEF AInv, TypeOK
          <6>2. i < j \/ j < i BY <3>4, <6>1
          <6>3. i < j => off + n <= o BY <1>3, <4>3, <5>1 DEF AInv, Apart
          <6>4. j < i => o + z <= off BY <1>3, <4>3, <5>1 DEF AInv, Apart
          <6> QED BY <6>2, <6>3, <6>4
        <5>4. ASSUME NEW k \in 1 .. z PROVE spillBuf'[o + k] = given[j + 1].v
          <6>1. Len(spillBuf) \in Nat BY <1>1
          <6>2. o + k \in 1 .. Len(spillBuf) BY <1>1, <5>2, <6>1
          <6>3. o + k <= off \/ off + n < o + k BY <5>3
          <6>4. spillBuf'[o + k] = spillBuf[o + k] BY <1>5, <6>2, <6>3
          <6> QED BY <5>2, <6>4
        <5> QED BY <1>1, <1>4, <3>2, <4>1, <5>1, <5>2, <5>4, ZenonT(60) DEF InArena
      <4> QED BY <3>1, <3>2, <4>2, <4>3
    <3> QED BY <3>3, <3>4
  <2> QED BY <1>4, <2>1 DEF Stored
<1>11. Apart' BY <1>4, <1>7 DEF AInv, Apart
<1>12. Cached' BY <1>4, <1>7 DEF AInv, Cached, ToSlot, ToArena
<1> QED BY <1>8, <1>9, <1>10, <1>11, <1>12 DEF AInv

\* Set and SetBytes.
LEMMA WriteStep ==
  ASSUME AInv, NEW i \in 0 .. MaxArgs - 1, i < count, NEW v \in Bytes, write(i, v)
  PROVE  AInv'
<1>1. i \in 0 .. count - 1
  <2>1. MaxArgs \in Nat /\ count \in Nat BY ArgPackAssumption DEF AInv, TypeOK
  <2> QED BY <2>1
<1>2. meta(i).offset < 0 \/ meta(i).offset >= 0 BY <1>1 DEF AInv, Stored, Meta
<1> QED BY <1>1, <1>2, WriteSlotStep, WriteArenaStep

\* Params builds the array from where the arguments are.
LEMMA ParamsStep ==
  ASSUME AInv, Params
  PROVE  AInv'
<1>1. UNCHANGED <<count, inlineValues, inlinePointers, inlineMeta, overflowMeta, spillBuf,
                  spillLen, hasSpill, given>> /\ dirty' = FALSE
  BY DEF Params, slots, metas, arena
<1>2. ASSUME NEW j \in 0 .. count - 1 PROVE meta(j)' = meta(j) BY <1>1 DEF meta
<1>3. PICK n \in Nat : n = count BY DEF AInv, TypeOK
<1>4. PICK f : f = spillPointers'
  OBVIOUS
<1>5. f = [i \in 1 .. n |-> IF meta(i - 1).offset < 0 THEN inlinePointers[i - 1]
                            ELSE ToArena(meta(i - 1).offset)]
  BY <1>3, <1>4 DEF Params
<1>6. ASSUME NEW i \in 1 .. n
      PROVE  /\ f[i] = IF meta(i - 1).offset < 0 THEN ToSlot(i - 1)
                       ELSE ToArena(meta(i - 1).offset)
             /\ f[i] \in Pointer
  <2>1. PICK j \in 0 .. count - 1 : j = i - 1 /\ j \in Nat BY <1>3
  <2>2. f[i] = IF meta(j).offset < 0 THEN inlinePointers[j] ELSE ToArena(meta(j).offset)
    BY <1>5, <2>1
  <2>3. meta(j) \in Meta /\ (meta(j).offset < 0 => inlinePointers[j] = ToSlot(j))
    BY DEF AInv, Stored, InSlot
  <2>4. meta(j).offset \in Int BY <2>3 DEF Meta
  <2>5. ToSlot(j) \in Pointer BY <2>1 DEF ToSlot, Pointer
  <2>6. meta(j).offset >= 0 => ToArena(meta(j).offset) \in Pointer
    BY <2>4 DEF ToArena, Pointer
  <2>7. CASE meta(j).offset < 0 BY <2>1, <2>2, <2>3, <2>5, <2>7
  <2>8. CASE ~(meta(j).offset < 0)
    <3>1. meta(j).offset >= 0 BY <2>4, <2>8
    <3> QED BY <2>1, <2>2, <2>6, <2>8, <3>1
  <2> QED BY <2>7, <2>8
<1>7. f \in Seq(Pointer) /\ DOMAIN f = 1 .. n
  <2>1. f \in [1 .. n -> Pointer] BY <1>5, <1>6
  <2> QED BY <2>1, FunctionIsSeq
<1>8. TypeOK' BY <1>1, <1>4, <1>7 DEF AInv, TypeOK
<1>9. Lists' BY <1>1 DEF AInv, Lists
<1>10. Stored'
  <2>1. ASSUME NEW j \in 0 .. count - 1
        PROVE  /\ meta(j)' \in Meta /\ meta(j)'.size = given'[j + 1].size
               /\ meta(j)'.offset < 0 => InSlot(j)'
               /\ meta(j)'.offset >= 0 => InArena(j)'
    <3>1. InSlot(j) => InSlot(j)' BY <1>1, <1>2 DEF InSlot
    <3>2. InArena(j) => InArena(j)' BY <1>1, <1>2 DEF InArena
    <3> QED BY <1>1, <1>2, <3>1, <3>2 DEF AInv, Stored
  <2> QED BY <1>1, <2>1 DEF Stored
<1>11. Apart' BY <1>1, <1>2 DEF AInv, Apart
<1>12. Cached'
  <2>1. ASSUME NEW j \in 0 .. count - 1
        PROVE  spillPointers'[j + 1] = IF meta(j)'.offset < 0 THEN ToSlot(j)
                                       ELSE ToArena(meta(j)'.offset)
    <3>1. j + 1 \in 1 .. n /\ (j + 1) - 1 = j BY <1>3
    <3>2. f[j + 1] = IF meta(j).offset < 0 THEN ToSlot(j) ELSE ToArena(meta(j).offset)
      BY <1>6, <3>1
    <3> QED BY <1>2, <1>4, <3>2
  <2>2. DOMAIN spillPointers' = 1 .. count' BY <1>1, <1>3, <1>4, <1>7
  <2> QED BY <1>1, <2>1, <2>2 DEF Cached, ToSlot, ToArena
<1> QED BY <1>8, <1>9, <1>10, <1>11, <1>12 DEF AInv

\* Reset keeps storage but no argument.
LEMMA ResetStep ==
  ASSUME AInv, Reset
  PROVE  AInv'
<1> USE Constants
<1>1. /\ count' = 0 /\ hasSpill' = FALSE /\ dirty' = FALSE /\ spillLen' = 0
      /\ spillPointers' = <<>> /\ overflowMeta' = <<>> /\ given' = <<>>
      /\ UNCHANGED <<inlineValues, inlinePointers, inlineMeta>>
  BY DEF Reset, slots
<1>2. spillBuf' \in Seq(Bytes)
  <2>1. spillBuf' = <<>> \/ spillBuf' = spillBuf BY DEF Reset
  <2>2. spillBuf \in Seq(Bytes) BY DEF AInv, TypeOK
  <2>3. <<>> \in Seq(Bytes) OBVIOUS
  <2> QED BY <2>1, <2>2, <2>3
<1>3. spillLen' \in 0 .. Len(spillBuf') BY <1>1, <1>2
<1>4. /\ overflowMeta' \in Seq(Meta) /\ spillPointers' \in Seq(Pointer)
      /\ given' \in Seq([size : Nat, v : Bytes])
      /\ Len(overflowMeta') = 0 /\ Len(given') = 0
  BY <1>1
<1>5. TypeOK'
  <2>1. count' \in Nat BY <1>1
  <2>2. hasSpill' \in BOOLEAN /\ dirty' \in BOOLEAN BY <1>1
  <2>3. /\ inlineValues' \in [Index -> Seq(Bytes)] /\ inlinePointers' \in [Index -> Pointer]
        /\ inlineMeta' \in [Index -> Meta]
    BY <1>1 DEF AInv, TypeOK
  <2> QED BY <1>2, <1>3, <1>4, <2>1, <2>2, <2>3 DEF TypeOK
<1>6. Lists'
  <2>1. \A i \in Index : DOMAIN inlineValues'[i] = 1 .. slotBytes BY <1>1 DEF AInv, Lists
  <2> QED BY <1>1, <1>4, <2>1 DEF Lists
<1>7. Stored' /\ Apart'
  <2>1. 0 .. count' - 1 = {} BY <1>1
  <2> QED BY <2>1 DEF Stored, Apart
<1>8. Cached' BY <1>1 DEF Cached
<1> QED BY <1>5, <1>6, <1>7, <1>8 DEF AInv

\* Add and AddBytes.
LEMMA AddStep ==
  ASSUME AInv, NEW size \in Nat \ {0}, NEW typ \in Types \cup {Raw}, NEW v \in Bytes,
         add(size, typ, v)
  PROVE  AInv'
<1>1. count' = count + 1 /\ given' = Append(given, [size |-> size, v |-> v])
  BY DEF add
<1>2. AddInline(size, typ, v) \/ AddSpill(size, typ, v) BY DEF add
<1> QED BY <1>1, <1>2, AddInlineStep, AddSpillStep

\* The invariant is inductive.
LEMMA NextInv == AInv /\ [Next]_vars => AInv'
<1> SUFFICES ASSUME AInv, [Next]_vars PROVE AInv'
  OBVIOUS
<1>1. ASSUME NEW v \in Bytes, NEW t \in Types, Add(t, v) PROVE AInv'
  <2>1. SizeOf[t] \in Nat \ {0} BY Constants
  <2> QED BY <1>1, <2>1, AddStep DEF Add
<1>2. ASSUME NEW v \in Bytes, NEW n \in RawSizes, AddBytes(n, v) PROVE AInv'
  <2>1. n \in Nat \ {0} BY Constants
  <2> QED BY <1>2, <2>1, AddStep DEF AddBytes
<1>3. ASSUME NEW v \in Bytes, NEW i \in 0 .. MaxArgs - 1, NEW t \in Types, Set(i, t, v)
      PROVE  AInv'
  BY <1>3, WriteStep DEF Set
<1>4. ASSUME NEW v \in Bytes, NEW i \in 0 .. MaxArgs - 1, NEW n \in RawSizes, SetBytes(i, n, v)
      PROVE  AInv'
  BY <1>4, WriteStep DEF SetBytes
<1>5. CASE Params BY <1>5, ParamsStep
<1>6. CASE Reset BY <1>6, ResetStep
<1>7. CASE UNCHANGED vars
  <2>1. UNCHANGED <<count, inlineValues, inlinePointers, inlineMeta, overflowMeta, spillBuf,
                    spillLen, spillPointers, hasSpill, dirty, given>>
    BY <1>7 DEF vars, slots, metas, arena
  <2>2. TypeOK' /\ Lists' BY <2>1 DEF AInv, TypeOK, Lists
  <2>3. Stored' /\ Apart' BY <2>1 DEF AInv, Stored, Apart, meta, InSlot, InArena
  <2>4. Cached' BY <2>1 DEF AInv, Cached, meta
  <2> QED BY <2>2, <2>3, <2>4 DEF AInv
<1> QED BY <1>1, <1>2, <1>3, <1>4, <1>5, <1>6, <1>7 DEF Next

----------------------------------------------------------------------------
(* The theorems.                                                           *)

\* Where argument i is.
Place(i) == IF meta(i).offset < 0 THEN ToSlot(i) ELSE ToArena(meta(i).offset)

\* The argument is read through a pointer to its place.
LEMMA PlaceHolds ==
  ASSUME AInv, NEW i \in 0 .. count - 1
  PROVE  Holds(Storage(Place(i)), given[i + 1])
<1> USE Constants
<1>1. /\ meta(i) \in Meta /\ meta(i).size = given[i + 1].size
      /\ meta(i).offset < 0 => InSlot(i)
      /\ meta(i).offset >= 0 => InArena(i)
  BY DEF AInv, Stored
<1>2. PICK size \in Nat, off \in Int : size = meta(i).size /\ off = meta(i).offset
  BY <1>1 DEF Meta
<1>3. CASE off < 0
  <2>1. InSlot(i) /\ i \in Nat BY <1>1, <1>2, <1>3 DEF AInv, TypeOK
  <2>2. i \in Index BY <2>1 DEF InSlot
  <2>3. PICK s \in Seq(Bytes) : s = inlineValues[i] /\ Len(s) = slotBytes
    BY <2>2 DEF AInv, TypeOK, Lists
  <2>4. Storage(Place(i)) = s BY <1>2, <1>3, <2>3 DEF Place, Storage, ToSlot
  <2>5. size <= slotBytes /\ \A k \in 1 .. size : s[k] = given[i + 1].v
    BY <1>2, <2>1, <2>3 DEF InSlot
  <2> QED BY <1>1, <1>2, <2>3, <2>4, <2>5 DEF Holds
<1>4. CASE ~(off < 0)
  <2>1. off \in Nat /\ InArena(i) BY <1>1, <1>2, <1>4
  <2>2. /\ off + size <= spillLen
        /\ \A k \in 1 .. size : spillBuf[off + k] = given[i + 1].v
    BY <1>2, <2>1 DEF InArena
  <2>3. Storage(Place(i)) = SubSeq(spillBuf, off + 1, spillLen)
    BY <1>2, <1>4 DEF Place, Storage, ToArena
  <2>4. spillBuf \in Seq(Bytes) /\ spillLen \in 0 .. Len(spillBuf) BY DEF AInv, TypeOK
  <2>5. PICK s : s = SubSeq(spillBuf, off + 1, spillLen)
    OBVIOUS
  <2>6. Len(s) >= size /\ \A k \in 1 .. size : s[k] = spillBuf[off + k]
    BY <2>1, <2>2, <2>4, <2>5, FromThere
  <2>7. \A k \in 1 .. size : s[k] = given[i + 1].v BY <2>2, <2>6
  <2> QED BY <1>1, <1>2, <2>3, <2>5, <2>6, <2>7 DEF Holds
<1> QED BY <1>3, <1>4

\* Every argument has storage of its own, in a slot or at an aligned offset of
\* the arena, and a pointer array that is not dirty leads there.
THEOREM ArgumentsStored == Spec => []AInv
BY InitInv, NextInv, PTL DEF Spec

\* Builder keeps every argument's value and size through later arguments,
\* moves of the arena, updates of others and reuse after Reset.
THEOREM ValuesSurvive == Spec => []ValuesKept
<1>1. AInv => ValuesKept
  <2> SUFFICES ASSUME AInv PROVE ValuesKept
    OBVIOUS
  <2>1. TypeOK BY DEF AInv
  <2>2. ASSUME NEW i \in 0 .. count - 1
        PROVE  /\ meta(i).size = given[i + 1].size
               /\ Holds(Storage(IF meta(i).offset < 0 THEN ToSlot(i)
                                ELSE ToArena(meta(i).offset)), given[i + 1])
    <3>1. Holds(Storage(Place(i)), given[i + 1]) BY PlaceHolds
    <3> QED BY <3>1 DEF AInv, Stored, Place
  <2> QED BY <2>1, <2>2 DEF ValuesKept
<1> QED BY <1>1, ArgumentsStored, PTL

\* What Params hands to the driver leads to the arguments as last given, also
\* when it trusts the array it built before: never into an arena that was moved
\* away, and always aligned.
THEOREM ParamsLeadToArguments == Spec => []DriverSeesArguments
<1>1. AInv => DriverSeesArguments
  <2> USE Constants
  <2> SUFFICES ASSUME AInv, count > 0, hasSpill => ~dirty, NEW i \in 1 .. count
               PROVE  /\ i \in DOMAIN ParamArray
                      /\ Holds(Storage(ParamArray[i]), given[i])
                      /\ ParamArray[i].to = "arena" => ParamArray[i].at % spillAlign = 0
    BY DEF DriverSeesArguments
  <2>1. PICK j \in 0 .. count - 1 : j = i - 1 /\ i = j + 1 /\ j \in Nat
    <3>1. count \in Nat BY DEF AInv, TypeOK
    <3>2. i - 1 \in 0 .. count - 1 /\ i - 1 \in Nat /\ i = (i - 1) + 1 BY <3>1
    <3> QED BY <3>2
  <2>2. /\ meta(j) \in Meta /\ (meta(j).offset < 0 => InSlot(j))
        /\ (meta(j).offset >= 0 => InArena(j))
    BY DEF AInv, Stored
  <2>3. meta(j).offset \in Int BY <2>2 DEF Meta
  <2>4. i \in DOMAIN ParamArray /\ ParamArray[i] = Place(j)
    <3>1. CASE hasSpill
      <4>1. ParamArray = spillPointers BY <3>1 DEF ParamArray
      <4> QED BY <2>1, <3>1, <4>1 DEF AInv, Cached, Place
    <3>2. CASE ~hasSpill
      <4>1. meta(j).offset < 0 /\ InSlot(j) BY <2>2, <2>3, <3>2 DEF InArena
      <4>2. j < inlineArgs /\ inlinePointers[j] = Place(j) BY <4>1 DEF InSlot, Place
      <4>3. i \in 1 .. inlineArgs BY <2>1, <4>2
      <4>4. ParamArray = [k \in 1 .. inlineArgs |-> inlinePointers[k - 1]]
        BY <3>2 DEF ParamArray
      <4> QED BY <2>1, <4>2, <4>3, <4>4
    <3> QED BY <3>1, <3>2
  <2>5. Holds(Storage(Place(j)), given[i]) BY <2>1, PlaceHolds
  <2>6. ASSUME Place(j).to = "arena" PROVE Place(j).at % spillAlign = 0
    <3>1. ~(meta(j).offset < 0) BY <2>6 DEF Place, ToSlot
    <3>2. InArena(j) BY <2>2, <2>3, <3>1
    <3> QED BY <3>1, <3>2 DEF Place, ToArena, InArena
  <2> QED BY <2>4, <2>5, <2>6
<1> QED BY <1>1, ArgumentsStored, PTL

=============================================================================
