---------------------------- MODULE RangesProofs ----------------------------
(***************************************************************************)
(* The arithmetic of Ranges for machine integers of any width, and any     *)
(* number of allocations.  First facts of integers (division, remainder,   *)
(* products), then what each helper of the code computes, in unbounded     *)
(* arithmetic; then the invariant, which says for each kind of allocation  *)
(* how its size follows from the dimensions its wrapper remembers.         *)
(***************************************************************************)
EXTENDS Ranges, TLAPS

----------------------------------------------------------------------------
(* Integers.                                                               *)

\* A bound on a quotient is a bound on a product.
LEMMA QuotientBound ==
  ASSUME NEW a \in Nat, NEW b \in Nat \ {0}, NEW c \in Nat
  PROVE  c <= a \div b <=> c * b <= a
  OBVIOUS

\* The quotient and the remainder of q * b + r.
LEMMA DivMod ==
  ASSUME NEW b \in Nat \ {0}, NEW q \in Nat, NEW r \in 0 .. b - 1
  PROVE  (q * b + r) \div b = q /\ (q * b + r) % b = r
  OBVIOUS

\* Every number is of that form.
LEMMA Divided ==
  ASSUME NEW a \in Nat, NEW b \in Nat \ {0}
  PROVE  \E q \in Nat, r \in 0 .. b - 1 : a = q * b + r
<1>1. b * (a \div b) <= a /\ a < b * (a \div b) + b
  OBVIOUS
<1>2. a \div b \in Nat
  OBVIOUS
<1>3. PICK q \in Nat : b * q <= a /\ a < b * q + b
  BY <1>1, <1>2
<1>4. a - q * b \in 0 .. b - 1 /\ a = q * b + (a - q * b) BY <1>3
<1> QED BY <1>4

\* Products of positive numbers.
LEMMA Product ==
  ASSUME NEW a \in Nat \ {0}, NEW b \in Nat \ {0}
  PROVE  a * b \in Nat \ {0} /\ a <= a * b /\ b <= a * b
  OBVIOUS

\* Products keep the order.
LEMMA Monotone ==
  ASSUME NEW a \in Int, NEW b \in Int, NEW c \in Nat, a <= b
  PROVE  a * c <= b * c
  OBVIOUS

\* Products can be regrouped.
LEMMA Regroup ==
  ASSUME NEW a \in Int, NEW b \in Int, NEW c \in Int
  PROVE  (a * b) * c = a * (b * c) /\ a * b = b * a /\ (a + b) * c = a * c + b * c
  OBVIOUS

----------------------------------------------------------------------------
(* Machine integers.                                                       *)

\* The widths.
LEMMA Widths ==
  /\ MaxInt \in Nat \ {0} /\ MaxUint32 \in Nat \ {0} /\ MaxUint32 <= MaxInt
  /\ MaxUint64 \in Nat /\ MaxUint64 = 2 * MaxInt + 1 /\ Word = MaxUint64 + 1
  /\ GoInt \subseteq Int /\ \A x \in Int : x \in GoInt <=> -MaxInt - 1 <= x /\ x <= MaxInt
  BY RangesAssumption DEF MaxUint64, Word, GoInt

\* What fits is not changed by a conversion or by wrap-around.
LEMMA Fits ==
  /\ \A x \in Nat : x <= MaxUint64 => U(x) = x
  /\ \A x \in Nat : x <= MaxInt => U(x) = x
  /\ \A x \in Int : -MaxInt - 1 <= x /\ x <= MaxInt => I(x) = x
<1>1. ASSUME NEW x \in Nat, x <= MaxUint64 PROVE U(x) = x BY <1>1, Widths DEF U
<1>2. \A x \in Nat : x <= MaxInt => x <= MaxUint64 BY Widths
<1>3. ASSUME NEW x \in Int, -MaxInt - 1 <= x, x <= MaxInt PROVE I(x) = x
  <2>1. (x + MaxInt + 1) % Word = x + MaxInt + 1 BY <1>3, Widths
  <2> QED BY <2>1, Widths DEF I
<1> QED BY <1>1, <1>2, <1>3

\* An element has a size.
LEMMA Sizes == \A size \in ElemSizes : size \in Nat \ {0}
  BY RangesAssumption

\* The check in front of an allocation is exact, and what it lets through is
\* computed without wrap-around.
LEMMA SizeExact ==
  ASSUME NEW size \in ElemSizes, NEW n \in GoInt
  PROVE  /\ SizeOK(n, size) <=> n > 0 /\ n * size <= MaxUint64
         /\ SizeOK(n, size) => Bytes(n, size) = n * size
<1> USE Widths, Sizes
<1>1. CASE n <= 0 BY <1>1 DEF SizeOK
<1>2. CASE n > 0
  <2>1. n \in Nat \ {0} /\ U(n) = n BY <1>2, Fits
  <2>2. n <= MaxUint64 \div size <=> n * size <= MaxUint64 BY <2>1, QuotientBound
  <2>3. n * size \in Nat BY <2>1
  <2>4. n * size <= MaxUint64 => U(n * size) = n * size BY <2>3, Fits
  <2> QED BY <1>2, <2>1, <2>2, <2>4 DEF SizeOK, Bytes
<1> QED BY <1>1, <1>2

\* The bytes of a length whose product fits.
LEMMA BytesExact ==
  ASSUME NEW size \in ElemSizes, NEW n \in Nat, n <= MaxInt, n * size <= MaxUint64
  PROVE  Bytes(n, size) = n * size /\ n * size \in Nat
<1>1. U(n) = n BY Fits
<1>2. n * size \in Nat BY Sizes
<1> QED BY <1>1, <1>2, Fits DEF Bytes

\* roundUp gives the least multiple, or says that it does not fit.
LEMMA RoundUpExact ==
  ASSUME NEW v \in 0 .. MaxUint64, NEW mult \in 1 .. MaxUint64
  PROVE  /\ Multiple(v, mult) \in Nat /\ v <= Multiple(v, mult)
         /\ roundUp(v, mult) = IF Multiple(v, mult) <= MaxUint64
                               THEN [size |-> Multiple(v, mult), ok |-> TRUE]
                               ELSE [size |-> 0, ok |-> FALSE]
<1> USE Widths
<1>1. v \in Nat /\ mult \in Nat \ {0} /\ v <= MaxUint64
  OBVIOUS
<1>2. PICK q \in Nat, r \in 0 .. mult - 1 : v = q * mult + r BY <1>1, Divided
<1>3. v % mult = r BY <1>1, <1>2, DivMod
<1>4. q * mult \in Nat BY <1>1
<1>5. CASE r = 0
  <2>1. mult - 1 \in 0 .. mult - 1 /\ v + mult - 1 = q * mult + (mult - 1)
    BY <1>1, <1>2, <1>4, <1>5
  <2>2. (v + mult - 1) \div mult = q BY <1>1, <2>1, DivMod
  <2>3. Multiple(v, mult) = v BY <1>1, <1>2, <1>4, <1>5, <2>2, Regroup DEF Multiple
  <2> QED BY <1>1, <1>3, <1>5, <2>3 DEF roundUp
<1>6. CASE r # 0
  <2>1. r - 1 \in 0 .. mult - 1 /\ q + 1 \in Nat BY <1>1, <1>6
  <2>2. (q + 1) * mult = q * mult + mult BY <1>1
  <2>3. v + mult - 1 = (q + 1) * mult + (r - 1) BY <1>1, <1>2, <1>4, <2>2
  <2>4. (v + mult - 1) \div mult = q + 1 BY <1>1, <2>1, <2>3, DivMod
  <2>5. Multiple(v, mult) = v + (mult - r)
    BY <1>1, <1>2, <1>4, <2>2, <2>4, Regroup DEF Multiple
  <2>6. mult - r \in Nat \ {0} /\ v + (mult - r) \in Nat BY <1>1, <1>6
  <2>7. mult - r > MaxUint64 - v <=> ~(v + (mult - r) <= MaxUint64) BY <1>1, <2>6
  <2>8. v + (mult - r) <= MaxUint64 => U(v + (mult - r)) = v + (mult - r)
    BY <2>6, Fits
  <2>9. roundUp(v, mult) = IF mult - r > MaxUint64 - v THEN [size |-> 0, ok |-> FALSE]
                           ELSE [size |-> U(v + (mult - r)), ok |-> TRUE]
    BY <1>3, <1>6 DEF roundUp
  <2>10. v <= v + (mult - r) BY <1>1, <2>6
  <2> HIDE DEF roundUp, Multiple
  <2> QED BY <2>5, <2>6, <2>7, <2>8, <2>9, <2>10
<1> QED BY <1>5, <1>6

\* A launch of n threads in blocks: the least number of blocks, if there can
\* be so many.
LEMMA LaunchExact ==
  ASSUME NEW n \in GoInt, NEW block \in GoInt
  PROVE  LET cfg == LaunchConfig1D(n, block)
         IN  /\ valid(cfg) <=> /\ n > 0 /\ block \in 1..MaxUint32
                               /\ n <= block * MaxUint32
             /\ valid(cfg) => /\ cfg[2] = block
                              /\ cfg[1] * block >= n /\ (cfg[1] - 1) * block < n
<1> USE Widths
<1>1. CASE n <= 0 \/ block <= 0 BY <1>1 DEF LaunchConfig1D, valid
<1>2. CASE n > 0 /\ block > 0
  <2>1. n \in Nat \ {0} /\ block \in Nat \ {0} /\ U(n) = n /\ U(block) = block
    BY <1>2, Fits
  <2>2. U(U(n) + U(block) - 1) = n + block - 1
    <3>1. n + block - 1 \in Nat /\ n + block - 1 <= MaxUint64 BY <2>1
    <3> QED BY <2>1, <3>1, Fits
  <2>3. PICK grid \in Nat : grid = (n + block - 1) \div block BY <2>1
  <2>4. block * grid <= n + block - 1 /\ n + block - 1 < block * grid + block
    BY <2>1, <2>3
  <2>5. grid # 0 BY <2>1, <2>4
  <2>6. grid * block >= n /\ (grid - 1) * block < n
    <3>1. grid * block = block * grid /\ (grid - 1) * block = block * grid - block
      BY <2>1
    <3>2. block * grid \in Nat BY <2>1
    <3> QED BY <2>1, <2>4, <3>1, <3>2
  <2>7. grid <= MaxUint32 <=> n <= block * MaxUint32
    <3>1. ASSUME grid <= MaxUint32 PROVE n <= block * MaxUint32
      <4>1. grid * block <= MaxUint32 * block BY <2>1, <3>1, Monotone
      <4>2. MaxUint32 * block = block * MaxUint32 /\ block * MaxUint32 \in Nat
            /\ grid * block \in Nat
        BY <2>1
      <4> QED BY <2>1, <2>6, <4>1, <4>2
    <3>2. ASSUME grid > MaxUint32 PROVE n > block * MaxUint32
      <4>1. MaxUint32 * block <= (grid - 1) * block BY <2>1, <3>2, Monotone
      <4>2. MaxUint32 * block = block * MaxUint32 /\ block * MaxUint32 \in Nat
            /\ (grid - 1) * block \in Int
        BY <2>1
      <4> QED BY <2>1, <2>6, <4>1, <4>2
    <3> QED BY <3>1, <3>2, <2>1
  <2>8. LaunchConfig1D(n, block) = IF block > MaxUint32 \/ grid > MaxUint32 THEN <<0, 0>>
                                   ELSE <<grid, block>>
    BY <1>2, <2>1, <2>2, <2>3, <2>5 DEF LaunchConfig1D
  <2> HIDE DEF LaunchConfig1D
  <2> QED BY <1>2, <2>1, <2>5, <2>6, <2>7, <2>8 DEF valid
<1> QED BY <1>1, <1>2

\* Whether a product of two dimensions fits an int.
LEMMA Area ==
  ASSUME NEW w \in Nat \ {0}, NEW h \in Nat \ {0}
  PROVE  /\ w <= MaxInt \div h <=> w * h <= MaxInt
         /\ w * h <= MaxInt => I(w * h) = w * h
         /\ w * h \in Nat \ {0} /\ w <= w * h /\ h <= w * h
<1> USE Widths
<1>1. w <= MaxInt \div h <=> w * h <= MaxInt BY QuotientBound
<1>2. w * h \in Nat \ {0} /\ w <= w * h /\ h <= w * h BY Product
<1>3. w * h <= MaxInt => I(w * h) = w * h
  <2>1. -MaxInt - 1 <= w * h BY <1>2
  <2> QED BY <1>2, <2>1, Fits
<1> QED BY <1>1, <1>2, <1>3

\* Three dimensions that fit an int, and the products of two of them.
LEMMA Space ==
  ASSUME NEW w \in Nat \ {0}, NEW h \in Nat \ {0}, NEW d \in Nat \ {0}
  PROVE  /\ (w <= MaxInt \div h /\ I(w * h) <= MaxInt \div d) <=> w * h * d <= MaxInt
         /\ w * h * d <= MaxInt => U(U(h) * U(d)) = h * d
         /\ w * h * d = w * (h * d) /\ w * h * d \in Nat \ {0}
         /\ h * d \in Nat \ {0} /\ w <= w * h * d
<1> USE Widths
<1>1. w * h \in Nat \ {0} /\ h * d \in Nat \ {0} BY Product
<1>2. w * h * d = w * (h * d) /\ w * h * d \in Nat \ {0} BY <1>1, Regroup, Product
<1>3. w <= w * h * d /\ h * d <= w * h * d /\ w * h <= w * h * d
  <2>1. w <= w * (h * d) /\ h * d <= w * (h * d) BY <1>1, Product
  <2>2. w * h <= (w * h) * d BY <1>1, Product
  <2> QED BY <1>2, <2>1, <2>2
<1>4. h <= h * d /\ d <= h * d BY Product
<1>5. ASSUME w <= MaxInt \div h, I(w * h) <= MaxInt \div d PROVE w * h * d <= MaxInt
  <2>1. I(w * h) = w * h BY <1>5, Area
  <2> QED BY <1>1, <1>5, <2>1, QuotientBound
<1>6. ASSUME w * h * d <= MaxInt
      PROVE  /\ w <= MaxInt \div h /\ I(w * h) <= MaxInt \div d
             /\ U(U(h) * U(d)) = h * d
  <2>1. w * h <= MaxInt /\ h * d <= MaxInt /\ h <= MaxInt /\ d <= MaxInt
    BY <1>1, <1>2, <1>3, <1>4, <1>6
  <2>2. w <= MaxInt \div h /\ I(w * h) = w * h BY <2>1, Area
  <2>3. w * h <= MaxInt \div d BY <1>1, <1>6, QuotientBound
  <2>4. U(h) = h /\ U(d) = d /\ U(h * d) = h * d BY <1>1, <2>1, Fits
  <2> QED BY <2>2, <2>3, <2>4
<1> QED BY <1>1, <1>2, <1>3, <1>5, <1>6

\* The number of elements that elements() computes.
LEMMA Elements ==
  ASSUME NEW w \in Nat \ {0}, NEW h \in Nat \ {0}, NEW d \in Nat \ {0}, w * h * d <= MaxInt
  PROVE  I(I(w * h) * d) = w * h * d
<1> USE Widths
<1>1. w * h \in Nat \ {0} /\ w * h <= (w * h) * d /\ w * h * d \in Nat \ {0} BY Product
<1>2. w * h <= MaxInt BY <1>1
<1>3. I(w * h) = w * h BY <1>2, Area
<1>4. -MaxInt - 1 <= w * h * d BY <1>1
<1> QED BY <1>1, <1>3, <1>4, Fits

\* A volume is refused exactly when its elements or its bytes cannot be counted.
LEMMA VolumeExact ==
  ASSUME NEW size \in ElemSizes, NEW w \in GoInt, NEW h \in GoInt, NEW d \in GoInt
  PROVE  VolumeOK(w, h, d, size) <=> /\ w > 0 /\ h > 0 /\ d > 0
                                     /\ w * h * d <= MaxInt
                                     /\ w * h * d * size <= MaxUint64
<1> USE Widths, Sizes
<1>1. CASE ~(w > 0 /\ h > 0 /\ d > 0) BY <1>1 DEF VolumeOK
<1>2. CASE w > 0 /\ h > 0 /\ d > 0
  <2>1. w \in Nat \ {0} /\ h \in Nat \ {0} /\ d \in Nat \ {0} BY <1>2
  <2>2. U(w) = w /\ w <= MaxInt BY <2>1, Fits
  <2>3. /\ (w <= MaxInt \div h /\ I(w * h) <= MaxInt \div d) <=> w * h * d <= MaxInt
        /\ w * h * d <= MaxInt => U(U(h) * U(d)) = h * d
        /\ w * h * d = w * (h * d) /\ h * d \in Nat \ {0}
    BY <2>1, Space
  <2>4. U(w) <= MaxUint64 \div size <=> w * size <= MaxUint64 BY <2>1, <2>2, QuotientBound
  <2>5. w * size \in Nat \ {0} BY <2>1, Product
  <2>6. w * h * d * size = (w * size) * (h * d)
    <3>1. PICK k \in Nat \ {0} : k = h * d BY <2>3
    <3>2. (w * k) * size = (w * size) * k BY <2>1
    <3> QED BY <2>3, <3>1, <3>2
  <2>7. w * size <= (w * size) * (h * d) /\ (w * size) * (h * d) \in Nat
    BY <2>3, <2>5, Product
  <2>8. w * size <= MaxUint64 => Bytes(w, size) = w * size BY <2>1, <2>2, BytesExact
  <2>9. w * size <= MaxUint64 \div (h * d) <=> (w * size) * (h * d) <= MaxUint64
    BY <2>3, <2>5, QuotientBound
  <2>10. ASSUME VolumeOK(w, h, d, size)
         PROVE  w * h * d <= MaxInt /\ w * h * d * size <= MaxUint64
    BY <2>3, <2>4, <2>6, <2>8, <2>9, <2>10 DEF VolumeOK
  <2>11. ASSUME w * h * d <= MaxInt, w * h * d * size <= MaxUint64
         PROVE  VolumeOK(w, h, d, size)
    <3>1. w * size <= MaxUint64 BY <2>5, <2>6, <2>7, <2>11
    <3> QED BY <1>2, <2>3, <2>4, <2>6, <2>8, <2>9, <2>11, <3>1 DEF VolumeOK
  <2> QED BY <1>2, <2>10, <2>11
<1> QED BY <1>1, <1>2

\* An array is refused exactly when its elements cannot be counted.
LEMMA ArrayExact ==
  ASSUME NEW size \in ElemSizes, NEW w \in GoInt, NEW h \in GoInt
  PROVE  ArrayOK(w, h, size) <=> w > 0 /\ h > 0 /\ w * h <= MaxInt /\ size # 8
<1>1. w > 0 /\ h > 0 => (w <= MaxInt \div h <=> w * h <= MaxInt)
  BY Widths, QuotientBound
<1> QED BY <1>1, Widths DEF ArrayOK

\* The range check does not wrap around for a window of positive length.
LEMMA RangeExact ==
  ASSUME NEW length \in GoInt, length > 0, NEW off \in GoInt, NEW n \in GoInt
  PROVE  InRange(off, n, length) <=> off >= 0 /\ n > 0 /\ off + n <= length
<1>1. n > 0 => I(length - n) = length - n BY Widths, Fits
<1> QED BY <1>1, Widths DEF InRange

----------------------------------------------------------------------------
(* The invariant.                                                          *)

Kinds == {"none", "closed", "linear", "virtual", "pitched", "volume", "array", "global"}

Obj == [kind : Kinds, size : Nat, length : Nat, shape : Nat \X Nat \X Nat, pitch : Nat]

\* The memory behind a wrapper holds what the wrapper's dimensions say.
Sized(o) ==
  /\ o.size <= MaxUint64
  /\ o.kind \in {"linear", "virtual"} =>
       o.length \in 1 .. MaxInt /\ o.length * es <= o.size
  /\ o.kind \in {"pitched", "volume", "array"} =>
       /\ o.shape[1] \in 1 .. MaxInt /\ o.shape[2] \in 1 .. MaxInt
       /\ o.shape[3] \in 1 .. MaxInt
       /\ o.shape[1] * es <= o.pitch
       /\ o.size = o.pitch * (o.shape[2] * o.shape[3])
  /\ o.kind = "array" => o.shape[1] * o.shape[2] <= MaxInt /\ o.shape[3] = 1

\* A view is of a buffer that is or was open, and its numbers fit an int.
Window ==
  view = NoView \/ (/\ view \in [owner : Objects, offset : 0 .. MaxInt, length : 1 .. MaxInt]
                    /\ Is(view.owner, {"linear", "closed"}))

\* The inductive invariant.
RInv == /\ es \in ElemSizes /\ obj \in [Objects -> Obj]
        /\ \A b \in Objects : Sized(obj[b])
        /\ Window
        /\ InsideAllocation

\* No allocation, no view, no request.
LEMMA InitInv == Init => RInv
<1> SUFFICES ASSUME Init PROVE RInv
  OBVIOUS
<1>1. NoObj \in Obj /\ NoObj.kind = "none" /\ NoObj.size = 0 BY DEF NoObj, Obj, Kinds
<1>2. obj \in [Objects -> Obj] /\ \A b \in Objects : obj[b] = NoObj BY <1>1 DEF Init
<1>3. \A b \in Objects : Sized(obj[b]) BY <1>1, <1>2, Widths DEF Sized
<1>4. Window /\ InsideAllocation BY DEF Init, Window, InsideAllocation, NoReq
<1> QED BY <1>2, <1>3, <1>4 DEF Init, RInv

\* A request that touches no more than there is keeps the invariant.
LEMMA RequestKeeps ==
  ASSUME RInv, NEW r, Request(r), r.host = r.slice,
         \A t \in r.dev : t.n > 0 /\ t.from + t.n <= obj[t.of].size
  PROVE  RInv'
<1>1. req' = r /\ UNCHANGED <<es, obj, view>> BY DEF Request
<1>2. \A b \in Objects : Sized(obj[b])' BY <1>1 DEF RInv, Sized
<1>3. Window' BY <1>1 DEF RInv, Window, Is
<1>4. InsideAllocation' BY <1>1 DEF RInv, InsideAllocation, Is
<1> QED BY <1>1, <1>2, <1>3, <1>4 DEF RInv

\* What is in a request.
LEMMA RequestFields ==
  /\ \A fn, dev : DeviceReq(fn, dev).dev = dev
                    /\ DeviceReq(fn, dev).host = DeviceReq(fn, dev).slice
  /\ \A fn, t, host, slice : /\ HostReq(fn, t, host, slice).dev = {t}
                             /\ HostReq(fn, t, host, slice).host = host
                             /\ HostReq(fn, t, host, slice).slice = slice
  /\ \A b, from, n : Touch(b, from, n).of = b /\ Touch(b, from, n).from = from
                       /\ Touch(b, from, n).n = n
  BY DEF DeviceReq, HostReq, NoReq, Touch

\* A copy between a host slice and the device.
LEMMA HostKeeps ==
  ASSUME RInv, NEW fn, NEW b, NEW from, NEW n, NEW host,
         Request(HostReq(fn, Touch(b, from, n), host, host)),
         n > 0, from + n <= obj[b].size
  PROVE  RInv'
<1>1. PICK r : r = HostReq(fn, Touch(b, from, n), host, host)
  OBVIOUS
<1>2. /\ r.dev = {Touch(b, from, n)} /\ r.host = r.slice
      /\ Touch(b, from, n).of = b /\ Touch(b, from, n).from = from
      /\ Touch(b, from, n).n = n
  BY <1>1, RequestFields
<1>3. \A t \in r.dev : t.n > 0 /\ t.from + t.n <= obj[t.of].size BY <1>2
<1> QED BY <1>1, <1>2, <1>3, RequestKeeps

\* A memset, or a copy within the device.
LEMMA DeviceKeeps ==
  ASSUME RInv, NEW fn, NEW b, NEW from, NEW c, NEW to, NEW n, NEW m,
         Request(DeviceReq(fn, {Touch(b, from, n), Touch(c, to, m)})),
         n > 0, m > 0, from + n <= obj[b].size, to + m <= obj[c].size
  PROVE  RInv'
<1>1. PICK r : r = DeviceReq(fn, {Touch(b, from, n), Touch(c, to, m)})
  OBVIOUS
<1>2. /\ r.dev = {Touch(b, from, n), Touch(c, to, m)} /\ r.host = r.slice
      /\ Touch(b, from, n).of = b /\ Touch(b, from, n).from = from
      /\ Touch(b, from, n).n = n
      /\ Touch(c, to, m).of = c /\ Touch(c, to, m).from = to /\ Touch(c, to, m).n = m
  BY <1>1, RequestFields
<1>3. \A t \in r.dev : t.n > 0 /\ t.from + t.n <= obj[t.of].size BY <1>2
<1> QED BY <1>1, <1>2, <1>3, RequestKeeps

\* The driver refuses, or gives memory of the right size.
LEMMA ObtainKeeps ==
  ASSUME RInv, NEW b \in Objects, Is(b, {"none"}), NEW fn, NEW ask, NEW made \in Obj,
         made.size <= MaxUint64 => Sized(made), Obtain(b, fn, ask, made)
  PROVE  RInv'
<1>1. UNCHANGED <<es, view>> /\ req'.dev = {} /\ req'.host = 0 /\ req'.slice = 0
  BY DEF Obtain, NoReq
<1>2. CASE UNCHANGED obj
  <2>1. \A c \in Objects : Sized(obj[c])' BY <1>1, <1>2 DEF RInv, Sized
  <2>2. Window' /\ InsideAllocation'
    BY <1>1, <1>2 DEF RInv, Window, InsideAllocation, Is
  <2> QED BY <1>1, <1>2, <2>1, <2>2 DEF RInv
<1>3. CASE made.size <= MaxUint64 /\ obj' = [obj EXCEPT ![b] = made]
  <2>1. obj' \in [Objects -> Obj] /\ \A c \in Objects : obj'[c] = IF c = b THEN made ELSE obj[c]
    BY <1>3 DEF RInv
  <2>2. \A c \in Objects : Sized(obj[c])' BY <1>1, <1>3, <2>1 DEF RInv, Sized
  <2>3. view # NoView => view.owner \in Objects /\ view.owner # b
    BY DEF RInv, Window, Is
  <2>4. Window' /\ InsideAllocation'
    BY <1>1, <2>1, <2>3 DEF RInv, Window, InsideAllocation, Is
  <2> QED BY <1>1, <2>1, <2>2, <2>4 DEF RInv
<1> QED BY <1>2, <1>3 DEF Obtain

----------------------------------------------------------------------------
(* Allocation.                                                             *)

\* Alloc and AllocVirtual: the length was checked, the size holds it.
LEMMA LinearKeeps ==
  ASSUME RInv, NEW b \in Objects, Is(b, {"none"}), NEW fn, NEW kind \in {"linear", "virtual"},
         NEW n \in GoInt, SizeOK(n, es), NEW size \in Nat, n * es <= size,
         Obtain(b, fn, size, [NoObj EXCEPT !.kind = kind, !.length = n, !.size = size])
  PROVE  RInv'
<1>1. PICK made : made = [NoObj EXCEPT !.kind = kind, !.length = n, !.size = size]
  OBVIOUS
<1>2. made.kind = kind /\ made.length = n /\ made.size = size BY <1>1 DEF NoObj
<1>3. n \in 1 .. MaxInt BY Widths DEF SizeOK
<1>4. made \in Obj
  <2>1. n \in Nat /\ <<0, 0, 0>> \in Nat \X Nat \X Nat BY <1>3, Widths
  <2> QED BY <1>1, <2>1 DEF NoObj, Obj, Kinds
<1>5. made.size <= MaxUint64 => Sized(made) BY <1>2, <1>3 DEF Sized
<1> QED BY <1>1, <1>4, <1>5, ObtainKeeps

\* Alloc, AllocAsync, AllocFromPool.
LEMMA AllocStep == ASSUME RInv, NEW b \in Objects, Alloc(b) PROVE RInv'
<1>1. PICK n \in GoInt :
        /\ SizeOK(n, es)
        /\ Obtain(b, "Alloc", Bytes(n, es),
                  [NoObj EXCEPT !.kind = "linear", !.length = n, !.size = Bytes(n, es)])
  BY DEF Alloc
<1>2. es \in ElemSizes BY DEF RInv
<1>3. Bytes(n, es) = n * es /\ n * es \in Nat
  BY <1>1, <1>2, SizeExact, Sizes, Widths DEF SizeOK
<1>4. PICK size \in Nat : size = Bytes(n, es) /\ n * es <= size BY <1>3
<1> QED BY <1>1, <1>4, LinearKeeps DEF Alloc, Room

\* AllocVirtual: the rounded size is no smaller.
LEMMA AllocVirtualStep == ASSUME RInv, NEW b \in Objects, AllocVirtual(b) PROVE RInv'
<1>1. PICK n \in GoInt, gran \in 0..MaxUint64 :
        /\ SizeOK(n, es) /\ gran # 0
        /\ roundUp(Bytes(n, es), gran).ok
        /\ Obtain(b, "AllocVirtual", roundUp(Bytes(n, es), gran).size,
                  [NoObj EXCEPT !.kind = "virtual", !.length = n,
                                !.size = roundUp(Bytes(n, es), gran).size])
  BY DEF AllocVirtual
<1>2. es \in ElemSizes BY DEF RInv
<1>3. Bytes(n, es) = n * es /\ n * es \in 0 .. MaxUint64
  BY <1>1, <1>2, SizeExact, Sizes, Widths DEF SizeOK
<1>4. gran \in 1 .. MaxUint64 BY <1>1, Widths
<1>5. PICK s : s = roundUp(Bytes(n, es), gran)
  OBVIOUS
<1>6. s.size \in Nat /\ n * es <= s.size
  <2>1. PICK m \in Nat : /\ n * es <= m
                         /\ s = IF m <= MaxUint64 THEN [size |-> m, ok |-> TRUE]
                                ELSE [size |-> 0, ok |-> FALSE]
    BY <1>3, <1>4, <1>5, RoundUpExact
  <2>2. s.ok BY <1>1, <1>5
  <2> QED BY <2>1, <2>2
<1>7. PICK size \in Nat : size = s.size /\ n * es <= size BY <1>6
<1> QED BY <1>1, <1>5, <1>7, LinearKeeps DEF AllocVirtual, Room

\* Memory in rows.
LEMMA RowsKeep ==
  ASSUME RInv, NEW b \in Objects, Is(b, {"none"}), NEW fn, NEW ask,
         NEW kind \in {"pitched", "volume", "array"}, NEW w \in 1 .. MaxInt,
         NEW h \in 1 .. MaxInt, NEW d \in 1 .. MaxInt, NEW pitch \in Nat, NEW size \in Nat,
         w * es <= pitch, size = pitch * (h * d),
         kind = "array" => w * h <= MaxInt /\ d = 1,
         Obtain(b, fn, ask, [NoObj EXCEPT !.kind = kind, !.shape = <<w, h, d>>,
                                          !.pitch = pitch, !.size = size])
  PROVE  RInv'
<1>1. PICK made : made = [NoObj EXCEPT !.kind = kind, !.shape = <<w, h, d>>,
                                       !.pitch = pitch, !.size = size]
  OBVIOUS
<1>2. made.kind = kind /\ made.shape = <<w, h, d>> /\ made.size = size /\ made.pitch = pitch
  BY <1>1 DEF NoObj
<1>3. <<w, h, d>> \in Nat \X Nat \X Nat BY Widths
<1>4. made \in Obj BY <1>1, <1>3 DEF NoObj, Obj, Kinds
<1>5. made.shape[1] = w /\ made.shape[2] = h /\ made.shape[3] = d BY <1>2
<1>6. made.size <= MaxUint64 => Sized(made) BY <1>2, <1>5 DEF Sized
<1> QED BY <1>1, <1>4, <1>6, ObtainKeeps

\* The driver's pitch is no smaller than the row.
LEMMA AllocPitchedStep == ASSUME RInv, NEW b \in Objects, AllocPitched(b) PROVE RInv'
<1>1. PICK w \in GoInt, h \in GoInt, pad \in {0, 1} :
        /\ PitchedOK(w, h, es)
        /\ Obtain(b, "AllocPitched", Bytes(w, es) * U(h),
                  [NoObj EXCEPT !.kind = "pitched", !.shape = <<w, h, 1>>,
                                !.pitch = Bytes(w, es) + pad,
                                !.size = (Bytes(w, es) + pad) * h])
  BY DEF AllocPitched
<1>2. es \in ElemSizes BY DEF RInv
<1>3. w \in 1 .. MaxInt /\ h \in 1 .. MaxInt /\ SizeOK(w, es) /\ 1 \in 1 .. MaxInt
  BY <1>1, Widths DEF PitchedOK, SizeOK
<1>4. Bytes(w, es) = w * es /\ w * es \in Nat BY <1>2, <1>3, SizeExact, Sizes
<1>5. PICK pitch \in Nat : pitch = Bytes(w, es) + pad /\ w * es <= pitch BY <1>4
<1>6. PICK size \in Nat : size = pitch * h /\ size = pitch * (h * 1) BY <1>3
<1>7. Obtain(b, "AllocPitched", Bytes(w, es) * U(h),
             [NoObj EXCEPT !.kind = "pitched", !.shape = <<w, h, 1>>,
                           !.pitch = pitch, !.size = size])
  BY <1>1, <1>5, <1>6
<1>8. PICK one \in 1 .. MaxInt : one = 1 BY <1>3
<1>9. Is(b, {"none"}) BY DEF AllocPitched, Room
<1> QED BY <1>3, <1>5, <1>6, <1>7, <1>8, <1>9, RowsKeep

\* So for volumes, whose rows can be counted.
LEMMA AllocVolumeStep == ASSUME RInv, NEW b \in Objects, AllocVolume(b) PROVE RInv'
<1>1. PICK w \in GoInt, h \in GoInt, d \in GoInt, pad \in {0, 1} :
        /\ VolumeOK(w, h, d, es)
        /\ Obtain(b, "AllocVolume", Bytes(w, es) * U(U(h) * U(d)),
                  [NoObj EXCEPT !.kind = "volume", !.shape = <<w, h, d>>,
                                !.pitch = Bytes(w, es) + pad,
                                !.size = (Bytes(w, es) + pad) * U(U(h) * U(d))])
  BY DEF AllocVolume
<1>2. es \in ElemSizes BY DEF RInv
<1>3. w \in 1 .. MaxInt /\ h \in 1 .. MaxInt /\ d \in 1 .. MaxInt /\ SizeOK(w, es)
  BY <1>1, Widths DEF VolumeOK, SizeOK
<1>4. Bytes(w, es) = w * es /\ w * es \in Nat BY <1>2, <1>3, SizeExact, Sizes
<1>5. U(U(h) * U(d)) = h * d /\ h * d \in Nat
  <2>1. w * h * d <= MaxInt BY <1>1, <1>2, VolumeExact
  <2>2. w \in Nat \ {0} /\ h \in Nat \ {0} /\ d \in Nat \ {0} BY <1>3, Widths
  <2> QED BY <2>1, <2>2, Space
<1>6. PICK pitch \in Nat : pitch = Bytes(w, es) + pad /\ w * es <= pitch BY <1>4
<1>7. PICK size \in Nat : size = pitch * U(U(h) * U(d)) /\ size = pitch * (h * d) BY <1>5
<1> QED BY <1>1, <1>3, <1>6, <1>7, RowsKeep DEF AllocVolume, Room

\* Arrays have no padding.
LEMMA AllocArrayStep == ASSUME RInv, NEW b \in Objects, AllocArray2D(b) PROVE RInv'
<1>1. PICK w \in GoInt, h \in GoInt :
        /\ ArrayOK(w, h, es)
        /\ Obtain(b, "AllocArray2D", w * h * es,
                  [NoObj EXCEPT !.kind = "array", !.shape = <<w, h, 1>>,
                                !.pitch = w * es, !.size = w * h * es])
  BY DEF AllocArray2D
<1>2. es \in ElemSizes /\ es \in Nat \ {0} BY Sizes DEF RInv
<1>3. w \in 1 .. MaxInt /\ h \in 1 .. MaxInt /\ w * h <= MaxInt /\ 1 \in 1 .. MaxInt
  BY <1>1, <1>2, ArrayExact, Widths
<1>4. PICK pitch \in Nat : pitch = w * es /\ w * es <= pitch BY <1>2, <1>3
<1>5. PICK size \in Nat : size = w * h * es /\ size = pitch * (h * 1)
  <2>1. (w * h) * es = (w * es) * h /\ (w * h) * es \in Nat BY <1>2, <1>3
  <2> QED BY <1>3, <1>4, <2>1
<1> QED BY <1>1, <1>3, <1>4, <1>5, RowsKeep DEF AllocArray2D, Room

\* A global is as large as its module says.
LEMMA GlobalStep == ASSUME RInv, NEW b \in Objects, Global(b) PROVE RInv'
<1>1. PICK n \in 1 .. MaxUint64 :
        Obtain(b, "Global", 0, [NoObj EXCEPT !.kind = "global", !.size = n])
  BY DEF Global
<1>2. PICK made : made = [NoObj EXCEPT !.kind = "global", !.size = n]
  OBVIOUS
<1>3. made \in Obj /\ made.kind = "global"
  <2>1. n \in Nat /\ <<0, 0, 0>> \in Nat \X Nat \X Nat BY Widths
  <2> QED BY <1>2, <2>1 DEF NoObj, Obj, Kinds
<1>4. made.size <= MaxUint64 => Sized(made) BY <1>3 DEF Sized
<1> QED BY <1>1, <1>2, <1>3, <1>4, ObtainKeeps DEF Global, Room

\* A closed wrapper keeps nothing; its views stay, and can do nothing.
LEMMA CloseStep == ASSUME RInv, req = NoReq, NEW b \in Objects, Close(b) PROVE RInv'
<1>1. PICK made : made = [NoObj EXCEPT !.kind = "closed"]
  OBVIOUS
<1>2. made \in Obj /\ made.kind = "closed" /\ made.size = 0 BY <1>1 DEF NoObj, Obj, Kinds
<1>3. /\ UNCHANGED <<es, view, req>> /\ obj' \in [Objects -> Obj]
      /\ \A c \in Objects : obj'[c] = IF c = b THEN made ELSE obj[c]
  BY <1>1, <1>2 DEF Close, RInv
<1>4. \A c \in Objects : Sized(obj[c])' BY <1>2, <1>3, Widths DEF RInv, Sized
<1>5. view # NoView => view.owner \in Objects BY DEF RInv, Window
<1>6. Window' BY <1>2, <1>3, <1>5 DEF RInv, Window, Is
<1>7. InsideAllocation'
  <2>1. req.dev = {} BY DEF NoReq
  <2> QED BY <1>2, <1>3, <1>5, <2>1 DEF RInv, InsideAllocation, Is
<1> QED BY <1>3, <1>4, <1>6, <1>7 DEF RInv

----------------------------------------------------------------------------
(* Copies and memsets.                                                     *)

\* A buffer and the bytes of its elements.
LEMMA LinearFacts ==
  ASSUME RInv, NEW b \in Objects, Is(b, {"linear", "virtual"})
  PROVE  /\ es \in ElemSizes /\ es \in Nat \ {0}
         /\ obj[b].length \in Nat \ {0} /\ obj[b].length <= MaxInt /\ obj[b].length \in GoInt
         /\ obj[b].size \in Nat
         /\ obj[b].length * es \in Nat \ {0} /\ obj[b].length * es <= obj[b].size
         /\ Bytes(obj[b].length, es) = obj[b].length * es
         /\ U(obj[b].length) = obj[b].length
<1> USE Widths
<1>1. es \in ElemSizes /\ es \in Nat \ {0} BY Sizes DEF RInv
<1>2. PICK n : n = obj[b].length
  OBVIOUS
<1>3. /\ n \in 1 .. MaxInt /\ n * es <= obj[b].size
      /\ obj[b].size <= MaxUint64 /\ obj[b].size \in Nat
  <2>1. obj[b] \in Obj /\ Sized(obj[b]) BY DEF RInv
  <2> QED BY <1>2, <2>1 DEF Sized, Is, Obj
<1>4. n \in Nat \ {0} /\ n <= MaxInt /\ n \in GoInt BY <1>3
<1>5. n * es \in Nat \ {0} BY <1>1, <1>4, Product
<1>6. Bytes(n, es) = n * es BY <1>1, <1>3, <1>4, <1>5, BytesExact
<1>7. U(n) = n BY <1>4, Fits
<1> QED BY <1>1, <1>2, <1>3, <1>4, <1>5, <1>6, <1>7

\* n elements from off, inside a buffer: the bytes they occupy.
LEMMA OffsetFacts ==
  ASSUME RInv, NEW b \in Objects, Is(b, {"linear"}), NEW off \in GoInt, NEW n \in GoInt,
         InRange(off, n, obj[b].length)
  PROVE  /\ off \in Nat /\ n \in Nat \ {0} /\ off + n <= obj[b].length
         /\ n <= MaxInt /\ off <= MaxInt
         /\ Bytes(n, es) = n * es /\ n * es \in Nat \ {0}
         /\ offsetPtr(off) = off * es /\ off * es \in Nat
         /\ off * es + n * es <= obj[b].size
<1> USE Widths
<1>1. PICK length \in Nat \ {0} : length = obj[b].length /\ length <= MaxInt /\ length \in GoInt
  BY LinearFacts DEF Is
<1>2. /\ es \in ElemSizes /\ es \in Nat \ {0} /\ obj[b].size \in Nat
      /\ length * es \in Nat /\ length * es <= obj[b].size /\ obj[b].size <= MaxUint64
  <2>1. es \in ElemSizes /\ es \in Nat \ {0} /\ obj[b].size \in Nat
        /\ length * es \in Nat /\ length * es <= obj[b].size
    BY <1>1, LinearFacts DEF Is
  <2>2. obj[b].size <= MaxUint64 BY DEF RInv, Sized
  <2> QED BY <2>1, <2>2
<1>3. off \in Nat /\ n \in Nat \ {0} /\ off + n <= length /\ n <= MaxInt /\ off <= MaxInt
  BY <1>1, RangeExact
<1>4. (off + n) * es <= length * es /\ (off + n) * es = off * es + n * es
  BY <1>1, <1>2, <1>3, Monotone, Regroup
<1>5. n * es \in Nat \ {0} /\ off * es \in Nat BY <1>2, <1>3, Product
<1>6. n * es <= MaxUint64 /\ off * es <= MaxUint64 /\ off * es + n * es <= obj[b].size
  BY <1>2, <1>4, <1>5
<1>7. Bytes(n, es) = n * es BY <1>2, <1>3, <1>6, BytesExact
<1>8. offsetPtr(off) = off * es BY <1>3, <1>5, <1>6, Fits DEF offsetPtr
<1> QED BY <1>1, <1>3, <1>5, <1>6, <1>7, <1>8

\* CopyFrom, CopyTo and the pinned copies.
LEMMA CopyWholeStep == ASSUME RInv, NEW b \in Objects, CopyWhole(b) PROVE RInv'
<1>1. PICK n \in Nat \ {0} : /\ n = Bytes(obj[b].length, es) /\ n = obj[b].length * es
                             /\ n <= obj[b].size /\ obj[b].size \in Nat
  BY LinearFacts DEF CopyWhole
<1>2. Request(HostReq("Copy", Touch(b, 0, n), n, n)) BY <1>1 DEF CopyWhole
<1>3. n > 0 /\ 0 + n <= obj[b].size BY <1>1
<1> QED BY <1>2, <1>3, HostKeeps

\* Zero and Fill.
LEMMA MemsetStep == ASSUME RInv, NEW b \in Objects, Memset(b) PROVE RInv'
<1>1. Is(b, {"linear", "virtual"}) BY DEF Memset, Is
<1>2. PICK n \in Nat \ {0} : /\ n = Bytes(obj[b].length, es) /\ n = U(obj[b].length) * es
                             /\ n <= obj[b].size /\ obj[b].size \in Nat
  BY <1>1, LinearFacts
<1>3. PICK fn : Request(DeviceReq(fn, {Touch(b, 0, n)})) BY <1>2 DEF Memset
<1>4. Request(DeviceReq(fn, {Touch(b, 0, n), Touch(b, 0, n)}))
  <2>1. {Touch(b, 0, n)} = {Touch(b, 0, n), Touch(b, 0, n)}
    OBVIOUS
  <2> QED BY <1>3, <2>1
<1>5. n > 0 /\ 0 + n <= obj[b].size BY <1>2
<1> QED BY <1>4, <1>5, DeviceKeeps

\* CopyToDevice: both buffers are as long.
LEMMA CopyToDeviceStep ==
  ASSUME RInv, NEW b \in Objects, NEW dst \in Objects, CopyToDevice(b, dst)
  PROVE  RInv'
<1>1. Is(b, {"linear", "virtual"}) /\ Is(dst, {"linear", "virtual"}) BY DEF CopyToDevice, Is
<1>2. PICK n \in Nat \ {0} : /\ n = Bytes(obj[b].length, es) /\ n = obj[b].length * es
                             /\ n <= obj[b].size /\ obj[b].size \in Nat
  BY <1>1, LinearFacts
<1>3. n <= obj[dst].size /\ obj[dst].size \in Nat BY <1>1, <1>2, LinearFacts DEF CopyToDevice
<1>4. Request(DeviceReq("CopyToDevice", {Touch(b, 0, n), Touch(dst, 0, n)}))
  BY <1>2 DEF CopyToDevice
<1>5. n > 0 /\ 0 + n <= obj[b].size /\ 0 + n <= obj[dst].size BY <1>2, <1>3
<1> QED BY <1>4, <1>5, DeviceKeeps

\* CopyFromAt and CopyToAt, also by way of a view.
LEMMA CopyHostAtStep ==
  ASSUME RInv, NEW b \in Objects, NEW off \in GoInt, NEW n \in GoInt, CopyHostAt(b, off, n)
  PROVE  RInv'
<1>1. Is(b, {"linear"}) /\ InRange(off, n, obj[b].length) BY DEF CopyHostAt
<1>2. PICK len \in Nat \ {0} : len = Bytes(n, es) /\ len = n * es BY <1>1, OffsetFacts
<1>3. PICK from \in Nat : from = offsetPtr(off) /\ from = off * es BY <1>1, OffsetFacts
<1>4. from + len <= obj[b].size BY <1>1, <1>2, <1>3, OffsetFacts
<1>5. Request(HostReq("CopyAt", Touch(b, from, len), len, len))
  BY <1>2, <1>3 DEF CopyHostAt
<1>6. len > 0 BY <1>2
<1> QED BY <1>4, <1>5, <1>6, HostKeeps

\* CopyToDeviceAt: n elements of each.
LEMMA CopyToDeviceAtStep ==
  ASSUME RInv, NEW b \in Objects, NEW dst \in Objects, CopyToDeviceAt(b, dst)
  PROVE  RInv'
<1>1. PICK n \in GoInt, srcOff \in GoInt, dstOff \in GoInt :
        /\ InRange(srcOff, n, obj[b].length) /\ InRange(dstOff, n, obj[dst].length)
        /\ Request(DeviceReq("CopyToDeviceAt", {Touch(b, offsetPtr(srcOff), Bytes(n, es)),
                                                Touch(dst, offsetPtr(dstOff), Bytes(n, es))}))
  BY DEF CopyToDeviceAt
<1>2. Is(b, {"linear"}) /\ Is(dst, {"linear"}) BY DEF CopyToDeviceAt
<1>3. PICK len \in Nat \ {0} : len = Bytes(n, es) /\ len = n * es BY <1>1, <1>2, OffsetFacts
<1>4. PICK from \in Nat : from = offsetPtr(srcOff) /\ from = srcOff * es
  BY <1>1, <1>2, OffsetFacts
<1>5. PICK to \in Nat : to = offsetPtr(dstOff) /\ to = dstOff * es
  BY <1>1, <1>2, OffsetFacts
<1>6. from + len <= obj[b].size BY <1>1, <1>2, <1>3, <1>4, OffsetFacts
<1>7. to + len <= obj[dst].size BY <1>1, <1>2, <1>3, <1>5, OffsetFacts
<1>8. Request(DeviceReq("CopyToDeviceAt", {Touch(b, from, len), Touch(dst, to, len)}))
  BY <1>1, <1>3, <1>4, <1>5
<1>9. len > 0 BY <1>3
<1> QED BY <1>6, <1>7, <1>8, <1>9, DeviceKeeps

\* A descriptor of rows covers no more than the allocation has.
LEMMA CoverFacts ==
  ASSUME RInv, NEW b \in Objects, Is(b, {"pitched", "volume", "array"})
  PROVE  \E w, h, d, row, rows \in Nat \ {0}, pitch \in Nat, n \in Nat :
           /\ obj[b].shape[1] = w /\ obj[b].shape[2] = h /\ obj[b].shape[3] = d
           /\ w <= MaxInt
           /\ row = RowBytes(b) /\ row = w * es
           /\ rows = Rows(b) /\ rows = h * d
           /\ pitch = obj[b].pitch
           /\ n = (rows - 1) * pitch + row
           /\ n > 0 /\ n <= obj[b].size
<1> USE Widths
<1>1. es \in ElemSizes /\ es \in Nat \ {0} BY Sizes DEF RInv
<1>2. obj[b] \in Obj /\ Sized(obj[b]) BY DEF RInv
<1>3. PICK w, h, d \in Nat \ {0} :
        /\ obj[b].shape[1] = w /\ obj[b].shape[2] = h /\ obj[b].shape[3] = d
        /\ w <= MaxInt /\ w * es <= obj[b].pitch
        /\ obj[b].size = obj[b].pitch * (h * d)
  BY <1>2 DEF Sized, Is
<1>4. PICK pitch \in Nat : pitch = obj[b].pitch BY <1>2 DEF Obj
<1>5. PICK rows \in Nat \ {0} : rows = h * d BY Product
<1>6. rows = Rows(b) BY <1>3, <1>5 DEF Rows
<1>7. PICK row \in Nat \ {0} : row = w * es BY <1>1, Product
<1>8. pitch * rows <= MaxUint64 /\ pitch * rows = obj[b].size
  BY <1>2, <1>3, <1>4, <1>5 DEF Sized
<1>9. row <= pitch /\ pitch \in Nat \ {0} BY <1>3, <1>4, <1>7
<1>10. pitch <= pitch * rows /\ pitch * rows \in Nat BY <1>9, Product
<1>11. row <= MaxUint64 BY <1>8, <1>9, <1>10
<1>12. row = RowBytes(b) BY <1>1, <1>3, <1>7, <1>11, BytesExact DEF RowBytes
<1>13. (rows - 1) * pitch = pitch * rows - pitch /\ (rows - 1) * pitch \in Nat
  <2>1. rows - 1 \in Nat
    OBVIOUS
  <2>2. (rows - 1) * pitch \in Nat BY <2>1
  <2> QED BY <2>2
<1>14. PICK n \in Nat : n = (rows - 1) * pitch + row BY <1>13
<1>15. n > 0 /\ n <= obj[b].size BY <1>8, <1>9, <1>10, <1>13, <1>14
<1> QED BY <1>3, <1>4, <1>5, <1>6, <1>7, <1>12, <1>14, <1>15

\* CopyFrom and CopyTo of pitched buffers, volumes and arrays: the packed rows
\* are the host slice, to the byte.
LEMMA CopyRowsStep == ASSUME RInv, NEW b \in Objects, CopyRows(b) PROVE RInv'
<1> USE Widths
<1>1. Is(b, {"pitched", "volume", "array"}) BY DEF CopyRows
<1>2. PICK w, h, d, row, rows \in Nat \ {0}, pitch \in Nat, n \in Nat :
        /\ obj[b].shape[1] = w /\ obj[b].shape[2] = h /\ obj[b].shape[3] = d
        /\ w <= MaxInt
        /\ row = RowBytes(b) /\ row = w * es
        /\ rows = Rows(b) /\ rows = h * d
        /\ pitch = obj[b].pitch
        /\ n = (rows - 1) * pitch + row
        /\ n > 0 /\ n <= obj[b].size
  BY <1>1, CoverFacts
<1>3. PICK len \in HostLens :
        /\ len = IF Is(b, {"array"}) THEN I(w * h) ELSE elements(w, h, d)
        /\ Request(HostReq("CopyRows", Covers(b), row * rows, len * es))
  BY <1>2 DEF CopyRows
<1>4. len \in Nat BY DEF HostLens
<1>5. es \in Nat \ {0} BY Sizes DEF RInv
<1>6. len = w * h * d
  <2>1. CASE Is(b, {"array"})
    <3>1. w * h <= MaxInt /\ d = 1 BY <1>2, <2>1 DEF RInv, Sized, Is
    <3>2. I(w * h) = w * h /\ w * h \in Nat BY <3>1, Area
    <3> QED BY <1>3, <2>1, <3>1, <3>2
  <2>2. CASE ~Is(b, {"array"})
    <3>1. len = elements(w, h, d) /\ len # -1 BY <1>3, <1>4, <2>2
    <3>2. ~(w > MaxInt \div h) /\ ~(I(w * h) > MaxInt \div d) /\ len = I(I(w * h) * d)
      BY <3>1 DEF elements
    <3>3. w * h \in Int /\ I(w * h) \in Int /\ MaxInt \div h \in Int /\ MaxInt \div d \in Int
      BY DEF I
    <3>4. w <= MaxInt \div h /\ I(w * h) <= MaxInt \div d BY <3>2, <3>3
    <3>5. w * h * d <= MaxInt BY <3>4, Space
    <3>6. I(I(w * h) * d) = w * h * d BY <3>5, Elements
    <3> QED BY <3>2, <3>6
  <2> QED BY <2>1, <2>2
<1>7. row * rows = len * es
  <2>1. w * h * d = w * (h * d) BY Space
  <2>2. (w * es) * rows = (w * rows) * es BY <1>5
  <2> QED BY <1>2, <1>6, <2>1, <2>2
<1>8. Covers(b) = Touch(b, 0, n) BY <1>2 DEF Covers
<1>9. PICK host : host = row * rows /\ host = len * es BY <1>7
<1>10. Request(HostReq("CopyRows", Touch(b, 0, n), host, host)) BY <1>3, <1>8, <1>9
<1>11. 0 + n <= obj[b].size BY <1>2
<1> QED BY <1>2, <1>10, <1>11, HostKeeps

\* Between pitched buffers, each with its own pitch.
LEMMA CopyPitchedStep ==
  ASSUME RInv, NEW b \in Objects, NEW dst \in Objects, CopyPitchedToDevice(b, dst)
  PROVE  RInv'
<1>1. /\ Is(b, {"pitched", "volume", "array"}) /\ Is(dst, {"pitched", "volume", "array"})
      /\ Request(DeviceReq("CopyPitchedToDevice", {Covers(b), Covers(dst)}))
  BY DEF CopyPitchedToDevice, Is
<1>2. PICK n \in Nat : Covers(b) = Touch(b, 0, n) /\ n > 0 /\ n <= obj[b].size
  BY <1>1, CoverFacts DEF Covers
<1>3. PICK m \in Nat : Covers(dst) = Touch(dst, 0, m) /\ m > 0 /\ m <= obj[dst].size
  BY <1>1, CoverFacts DEF Covers
<1>4. Request(DeviceReq("CopyPitchedToDevice", {Touch(b, 0, n), Touch(dst, 0, m)}))
  BY <1>1, <1>2, <1>3
<1>5. 0 + n <= obj[b].size /\ 0 + m <= obj[dst].size BY <1>2, <1>3
<1> QED BY <1>2, <1>3, <1>4, <1>5, DeviceKeeps

\* WriteGlobal and ReadGlobal: the slice is no longer than the global.
LEMMA CopyGlobalStep == ASSUME RInv, NEW b \in Objects, CopyGlobal(b) PROVE RInv'
<1> USE Widths
<1>1. PICK n \in HostLens \ {0} :
        /\ Bytes(n, es) <= obj[b].size
        /\ Request(HostReq("CopyGlobal", Touch(b, 0, Bytes(n, es)), Bytes(n, es), n * es))
  BY DEF CopyGlobal
<1>2. es \in ElemSizes /\ es \in Nat \ {0} BY Sizes DEF RInv
<1>3. n \in Nat \ {0} /\ n <= MaxInt /\ n * es <= MaxInt BY <1>1 DEF HostLens
<1>4. n * es \in Nat \ {0} BY <1>2, <1>3, Product
<1>5. n * es <= MaxUint64 BY <1>3, <1>4
<1>6. PICK len \in Nat \ {0} : len = Bytes(n, es) /\ len = n * es
  BY <1>2, <1>3, <1>4, <1>5, BytesExact
<1>7. Request(HostReq("CopyGlobal", Touch(b, 0, len), len, len)) BY <1>1, <1>6
<1>8. len > 0 /\ 0 + len <= obj[b].size BY <1>1, <1>6
<1> QED BY <1>7, <1>8, HostKeeps

----------------------------------------------------------------------------
(* Views.                                                                  *)

\* A step that makes a view of a window of an open buffer.
LEMMA ViewKeeps ==
  ASSUME RInv, UNCHANGED <<es, obj, req>>, NEW b \in Objects, Is(b, {"linear"}),
         NEW off \in 0 .. MaxInt, NEW n \in 1 .. MaxInt, off + n <= obj[b].length,
         view' = [owner |-> b, offset |-> off, length |-> n]
  PROVE  RInv'
<1>1. view'.owner = b /\ view'.offset = off /\ view'.length = n
  OBVIOUS
<1>2. \A c \in Objects : Sized(obj[c])' BY DEF RInv, Sized
<1>3. Window' BY <1>1 DEF Window, Is
<1>4. InsideAllocation' BY <1>1, Widths DEF RInv, InsideAllocation, Is
<1> QED BY <1>2, <1>3, <1>4 DEF RInv

\* Buffer.View.
LEMMA BufferViewStep == ASSUME RInv, NEW b \in Objects, BufferView(b) PROVE RInv'
<1>1. PICK off \in GoInt, n \in GoInt :
        /\ InRange(off, n, obj[b].length)
        /\ view' = [owner |-> b, offset |-> off, length |-> n]
        /\ UNCHANGED <<es, obj, req>>
  BY DEF BufferView
<1>2. Is(b, {"linear"}) BY DEF BufferView
<1>3. off \in 0 .. MaxInt /\ n \in 1 .. MaxInt /\ off + n <= obj[b].length
  BY <1>1, <1>2, OffsetFacts, Widths
<1> QED BY <1>1, <1>2, <1>3, ViewKeeps

\* View.View: a window of a window is one of the buffer.
LEMMA SubViewStep == ASSUME RInv, SubView PROVE RInv'
<1> USE Widths
<1>1. PICK off \in GoInt, n \in GoInt :
        /\ view # NoView /\ Is(view.owner, {"linear"})
        /\ InRange(off, n, view.length)
        /\ view' = [view EXCEPT !.offset = I(@ + off), !.length = n]
        /\ UNCHANGED <<es, obj, req>>
  BY DEF SubView
<1>2. view \in [owner : Objects, offset : 0 .. MaxInt, length : 1 .. MaxInt]
  BY <1>1 DEF RInv, Window
<1>3. PICK b \in Objects, at \in 0 .. MaxInt, length \in 1 .. MaxInt :
        /\ b = view.owner /\ at = view.offset /\ length = view.length
        /\ view = [owner |-> b, offset |-> at, length |-> length]
  BY <1>2
<1>4. at + length <= obj[b].length /\ Is(b, {"linear"})
  BY <1>1, <1>3 DEF RInv, InsideAllocation
<1>5. length \in GoInt /\ length > 0
  OBVIOUS
<1>6. off >= 0 /\ n > 0 /\ off + n <= length BY <1>1, <1>3, <1>5, RangeExact
<1>7. obj[b].length \in Nat /\ obj[b].length <= MaxInt BY <1>4, LinearFacts DEF Is
<1>8. at + off \in 0 .. MaxInt /\ n \in 1 .. MaxInt /\ (at + off) + n <= obj[b].length
  <2>1. PICK total \in Nat : total = obj[b].length /\ total <= MaxInt BY <1>7
  <2>2. at + length <= total BY <1>4, <2>1
  <2>3. off \in Nat /\ n \in Nat \ {0} /\ at \in Nat /\ length \in Nat BY <1>6
  <2>4. at + off + n <= at + length BY <1>6, <2>3
  <2> QED BY <2>1, <2>2, <2>3, <2>4
<1>9. I(at + off) = at + off BY <1>8, Fits
<1>10. view' = [owner |-> b, offset |-> at + off, length |-> n] BY <1>1, <1>3, <1>9
<1> QED BY <1>1, <1>4, <1>8, <1>10, ViewKeeps

\* CopyFrom and CopyTo of a view.
LEMMA ViewCopyStep == ASSUME RInv, ViewCopy PROVE RInv'
<1>1. view # NoView /\ CopyHostAt(view.owner, view.offset, view.length) BY DEF ViewCopy
<1>2. view \in [owner : Objects, offset : 0 .. MaxInt, length : 1 .. MaxInt]
  BY <1>1 DEF RInv, Window
<1>3. view.owner \in Objects /\ view.offset \in GoInt /\ view.length \in GoInt
  BY <1>2, Widths
<1> QED BY <1>1, <1>3, CopyHostAtStep

----------------------------------------------------------------------------
(* The theorems.                                                           *)

\* Every method and every return keeps the invariant.
LEMMA NextInv == RInv /\ [Next]_vars => RInv'
<1> SUFFICES ASSUME RInv, [Next]_vars PROVE RInv'
  OBVIOUS
<1>1. ASSUME NEW b \in Objects, NEW off \in GoInt, NEW n \in HostLens, CopyHostAt(b, off, n)
      PROVE  RInv'
  <2>1. n \in GoInt BY Widths DEF HostLens
  <2> QED BY <1>1, <2>1, CopyHostAtStep
<1>2. CASE req = NoReq /\ Method
  BY <1>1, <1>2, AllocStep, AllocVirtualStep, AllocPitchedStep, AllocVolumeStep,
     AllocArrayStep, GlobalStep, CloseStep, CopyWholeStep, MemsetStep, BufferViewStep,
     CopyRowsStep, CopyGlobalStep, CopyToDeviceStep, CopyToDeviceAtStep, CopyPitchedStep,
     SubViewStep, ViewCopyStep DEF Method
<1>3. CASE Return \/ UNCHANGED vars
  <2>1. UNCHANGED <<es, obj, view>> /\ req' \in {req, NoReq} BY <1>3 DEF Return, vars
  <2>2. \A b \in Objects : Sized(obj[b])' BY <2>1 DEF RInv, Sized
  <2>3. Window' BY <2>1 DEF RInv, Window, Is
  <2>4. InsideAllocation' BY <2>1 DEF RInv, InsideAllocation, Is, NoReq
  <2> QED BY <2>1, <2>2, <2>3, <2>4 DEF RInv
<1> QED BY <1>2, <1>3 DEF Next

\* An allocation is as large as the dimensions its wrapper remembers, a view is
\* a window of its buffer, and no request goes beyond either, for machine
\* integers of any width.
THEOREM SizesHold == Spec => []RInv
  BY InitInv, NextInv, PTL DEF Spec

\* Copies, memsets and views, nested to any depth, of memory this process
\* allocated stay inside their allocations, and copies use exactly the host slice they were given.
THEOREM RequestsStayInside == Spec => []InsideAllocation
<1>1. RInv => InsideAllocation BY DEF RInv
<1> QED BY <1>1, SizesHold, PTL

\* SizeOK, roundUp, LaunchConfig1D, VolumeOK, ArrayOK and the range check
\* refuse what does not fit the machine's integers, and nothing else.
THEOREM ChecksAreExact == Spec => []ExactlyWhatFits
<1>1. RInv => ExactlyWhatFits
  <2> SUFFICES ASSUME RInv PROVE ExactlyWhatFits
    OBVIOUS
  <2>1. es \in ElemSizes BY DEF RInv
  <2>2. \A n \in GoInt : /\ SizeOK(n, es) <=> n > 0 /\ n * es <= MaxUint64
                         /\ SizeOK(n, es) => Bytes(n, es) = n * es
    BY <2>1, SizeExact
  <2>3. \A b \in Objects : Is(b, {"linear"}) =>
          \A off, n \in GoInt :
            InRange(off, n, obj[b].length) <=> off >= 0 /\ n > 0 /\ off + n <= obj[b].length
    <3> SUFFICES ASSUME NEW b \in Objects, Is(b, {"linear"}), NEW off \in GoInt, NEW n \in GoInt
                 PROVE  InRange(off, n, obj[b].length)
                          <=> off >= 0 /\ n > 0 /\ off + n <= obj[b].length
      OBVIOUS
    <3>1. obj[b].length \in GoInt /\ obj[b].length > 0 BY LinearFacts DEF Is
    <3> QED BY <3>1, RangeExact
  <2>4. \A v \in 0..MaxUint64, mult \in 1..MaxUint64 :
          roundUp(v, mult) = IF Multiple(v, mult) <= MaxUint64
                             THEN [size |-> Multiple(v, mult), ok |-> TRUE]
                             ELSE [size |-> 0, ok |-> FALSE]
    BY RoundUpExact
  <2>5. \A n, block \in GoInt :
          LET cfg == LaunchConfig1D(n, block)
          IN  /\ valid(cfg) <=> /\ n > 0 /\ block \in 1..MaxUint32
                                /\ n <= block * MaxUint32
              /\ valid(cfg) => /\ cfg[2] = block
                               /\ cfg[1] * block >= n /\ (cfg[1] - 1) * block < n
    BY LaunchExact
  <2>6. \A w, h, d \in GoInt :
          VolumeOK(w, h, d, es) <=> /\ w > 0 /\ h > 0 /\ d > 0
                                    /\ w * h * d <= MaxInt
                                    /\ w * h * d * es <= MaxUint64
    BY <2>1, VolumeExact
  <2>7. \A w, h \in GoInt :
          ArrayOK(w, h, es) <=> w > 0 /\ h > 0 /\ w * h <= MaxInt /\ es # 8
    BY <2>1, ArrayExact
  <2> QED BY <2>2, <2>3, <2>4, <2>5, <2>6, <2>7 DEF ExactlyWhatFits
<1> QED BY <1>1, SizesHold, PTL
=============================================================================
