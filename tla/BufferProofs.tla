---------------------------- MODULE BufferProofs ----------------------------
(***************************************************************************)
(* Proofs about Buffer, for every initial size, every size of the stack    *)
(* buffer of readFd and every bound on what is appended.                   *)
(***************************************************************************)
EXTENDS Buffer, SequenceTheorems, TLAPS

Bytes == 0 .. MaxBytes

(* A buffer whose indices lie in its vector. *)
IsBuffer(b) ==
    /\ b \in [data : Seq(Bytes), read : Nat, write : Nat]
    /\ b.read <= b.write
    /\ b.write <= Len(b.data)
    /\ InitSize <= Len(b.data)

(* What can be read of b are the bytes that follow the t-th one. *)
Holds(b, t) == \A i \in 1 .. Readable(b) : b.data[b.read + i] = t + i

(* The vector did not grow, or the new one is smaller than what it holds,  *)
(* what was asked for (n bytes) and half the initial size together.        *)
GrewFor(b, old, n) ==
    \/ Len(b.data) = Len(old.data)
    \/ Len(b.data) < Readable(b) + n + InitSize \div 2 + 1

(* The inductive invariant.  InBounds is not inductive by itself: what is  *)
(* consumed is bounded by what is readable, and how far the vector grows   *)
(* by peak, which must be at least what is readable now.                   *)
BufferInv ==
    /\ IsBuffer(buf)
    /\ Holds(buf, taken)
    /\ taken \in Nat /\ total \in Nat /\ peak \in Nat
    /\ total <= MaxBytes
    /\ total = taken + Readable(buf)
    /\ Readable(buf) <= peak
    /\ GrowthBounded
    /\ lastInt.got \in Seq(Nat) /\ lastInt.front \in Seq(Nat)

-----------------------------------------------------------------------------
(* Facts about integers and about vectors given by their elements. *)
LEMMA HalfInit == InitSize \div 2 \in Nat
  BY SizesAssumption

(* A function on 1 .. n is a sequence of that length. *)
LEMMA VectorOf ==
    ASSUME NEW S, NEW n \in Nat, NEW f, f \in [1 .. n -> S]
    PROVE  f \in Seq(S) /\ Len(f) = n
  BY SeqDef, LenProperties

(* The elements of a vector. *)
LEMMA VectorElements ==
    ASSUME NEW S, NEW s \in Seq(S)
    PROVE  Len(s) \in Nat /\ \A i \in 1 .. Len(s) : s[i] \in S
  BY LenProperties, ElementOfSeq

(* Moving the content to the front keeps it and frees read_index_ bytes. *)
LEMMA CompactKeeps ==
    ASSUME NEW b, IsBuffer(b), NEW c, c = Compact(b)
    PROVE  /\ IsBuffer(c)
           /\ c.read = 0
           /\ Len(c.data) = Len(b.data)
           /\ Readable(c) = Readable(b)
           /\ \A i \in 1 .. Readable(b) : c.data[c.read + i] = b.data[b.read + i]
<1>1. /\ b.data \in Seq(Bytes) /\ b.read \in Nat /\ b.write \in Nat
      /\ b.read <= b.write /\ b.write <= Len(b.data) /\ Len(b.data) \in Nat
      /\ InitSize <= Len(b.data)
      /\ \A i \in 1 .. Len(b.data) : b.data[i] \in Bytes
  BY VectorElements DEF IsBuffer
<1>2. /\ c.read = 0 /\ c.write = b.write - b.read
      /\ c.data = [i \in 1 .. Len(b.data) |->
                     IF i <= Readable(b) THEN b.data[b.read + i] ELSE b.data[i]]
      /\ c = [data |-> c.data, read |-> c.read, write |-> c.write]
  BY DEF Compact
<1>3. c.data \in [1 .. Len(b.data) -> Bytes]
  BY <1>1, <1>2 DEF Readable
<1>4. c.data \in Seq(Bytes) /\ Len(c.data) = Len(b.data)
  BY <1>1, <1>3, VectorOf
<1>5. IsBuffer(c)
  BY <1>1, <1>2, <1>4 DEF IsBuffer
<1>6. \A i \in 1 .. Readable(b) : c.data[c.read + i] = b.data[b.read + i]
  BY <1>1, <1>2 DEF Readable
<1> QED BY <1>1, <1>2, <1>4, <1>5, <1>6 DEF Readable

(* resize() to a larger size keeps the indices and what lies before them. *)
LEMMA ResizeKeeps ==
    ASSUME NEW b, IsBuffer(b), NEW size \in Nat, size >= Len(b.data),
           NEW c, c = Resize(b, size)
    PROVE  /\ IsBuffer(c)
           /\ c.read = b.read /\ c.write = b.write
           /\ Len(c.data) = size
           /\ \A i \in 1 .. Len(b.data) : c.data[i] = b.data[i]
<1>1. /\ b.data \in Seq(Bytes) /\ b.read \in Nat /\ b.write \in Nat
      /\ b.read <= b.write /\ b.write <= Len(b.data) /\ Len(b.data) \in Nat
      /\ InitSize <= Len(b.data) /\ InitSize \in Nat
      /\ \A i \in 1 .. Len(b.data) : b.data[i] \in Bytes
      /\ 0 \in Bytes
  BY VectorElements, SizesAssumption DEF IsBuffer, Bytes
<1>2. /\ c.read = b.read /\ c.write = b.write
      /\ c.data = [i \in 1 .. size |-> IF i <= Len(b.data) THEN b.data[i] ELSE 0]
      /\ c = [data |-> c.data, read |-> c.read, write |-> c.write]
  BY DEF Resize, IsBuffer
<1>3. c.data \in [1 .. size -> Bytes]
  BY <1>1, <1>2
<1>4. c.data \in Seq(Bytes) /\ Len(c.data) = size
  BY <1>3, VectorOf
<1>5. IsBuffer(c)
  <2>1. c \in [data : Seq(Bytes), read : Nat, write : Nat]
    BY <1>1, <1>2, <1>4
  <2>2. c.write <= Len(c.data) /\ InitSize <= Len(c.data)
    BY <1>1, <1>2, <1>4
  <2> QED BY <1>1, <1>2, <2>1, <2>2 DEF IsBuffer
<1>6. \A i \in 1 .. Len(b.data) : c.data[i] = b.data[i]
  BY <1>1, <1>2
<1> QED BY <1>2, <1>4, <1>5, <1>6

(* makeSpace leaves room for what was asked for and keeps the content. *)
LEMMA MakeSpaceKeeps ==
    ASSUME NEW b, IsBuffer(b), NEW len \in Nat, NEW m, m = MakeSpace(b, len)
    PROVE  /\ IsBuffer(m)
           /\ Readable(m) = Readable(b)
           /\ Writeable(m) >= len
           /\ \A i \in 1 .. Readable(b) : m.data[m.read + i] = b.data[b.read + i]
           /\ \/ Len(m.data) = Len(b.data)
              \/ Len(m.data) < Readable(m) + len + len + InitSize \div 2 + 1
<1> DEFINE c == IF b.read > InitSize \div 2 THEN Compact(b) ELSE b
<1>1. /\ IsBuffer(c)
      /\ c.read <= InitSize \div 2
      /\ Len(c.data) = Len(b.data)
      /\ Readable(c) = Readable(b)
      /\ \A i \in 1 .. Readable(b) : c.data[c.read + i] = b.data[b.read + i]
  <2>1. CASE b.read > InitSize \div 2
    BY <2>1, CompactKeeps, HalfInit
  <2>2. CASE ~(b.read > InitSize \div 2)
    BY <2>2, HalfInit DEF IsBuffer
  <2> QED BY <2>1, <2>2
<1>2. m = IF Writeable(c) < len THEN Resize(c, Len(c.data) + len) ELSE c
  BY DEF MakeSpace
<1> HIDE DEF c
<1>3. /\ Len(c.data) \in Nat /\ c.read \in Nat /\ c.write \in Nat
      /\ c.read <= c.write /\ c.write <= Len(c.data)
  BY <1>1, VectorElements DEF IsBuffer
<1>4. CASE Writeable(c) < len
  <2>1. /\ IsBuffer(m)
        /\ m.read = c.read /\ m.write = c.write
        /\ Len(m.data) = Len(c.data) + len
        /\ \A i \in 1 .. Len(c.data) : m.data[i] = c.data[i]
    <3>1. Len(c.data) + len \in Nat /\ Len(c.data) + len >= Len(c.data)
      BY <1>3
    <3> QED BY <1>1, <1>2, <1>4, <3>1, ResizeKeeps
  <2>2. \A i \in 1 .. Readable(c) : c.read + i \in 1 .. Len(c.data)
    BY <1>3 DEF Readable
  <2>3. \A i \in 1 .. Readable(b) : m.data[m.read + i] = b.data[b.read + i]
    BY <1>1, <2>1, <2>2
  <2>4. Readable(m) = Readable(c) /\ Writeable(m) >= len
    BY <1>3, <2>1 DEF Readable, Writeable
  <2>5. Len(m.data) < Readable(m) + len + len + InitSize \div 2 + 1
    <3>1. \A d, r, w, h \in Nat : d - w < len /\ r <= h
                                 => d + len < (w - r) + len + len + h + 1
      OBVIOUS
    <3>2. Len(c.data) - c.write < len /\ Readable(m) = c.write - c.read
      BY <1>4, <2>1 DEF Readable, Writeable
    <3>3. Len(c.data) + len < (c.write - c.read) + len + len + InitSize \div 2 + 1
      BY <1>1, <1>3, <3>1, <3>2, HalfInit
    <3> QED BY <2>1, <3>2, <3>3
  <2> QED BY <1>1, <2>1, <2>3, <2>4, <2>5
<1>5. CASE ~(Writeable(c) < len)
  BY <1>1, <1>2, <1>3, <1>5 DEF Writeable
<1> QED BY <1>4, <1>5

(* Copying n bytes to the write index, when they fit. *)
LEMMA CopyInAppends ==
    ASSUME NEW b, IsBuffer(b), NEW t \in Nat, Holds(b, t),
           NEW src \in Seq(Bytes), Len(src) <= Writeable(b),
           \A j \in 1 .. Len(src) : src[j] = t + Readable(b) + j,
           NEW c, c = CopyIn(b, src)
    PROVE  /\ IsBuffer(c)
           /\ Holds(c, t)
           /\ Readable(c) = Readable(b) + Len(src)
           /\ Len(c.data) = Len(b.data)
           /\ Writeable(c) = Writeable(b) - Len(src)
<1>1. /\ b.data \in Seq(Bytes) /\ b.read \in Nat /\ b.write \in Nat
      /\ b.read <= b.write /\ b.write <= Len(b.data) /\ Len(b.data) \in Nat
      /\ InitSize <= Len(b.data)
      /\ \A i \in 1 .. Len(b.data) : b.data[i] \in Bytes
  BY VectorElements DEF IsBuffer
<1>2. Len(src) \in Nat /\ \A j \in 1 .. Len(src) : src[j] \in Bytes
  BY VectorElements
<1>3. b.write + Len(src) <= Len(b.data)
  BY <1>1, <1>2 DEF Writeable
<1>4. /\ c.read = b.read /\ c.write = b.write + Len(src)
      /\ c.data = [i \in 1 .. Len(b.data) |->
                     IF i > b.write /\ i <= b.write + Len(src)
                     THEN src[i - b.write] ELSE b.data[i]]
      /\ c = [data |-> c.data, read |-> c.read, write |-> c.write]
  BY DEF CopyIn, IsBuffer
<1>5. c.data \in [1 .. Len(b.data) -> Bytes]
  <2>1. \A i \in 1 .. Len(b.data) : i > b.write /\ i <= b.write + Len(src)
                                     => i - b.write \in 1 .. Len(src)
    BY <1>1, <1>2
  <2> QED BY <1>1, <1>2, <1>4, <2>1
<1>6. c.data \in Seq(Bytes) /\ Len(c.data) = Len(b.data)
  BY <1>1, <1>5, VectorOf
<1>7. IsBuffer(c)
  <2>1. c \in [data : Seq(Bytes), read : Nat, write : Nat]
    <3>1. b.write + Len(src) \in Nat
      BY <1>1, <1>2
    <3>2. c.data \in Seq(Bytes) /\ c.read \in Nat /\ c.write \in Nat
      BY <1>1, <1>4, <1>6, <3>1
    <3>3. c = [data |-> c.data, read |-> c.read, write |-> c.write]
      BY <1>4
    <3> QED BY <3>2, <3>3
  <2>2. c.write <= Len(c.data) /\ InitSize <= Len(c.data) /\ c.read <= c.write
    BY <1>1, <1>2, <1>3, <1>4, <1>6
  <2> QED BY <2>1, <2>2 DEF IsBuffer
<1>8. Readable(c) = Readable(b) + Len(src) /\ Readable(b) = b.write - b.read
      /\ Readable(b) \in Nat
  BY <1>1, <1>2, <1>4 DEF Readable
<1>9. ASSUME NEW i \in 1 .. Readable(c)
      PROVE  c.data[c.read + i] = t + i
  <2>0. /\ b.read + i \in 1 .. Len(b.data) /\ i \in Nat
        /\ i <= (b.write - b.read) + Len(src)
    <3>1. \A r, w, l, d \in Nat : r <= w /\ w + l <= d =>
             \A k \in 1 .. (w - r) + l : r + k \in 1 .. d /\ k \in Nat /\ k <= (w - r) + l
      OBVIOUS
    <3>2. i \in 1 .. (b.write - b.read) + Len(src)
      BY <1>8
    <3> QED BY <1>1, <1>2, <1>3, <3>1, <3>2
  <2>1. CASE i <= Readable(b)
    <3>1. b.read + i <= b.write /\ i \in 1 .. Readable(b)
      BY <1>1, <1>8, <2>0, <2>1
    <3>2. c.data[b.read + i] = b.data[b.read + i]
      BY <1>1, <1>4, <2>0, <3>1
    <3> QED BY <1>4, <3>1, <3>2 DEF Holds
  <2>2. CASE i > Readable(b)
    <3>1. /\ b.read + i > b.write /\ b.read + i <= b.write + Len(src)
          /\ (b.read + i) - b.write = i - Readable(b)
          /\ i - Readable(b) \in 1 .. Len(src)
      <4>1. \A r, w, l, k \in Nat : r <= w /\ k <= (w - r) + l /\ k > w - r =>
               /\ r + k > w /\ r + k <= w + l
               /\ (r + k) - w = k - (w - r)
               /\ k - (w - r) \in 1 .. l
        OBVIOUS
      <4>2. i > b.write - b.read
        BY <1>8, <2>2
      <4>3. /\ b.read + i > b.write /\ b.read + i <= b.write + Len(src)
            /\ (b.read + i) - b.write = i - (b.write - b.read)
            /\ i - (b.write - b.read) \in 1 .. Len(src)
        BY <1>1, <1>2, <2>0, <4>1, <4>2
      <4> QED BY <1>8, <4>3
    <3>2. c.data[b.read + i] = src[i - Readable(b)]
      BY <1>4, <2>0, <3>1
    <3>3. src[i - Readable(b)] = t + Readable(b) + (i - Readable(b))
      BY <3>1
    <3> QED BY <1>4, <1>8, <2>0, <3>2, <3>3
  <2> QED BY <1>8, <2>0, <2>1, <2>2
<1> QED BY <1>1, <1>2, <1>4, <1>6, <1>7, <1>8, <1>9 DEF Holds, Writeable

(* append: whatever is moved or enlarged, the bytes follow the content,    *)
(* and the vector grows within the bound.                                  *)
LEMMA AppendAppends ==
    ASSUME NEW b, IsBuffer(b), NEW t \in Nat, Holds(b, t), NEW src \in Seq(Bytes),
           \A j \in 1 .. Len(src) : src[j] = t + Readable(b) + j,
           NEW c, c = AppendBytes(b, src)
    PROVE  /\ IsBuffer(c)
           /\ Holds(c, t)
           /\ Readable(c) = Readable(b) + Len(src)
           /\ GrewFor(c, b, Len(src))
<1> DEFINE m == IF Writeable(b) < Len(src) THEN MakeSpace(b, Len(src)) ELSE b
<1>1. /\ Len(src) \in Nat /\ Len(b.data) \in Nat /\ b.read \in Nat /\ b.write \in Nat
      /\ b.read <= b.write
  BY VectorElements DEF IsBuffer
<1>2. /\ IsBuffer(m)
      /\ Readable(m) = Readable(b)
      /\ Len(src) <= Writeable(m)
      /\ \A i \in 1 .. Readable(b) : m.data[m.read + i] = b.data[b.read + i]
      /\ \/ Len(m.data) = Len(b.data)
         \/ Len(m.data) < Readable(m) + Len(src) + Len(src) + InitSize \div 2 + 1
  <2>1. CASE Writeable(b) < Len(src)
    <3>1. m = MakeSpace(b, Len(src))
      BY <2>1
    <3> HIDE DEF m
    <3>2. /\ IsBuffer(m)
          /\ Readable(m) = Readable(b)
          /\ Writeable(m) >= Len(src)
          /\ \A i \in 1 .. Readable(b) : m.data[m.read + i] = b.data[b.read + i]
          /\ \/ Len(m.data) = Len(b.data)
             \/ Len(m.data) < Readable(m) + Len(src) + Len(src) + InitSize \div 2 + 1
      BY <1>1, <3>1, MakeSpaceKeeps
    <3>3. Writeable(m) \in Int
      BY <3>2, VectorElements DEF IsBuffer, Writeable
    <3> QED BY <1>1, <3>2, <3>3
  <2>2. CASE ~(Writeable(b) < Len(src))
    BY <1>1, <2>2 DEF Writeable
  <2> QED BY <2>1, <2>2
<1>3. c = CopyIn(m, src)
  BY DEF AppendBytes
<1> HIDE DEF m
<1>4. Holds(m, t)
  BY <1>2 DEF Holds
<1>5. \A j \in 1 .. Len(src) : src[j] = t + Readable(m) + j
  BY <1>2
<1>6. /\ IsBuffer(c)
      /\ Holds(c, t)
      /\ Readable(c) = Readable(m) + Len(src)
      /\ Len(c.data) = Len(m.data)
  BY <1>2, <1>3, <1>4, <1>5, CopyInAppends
<1>7. GrewFor(c, b, Len(src))
  <2>1. Readable(m) + Len(src) + Len(src) + InitSize \div 2 + 1
          = Readable(c) + Len(src) + InitSize \div 2 + 1
    BY <1>6
  <2> QED BY <1>2, <1>6, <2>1 DEF GrewFor
<1> QED BY <1>2, <1>6, <1>7

(* readFd: the bytes readv put into the vector, and those it put into the  *)
(* stack buffer, follow the content in that order.                         *)
LEMMA ReadFdAppends ==
    ASSUME NEW b, IsBuffer(b), NEW t \in Nat, Holds(b, t), NEW src \in Seq(Bytes),
           \A j \in 1 .. Len(src) : src[j] = t + Readable(b) + j,
           NEW c, c = ReadFdInto(b, src)
    PROVE  /\ IsBuffer(c)
           /\ Holds(c, t)
           /\ Readable(c) = Readable(b) + Len(src)
           /\ GrewFor(c, b, Len(src))
<1> DEFINE w == Writeable(b)
<1>1. /\ Len(src) \in Nat /\ Len(b.data) \in Nat /\ b.read \in Nat /\ b.write \in Nat
      /\ b.read <= b.write /\ b.write <= Len(b.data)
      /\ \A j \in 1 .. Len(src) : src[j] \in Bytes
  BY VectorElements DEF IsBuffer
<1>2. w \in Nat /\ Readable(b) \in Nat
  BY <1>1 DEF Writeable, Readable
<1>3. CASE w > Len(src)
  <2>1. c = CopyIn(b, src) /\ Len(src) <= Writeable(b)
    BY <1>1, <1>2, <1>3 DEF ReadFdInto
  <2> QED BY <2>1, CopyInAppends DEF GrewFor
<1>4. CASE ~(w > Len(src))
  <2> DEFINE s1 == SubSeq(src, 1, w)
             s2 == SubSeq(src, w + 1, Len(src))
             b1 == CopyIn(b, s1)
  <2>1. c = AppendBytes(b1, s2)
    BY <1>4 DEF ReadFdInto
  <2>2. s1 \in Seq(Bytes) /\ Len(s1) = w /\ \A j \in 1 .. w : s1[j] = src[j]
    <3>1. \A j \in 1 .. w : src[j] \in Bytes
      BY <1>1, <1>2, <1>4
    <3> QED BY <1>1, <1>2, <1>4, <3>1, SubSeqProperties
  <2>3. /\ s2 \in Seq(Bytes) /\ Len(s2) = Len(src) - w
        /\ \A j \in 1 .. Len(src) - w : s2[j] = src[w + j]
    <3>1. \A j \in w + 1 .. Len(src) : src[j] \in Bytes
      BY <1>1, <1>2, <1>4
    <3> DEFINE m == w + 1
    <3>2. m \in Nat \ {0} /\ Len(src) \in Nat /\ Len(src) >= m - 1
      BY <1>1, <1>2, <1>4
    <3> HIDE DEF m
    <3>3. \A j \in m .. Len(src) : src[j] \in Bytes
      BY <3>1 DEF m
    <3>4. /\ SubSeq(src, m, Len(src)) \in Seq(Bytes)
          /\ Len(SubSeq(src, m, Len(src))) = Len(src) - m + 1
          /\ \A j \in 1 .. Len(src) - m + 1 : SubSeq(src, m, Len(src))[j] = src[m + j - 1]
      BY <3>2, <3>3, SubSeqProperties
    <3>5. \A j \in 1 .. Len(src) - w : m + j - 1 = w + j
      BY <1>1, <1>2 DEF m
    <3>6. Len(src) - m + 1 = Len(src) - w
      BY <1>1, <1>2 DEF m
    <3>7. s2 = SubSeq(src, m, Len(src))
      BY DEF m
    <3> HIDE DEF s2
    <3> QED BY <3>4, <3>5, <3>6, <3>7
  <2> HIDE DEF s1, s2, b1
  <2>4. b1 = CopyIn(b, s1)
    BY DEF b1
  <2>5. /\ IsBuffer(b1)
        /\ Holds(b1, t)
        /\ Readable(b1) = Readable(b) + w
        /\ Len(b1.data) = Len(b.data)
    <3>1. Len(s1) <= Writeable(b)
      BY <1>2, <2>2
    <3>2. \A j \in 1 .. Len(s1) : s1[j] = t + Readable(b) + j
      <4>1. \A j \in 1 .. Len(s1) : j \in 1 .. Len(src)
        BY <1>1, <1>2, <1>4, <2>2
      <4> QED BY <2>2, <4>1
    <3>3. /\ IsBuffer(b1)
          /\ Holds(b1, t)
          /\ Readable(b1) = Readable(b) + Len(s1)
          /\ Len(b1.data) = Len(b.data)
      BY <2>2, <2>4, <3>1, <3>2, CopyInAppends
    <3> QED BY <2>2, <3>3
  <2> HIDE DEF w
  <2>6. \A j \in 1 .. Len(s2) : s2[j] = t + Readable(b1) + j
    <3> SUFFICES ASSUME NEW j \in 1 .. Len(s2) PROVE s2[j] = t + Readable(b1) + j
      OBVIOUS
    <3>1. j \in 1 .. Len(src) - w /\ w + j \in 1 .. Len(src) /\ j \in Nat
      BY <1>1, <1>2, <2>3
    <3>2. s2[j] = t + Readable(b) + (w + j)
      BY <2>3, <3>1
    <3> QED BY <1>2, <2>5, <3>1, <3>2
  <2>7. /\ IsBuffer(c)
        /\ Holds(c, t)
        /\ Readable(c) = Readable(b1) + Len(s2)
        /\ GrewFor(c, b1, Len(s2))
    BY <2>1, <2>3, <2>5, <2>6, AppendAppends
  <2>8. Readable(c) = Readable(b) + Len(src)
    BY <1>1, <1>2, <2>3, <2>5, <2>7
  <2>9. GrewFor(c, b, Len(src))
    <3>1. Len(c.data) \in Nat /\ Readable(c) \in Nat
      BY <1>1, <1>2, <2>7, <2>8, VectorElements DEF IsBuffer
    <3>2. CASE Len(c.data) = Len(b1.data)
      BY <2>5, <3>2 DEF GrewFor
    <3>3. CASE Len(c.data) < Readable(c) + Len(s2) + InitSize \div 2 + 1
      <4>1. \A d, r, l, v, h \in Nat : d < r + (l - v) + h + 1 => d < r + l + h + 1
        OBVIOUS
      <4>2. Len(c.data) < Readable(c) + (Len(src) - w) + InitSize \div 2 + 1
        BY <2>3, <3>3
      <4>3. Len(c.data) < Readable(c) + Len(src) + InitSize \div 2 + 1
        BY <1>1, <1>2, <3>1, <4>1, <4>2, HalfInit
      <4> QED BY <4>3 DEF GrewFor
    <3> QED BY <2>7, <3>2, <3>3 DEF GrewFor
  <2> QED BY <2>7, <2>8, <2>9
<1> QED BY <1>3, <1>4

(* Moving the read index by n <= readable bytes: the content loses its     *)
(* first n bytes.                                                          *)
LEMMA AdvanceTakes ==
    ASSUME NEW b, IsBuffer(b), NEW t \in Nat, Holds(b, t),
           NEW n \in Nat, n <= Readable(b), NEW c, c = [b EXCEPT !.read = @ + n]
    PROVE  /\ IsBuffer(c)
           /\ Holds(c, t + n)
           /\ Readable(c) = Readable(b) - n
           /\ c.data = b.data
<1>1. /\ Len(b.data) \in Nat /\ b.read \in Nat /\ b.write \in Nat
      /\ b.read <= b.write /\ b.write <= Len(b.data)
      /\ b.data \in Seq(Bytes)
  BY VectorElements DEF IsBuffer
<1>2. /\ c.read = b.read + n /\ c.write = b.write /\ c.data = b.data
      /\ c = [data |-> c.data, read |-> c.read, write |-> c.write]
  BY DEF IsBuffer
<1>3. b.read + n \in Nat /\ b.read + n <= b.write /\ Readable(b) = b.write - b.read
  BY <1>1 DEF Readable
<1>4. IsBuffer(c)
  <2>1. c.data \in Seq(Bytes) /\ c.read \in Nat /\ c.write \in Nat
    BY <1>1, <1>2, <1>3
  <2>2. c \in [data : Seq(Bytes), read : Nat, write : Nat]
    BY <1>2, <2>1
  <2> QED BY <1>2, <1>3, <2>2 DEF IsBuffer
<1>5. Readable(c) = Readable(b) - n
  BY <1>1, <1>2, <1>3 DEF Readable
<1>6. ASSUME NEW i \in 1 .. Readable(c)
      PROVE  c.data[c.read + i] = (t + n) + i
  <2>1. n + i \in 1 .. Readable(b) /\ i \in Nat
    BY <1>1, <1>3, <1>5
  <2>2. b.data[b.read + (n + i)] = t + (n + i)
    BY <2>1 DEF Holds
  <2>3. c.read + i = b.read + (n + i) /\ (t + n) + i = t + (n + i)
    BY <1>1, <1>2, <2>1
  <2> QED BY <1>2, <2>2, <2>3
<1> QED BY <1>2, <1>4, <1>5, <1>6 DEF Holds

(* Resetting both indices: nothing can be read. *)
LEMMA ResetTakesAll ==
    ASSUME NEW b, IsBuffer(b), NEW t, NEW c, c = [b EXCEPT !.read = 0, !.write = 0]
    PROVE  IsBuffer(c) /\ Holds(c, t) /\ Readable(c) = 0 /\ c.data = b.data
<1>1. /\ c.read = 0 /\ c.write = 0 /\ c.data = b.data
      /\ c \in [data : Seq(Bytes), read : Nat, write : Nat]
  BY DEF IsBuffer
<1>2. Len(b.data) \in Nat /\ InitSize <= Len(b.data)
  BY VectorElements DEF IsBuffer
<1>3. IsBuffer(c)
  BY <1>1, <1>2 DEF IsBuffer
<1>4. Readable(c) = 0
  BY <1>1 DEF Readable
<1> QED BY <1>1, <1>3, <1>4 DEF Holds

(* The bytes of an append or a readv are the next ones. *)
LEMMA FreshIsNext ==
    ASSUME BufferInv, NEW n \in Nat, total + n <= MaxBytes
    PROVE  /\ Fresh(n) \in Seq(Bytes)
           /\ Len(Fresh(n)) = n
           /\ \A j \in 1 .. n : Fresh(n)[j] = taken + Readable(buf) + j
<1>1. total \in Nat /\ total = taken + Readable(buf) /\ MaxBytes \in Nat
  BY SizesAssumption DEF BufferInv
<1>2. Fresh(n) \in [1 .. n -> Bytes]
  BY <1>1 DEF Fresh, Bytes
<1>3. \A j \in 1 .. n : Fresh(n)[j] = total + j
  BY DEF Fresh
<1> QED BY <1>1, <1>2, <1>3, VectorOf

(* Init *)
LEMMA BufferInvInit == Init => BufferInv
<1> SUFFICES ASSUME Init PROVE BufferInv
  OBVIOUS
<1>1. InitSize \in Nat /\ MaxBytes \in Nat /\ MaxChunk \in Nat
  BY SizesAssumption
<1>2. buf.data = [i \in 1 .. InitSize |-> 0] /\ buf.read = 0 /\ buf.write = 0
      /\ buf = [data |-> buf.data, read |-> buf.read, write |-> buf.write]
  BY DEF Init
<1>3. buf.data \in [1 .. InitSize -> Bytes]
  BY <1>1, <1>2 DEF Bytes
<1>4. buf.data \in Seq(Bytes) /\ Len(buf.data) = InitSize
  BY <1>1, <1>3, VectorOf
<1>5. IsBuffer(buf)
  BY <1>1, <1>2, <1>4 DEF IsBuffer
<1>6. Readable(buf) = 0 /\ Holds(buf, taken)
  BY <1>2 DEF Readable, Holds
<1>7. GrowthBounded
  BY <1>1, <1>4 DEF GrowthBounded
<1>8. lastInt.got \in Seq(Nat) /\ lastInt.front \in Seq(Nat)
  BY EmptySeq DEF Init
<1> QED BY <1>1, <1>5, <1>6, <1>7, <1>8 DEF BufferInv, Init

(* The counters are natural numbers. *)
LEMMA Counts ==
    ASSUME BufferInv
    PROVE  /\ taken \in Nat /\ Readable(buf) \in Nat /\ total \in Nat /\ peak \in Nat
           /\ total = taken + Readable(buf)
<1>1. buf.read \in Nat /\ buf.write \in Nat /\ buf.read <= buf.write
  BY DEF BufferInv, IsBuffer
<1>2. Readable(buf) \in Nat
  BY <1>1 DEF Readable
<1> QED BY <1>2 DEF BufferInv

(* A step that appends n bytes and grows the vector within the bound. *)
LEMMA PutKeeps ==
    ASSUME BufferInv, NEW n \in 0 .. MaxChunk, total + n <= MaxBytes,
           IsBuffer(buf'), Holds(buf', taken),
           Readable(buf') = Readable(buf) + n, GrewFor(buf', buf, n),
           total' = total + n, peak' = Larger(peak, Readable(buf')),
           UNCHANGED <<taken, lastInt>>
    PROVE  BufferInv'
<1>1. /\ total \in Nat /\ taken \in Nat /\ peak \in Nat /\ Readable(buf) \in Nat
      /\ n \in Nat /\ MaxChunk \in Nat /\ n <= MaxChunk
      /\ total = taken + Readable(buf)
  <2>1. MaxChunk \in Nat
    BY SizesAssumption
  <2> QED BY <2>1, Counts
<1>2. /\ Readable(buf') \in Nat /\ peak' \in Nat /\ peak' >= peak
      /\ Readable(buf') <= peak'
  BY <1>1 DEF Larger
<1>3. total' \in Nat /\ total' <= MaxBytes /\ total' = taken' + Readable(buf')
  BY <1>1
<1>4. GrowthBounded'
  <2>1. Len(buf.data) \in Nat /\ Len(buf'.data) \in Nat /\ InitSize \in Nat
    BY VectorElements, SizesAssumption DEF BufferInv, IsBuffer
  <2>2. CASE Len(buf'.data) = Len(buf.data)
    <3>1. Len(buf.data) <= InitSize \/ Len(buf.data) < peak + MaxChunk + InitSize \div 2 + 1
      BY DEF BufferInv, GrowthBounded
    <3>2. \A d, p, q, m, h \in Nat : d < p + m + h + 1 /\ q >= p => d < q + m + h + 1
      OBVIOUS
    <3>3. Len(buf'.data) <= InitSize \/ Len(buf'.data) < peak' + MaxChunk + InitSize \div 2 + 1
      BY <1>1, <1>2, <2>1, <2>2, <3>1, <3>2, HalfInit
    <3> QED BY <3>3 DEF GrowthBounded
  <2>3. CASE Len(buf'.data) < Readable(buf') + n + InitSize \div 2 + 1
    <3>1. \A d, r, k, q, m, h \in Nat :
             d < r + k + h + 1 /\ q >= r /\ k <= m => d < q + m + h + 1
      OBVIOUS
    <3>2. Len(buf'.data) < peak' + MaxChunk + InitSize \div 2 + 1
      BY <1>1, <1>2, <2>1, <2>3, <3>1, HalfInit
    <3> QED BY <3>2 DEF GrowthBounded
  <2> QED BY <2>2, <2>3 DEF GrewFor
<1>5. Holds(buf', taken')
  OBVIOUS
<1> QED BY <1>1, <1>2, <1>3, <1>4, <1>5 DEF BufferInv

(* A step that consumes n of the readable bytes and keeps the vector. *)
LEMMA TakeKeeps ==
    ASSUME BufferInv, NEW n \in Nat, n <= Readable(buf),
           IsBuffer(buf'), Holds(buf', taken + n),
           Readable(buf') = Readable(buf) - n, buf'.data = buf.data,
           taken' = taken + n, UNCHANGED <<total, peak>>,
           lastInt'.got \in Seq(Nat), lastInt'.front \in Seq(Nat)
    PROVE  BufferInv'
<1>1. /\ total \in Nat /\ taken \in Nat /\ peak \in Nat /\ Readable(buf) \in Nat
      /\ total = taken + Readable(buf) /\ total <= MaxBytes /\ Readable(buf) <= peak
  BY DEF BufferInv, IsBuffer, Readable
<1>2. taken' \in Nat /\ total' = taken' + Readable(buf') /\ Readable(buf') <= peak'
  BY <1>1
<1>3. GrowthBounded'
  BY DEF BufferInv, GrowthBounded
<1>4. Holds(buf', taken')
  OBVIOUS
<1> QED BY <1>1, <1>2, <1>3, <1>4 DEF BufferInv

(* peekInt returns bytes of the vector. *)
LEMMA PeekType ==
    ASSUME NEW b, IsBuffer(b), NEW size \in Nat
    PROVE  PeekInt(b, size) \in Seq(Nat)
<1>1. /\ b.read \in Nat /\ b.write \in Nat /\ Len(b.data) \in Nat
      /\ b.write <= Len(b.data)
      /\ \A i \in 1 .. Len(b.data) : b.data[i] \in Bytes
  BY VectorElements DEF IsBuffer
<1>2. CASE b.read + size > b.write
  BY <1>2, EmptySeq DEF PeekInt
<1>3. CASE ~(b.read + size > b.write)
  <2>1. \A i \in b.read + 1 .. b.read + size : b.data[i] \in Nat
    BY <1>1, <1>3, SizesAssumption DEF Bytes
  <2>2. b.read + 1 \in Int /\ b.read + size \in Int
    BY <1>1
  <2> QED BY <1>3, <2>1, <2>2, SubSeqProperties DEF PeekInt
<1> QED BY <1>2, <1>3

(* What every operation does to the content, as one of two kinds of step. *)
PutStep(n) ==
    /\ IsBuffer(buf') /\ Holds(buf', taken)
    /\ Readable(buf') = Readable(buf) + n /\ GrewFor(buf', buf, n)
    /\ total' = total + n /\ peak' = Larger(peak, Readable(buf'))
    /\ UNCHANGED <<taken, lastInt>>

TakeStep(n) ==
    /\ n <= Readable(buf)
    /\ IsBuffer(buf') /\ Holds(buf', taken + n)
    /\ Readable(buf') = Readable(buf) - n /\ buf'.data = buf.data
    /\ taken' = taken + n /\ UNCHANGED <<total, peak>>
    /\ lastInt'.got \in Seq(Nat) /\ lastInt'.front \in Seq(Nat)

(* append and readFd append, retrieve and readInt consume. *)
LEMMA StepKinds ==
    ASSUME BufferInv, Next
    PROVE  \/ \E n \in 0 .. MaxChunk : total + n <= MaxBytes /\ PutStep(n)
           \/ \E n \in Nat : TakeStep(n)
<1>1. IsBuffer(buf) /\ Holds(buf, taken) /\ taken \in Nat /\ Readable(buf) \in Nat
  BY DEF BufferInv, IsBuffer, Readable
<1>2. ASSUME NEW n \in 0 .. MaxChunk, Append_(n)
      PROVE  total + n <= MaxBytes /\ PutStep(n)
  <2>1. n \in Nat /\ total + n <= MaxBytes /\ buf' = AppendBytes(buf, Fresh(n))
    BY <1>2 DEF Append_
  <2>2. /\ Fresh(n) \in Seq(Bytes) /\ Len(Fresh(n)) = n
        /\ \A j \in 1 .. n : Fresh(n)[j] = taken + Readable(buf) + j
    BY <2>1, FreshIsNext
  <2>3. /\ IsBuffer(buf') /\ Holds(buf', taken)
        /\ Readable(buf') = Readable(buf) + Len(Fresh(n))
        /\ GrewFor(buf', buf, Len(Fresh(n)))
    BY <1>1, <2>1, <2>2, AppendAppends
  <2> QED BY <1>2, <2>1, <2>2, <2>3 DEF Append_, PutStep
<1>3. ASSUME NEW n \in 0 .. MaxChunk, ReadFd(n)
      PROVE  total + n <= MaxBytes /\ PutStep(n)
  <2>1. n \in Nat /\ total + n <= MaxBytes /\ buf' = ReadFdInto(buf, Fresh(n))
    BY <1>3 DEF ReadFd
  <2>2. /\ Fresh(n) \in Seq(Bytes) /\ Len(Fresh(n)) = n
        /\ \A j \in 1 .. n : Fresh(n)[j] = taken + Readable(buf) + j
    BY <2>1, FreshIsNext
  <2>3. /\ IsBuffer(buf') /\ Holds(buf', taken)
        /\ Readable(buf') = Readable(buf) + Len(Fresh(n))
        /\ GrewFor(buf', buf, Len(Fresh(n)))
    BY <1>1, <2>1, <2>2, ReadFdAppends
  <2> QED BY <1>3, <2>1, <2>2, <2>3 DEF ReadFd, PutStep
<1>4. ASSUME NEW n \in 0 .. MaxBytes, Retrieve(n)
      PROVE  \E k \in Nat : TakeStep(k)
  <2>0. lastInt'.got \in Seq(Nat) /\ lastInt'.front \in Seq(Nat) /\ n \in Nat
    BY <1>4 DEF Retrieve, BufferInv
  <2>1. CASE n < Readable(buf)
    <3>1. buf' = [buf EXCEPT !.read = @ + n] /\ taken' = taken + n
          /\ UNCHANGED <<total, peak>>
      BY <1>4, <2>1 DEF Retrieve, RetrieveFrom
    <3>2. n <= Readable(buf)
      BY <1>1, <2>0, <2>1
    <3>3. /\ IsBuffer(buf') /\ Holds(buf', taken + n)
          /\ Readable(buf') = Readable(buf) - n /\ buf'.data = buf.data
      BY <1>1, <2>0, <3>1, <3>2, AdvanceTakes
    <3> QED BY <2>0, <3>1, <3>2, <3>3 DEF TakeStep
  <2>2. CASE ~(n < Readable(buf))
    <3>1. buf' = [buf EXCEPT !.read = 0, !.write = 0] /\ taken' = taken + Readable(buf)
          /\ UNCHANGED <<total, peak>>
      BY <1>4, <2>2 DEF Retrieve, RetrieveFrom
    <3>2. /\ IsBuffer(buf') /\ Holds(buf', taken + Readable(buf))
          /\ Readable(buf') = 0 /\ buf'.data = buf.data
      BY <1>1, <3>1, ResetTakesAll
    <3>3. TakeStep(Readable(buf))
      BY <1>1, <2>0, <3>1, <3>2 DEF TakeStep
    <3> QED BY <1>1, <3>3
  <2> QED BY <2>1, <2>2
<1>5. ASSUME NEW size \in {1, 2, 4}, ReadInt(size)
      PROVE  \E k \in Nat : TakeStep(k)
  <2> DEFINE k == IntStep(size)
  <2>1. k \in Nat /\ size \in Nat /\ k <= size
    BY DEF IntStep
  <2>2. k <= Readable(buf) /\ buf' = [buf EXCEPT !.read = @ + k] /\ taken' = taken + k
        /\ UNCHANGED <<total, peak>>
    BY <1>1, <1>5, <2>1 DEF ReadInt
  <2> HIDE DEF k
  <2>3. /\ IsBuffer(buf') /\ Holds(buf', taken + k)
        /\ Readable(buf') = Readable(buf) - k /\ buf'.data = buf.data
    BY <1>1, <2>1, <2>2, AdvanceTakes
  <2>4. PeekInt(buf, size) \in Seq(Nat) /\ PeekInt(buf', size) \in Seq(Nat)
    BY <1>1, <2>1, <2>3, PeekType
  <2>5. lastInt'.got \in Seq(Nat) /\ lastInt'.front \in Seq(Nat)
    BY <1>5, <2>4 DEF ReadInt
  <2>6. TakeStep(k)
    BY <2>2, <2>3, <2>5 DEF TakeStep
  <2> QED BY <2>1, <2>6
<1> QED BY <1>2, <1>3, <1>4, <1>5 DEF Next

(* Every operation keeps the invariant. *)
LEMMA BufferInvNext == BufferInv /\ [Next]_vars => BufferInv'
<1> SUFFICES ASSUME BufferInv, [Next]_vars PROVE BufferInv'
  OBVIOUS
<1>1. CASE UNCHANGED vars
  BY <1>1 DEF vars, BufferInv, IsBuffer, Holds, Readable, GrowthBounded
<1>2. CASE Next
  <2>1. ASSUME NEW n \in 0 .. MaxChunk, total + n <= MaxBytes, PutStep(n)
        PROVE  BufferInv'
    BY <2>1, PutKeeps DEF PutStep
  <2>2. ASSUME NEW n \in Nat, TakeStep(n)
        PROVE  BufferInv'
    BY <2>2, TakeKeeps DEF TakeStep
  <2> QED BY <1>2, <2>1, <2>2, StepKinds
<1> QED BY <1>1, <1>2

(* The content is what was appended and not consumed, the indices stay in  *)
(* the vector and the vector within its bound, for all sizes.              *)
THEOREM BufferInvariant == Spec => []BufferInv
<1>1. Init => BufferInv
  BY BufferInvInit
<1>2. BufferInv /\ [Next]_vars => BufferInv'
  BY BufferInvNext
<1> QED BY <1>1, <1>2, PTL DEF Spec

(* The types of the buffer and of the history. *)
THEOREM TypeCorrect == Spec => []TypeOK
<1>1. BufferInv => TypeOK
  BY DEF BufferInv, IsBuffer, TypeOK, Bytes
<1> QED BY <1>1, BufferInvariant, PTL

(* No append, readv or read touches memory outside buffer_. *)
THEOREM InBoundsCorrect == Spec => []InBounds
<1>1. BufferInv => InBounds
  BY DEF BufferInv, IsBuffer, InBounds
<1> QED BY <1>1, BufferInvariant, PTL

(* However long the buffer is used without being empty, the vector stays   *)
(* within half the initial size plus one chunk of the most it ever held.   *)
THEOREM GrowthCorrect == Spec => []GrowthBounded
<1>1. BufferInv => GrowthBounded
  BY DEF BufferInv
<1> QED BY <1>1, BufferInvariant, PTL

-----------------------------------------------------------------------------
(* The refinement of ByteQueue. *)

(* The content, written as the bytes it consists of. *)
LEMMA ContentIs ==
    ASSUME BufferInv
    PROVE  Content(buf) = [i \in 1 .. Readable(buf) |-> taken + i]
  BY DEF BufferInv, Holds, Content

(* The same after a step. *)
LEMMA ContentIsNext ==
    ASSUME BufferInv'
    PROVE  Content(buf)' = [i \in 1 .. Readable(buf') |-> taken' + i]
  BY DEF BufferInv, Holds, Content, Readable

(* Consecutive runs of bytes joined. *)
LEMMA RunJoined ==
    ASSUME NEW t \in Nat, NEW m \in Nat, NEW n \in Nat
    PROVE  [i \in 1 .. m |-> t + i] \o [i \in 1 .. n |-> (t + m) + i]
             = [i \in 1 .. m + n |-> t + i]
<1> DEFINE a == [i \in 1 .. m |-> t + i]
           b == [i \in 1 .. n |-> (t + m) + i]
           c == [i \in 1 .. m + n |-> t + i]
<1>1. a \in [1 .. m -> Nat] /\ b \in [1 .. n -> Nat] /\ c \in [1 .. m + n -> Nat]
  OBVIOUS
<1>2. /\ a \in Seq(Nat) /\ Len(a) = m /\ b \in Seq(Nat) /\ Len(b) = n
      /\ c \in Seq(Nat) /\ Len(c) = m + n
  BY <1>1, VectorOf
<1>3. /\ a \o b \in Seq(Nat) /\ Len(a \o b) = m + n
      /\ \A i \in 1 .. m + n : (a \o b)[i] = IF i <= m THEN a[i] ELSE b[i - m]
  BY <1>2, ConcatProperties
<1>4. \A i \in 1 .. m + n : (a \o b)[i] = c[i]
  <2> SUFFICES ASSUME NEW i \in 1 .. m + n PROVE (a \o b)[i] = c[i]
    OBVIOUS
  <2>1. CASE i <= m
    BY <1>3, <2>1
  <2>2. CASE i > m
    <3>1. i - m \in 1 .. n /\ (t + m) + (i - m) = t + i
      BY <2>2
    <3> QED BY <1>3, <2>2, <3>1
  <2> QED BY <2>1, <2>2
<1> HIDE DEF a, b, c
<1>5. a \o b = c
  BY <1>2, <1>3, <1>4, SeqEqual
<1> QED BY <1>5 DEF a, b, c

(* A run of bytes without its first n. *)
LEMMA RunCut ==
    ASSUME NEW t \in Nat, NEW m \in Nat, NEW n \in Nat, n <= m
    PROVE  /\ Len([i \in 1 .. m |-> t + i]) = m
           /\ SubSeq([i \in 1 .. m |-> t + i], n + 1, m)
                = [i \in 1 .. m - n |-> (t + n) + i]
<1> DEFINE a == [i \in 1 .. m |-> t + i]
           c == [i \in 1 .. m - n |-> (t + n) + i]
           k == n + 1
<1>1. a \in [1 .. m -> Nat] /\ c \in [1 .. m - n -> Nat] /\ m - n \in Nat
  OBVIOUS
<1>2. a \in Seq(Nat) /\ Len(a) = m /\ c \in Seq(Nat) /\ Len(c) = m - n
  <2> HIDE DEF a, c
  <2> QED BY <1>1, VectorOf
<1>3. k \in Int /\ m \in Int /\ \A i \in k .. m : a[i] \in Nat
  OBVIOUS
<1>4. m - k + 1 = m - n /\ (k <= m <=> n < m) /\ (n = m => m - n = 0)
  OBVIOUS
<1>5. \A i \in 1 .. m - n : k + i - 1 \in 1 .. m /\ t + (k + i - 1) = (t + n) + i
  OBVIOUS
<1>6. \A i \in 1 .. m - n : a[k + i - 1] = c[i]
  BY <1>5
<1> HIDE DEF a, c, k
<1>7. /\ SubSeq(a, k, m) \in Seq(Nat)
      /\ Len(SubSeq(a, k, m)) = m - n
      /\ \A i \in 1 .. m - n : SubSeq(a, k, m)[i] = a[k + i - 1]
  <2>1. /\ SubSeq(a, k, m) \in Seq(Nat)
        /\ Len(SubSeq(a, k, m)) = IF k <= m THEN m - k + 1 ELSE 0
        /\ \A i \in 1 .. m - k + 1 : SubSeq(a, k, m)[i] = a[k + i - 1]
    BY <1>3, SubSeqProperties
  <2> QED BY <1>4, <2>1
<1>8. SubSeq(a, k, m) = c
  BY <1>2, <1>6, <1>7, SeqEqual
<1> QED BY <1>2, <1>8 DEF a, c, k

(* Every operation puts bytes at the end or takes them from the front. *)
THEOREM QueueRefined == Spec => RefinesByteQueue
<1>1. Init => Queue!QueueInit
  <2> SUFFICES ASSUME Init PROVE Content(buf) = <<>>
    BY DEF Init, Queue!QueueInit
  <2>1. Readable(buf) = 0
    BY DEF Init, Readable
  <2>2. Content(buf) \in [1 .. 0 -> Bytes]
    BY <2>1 DEF Content
  <2>3. Content(buf) \in Seq(Bytes) /\ Len(Content(buf)) = 0
    BY <2>2, VectorOf
  <2> QED BY <2>3, EmptySeq
<1>2. BufferInv /\ BufferInv' /\ [Next]_vars => [Queue!Put \/ Queue!Take]_(Queue!queueVars)
  <2> SUFFICES ASSUME BufferInv, BufferInv', [Next]_vars
               PROVE  Queue!Put \/ Queue!Take \/ UNCHANGED Queue!queueVars
    OBVIOUS
  <2>1. /\ taken \in Nat /\ Readable(buf) \in Nat /\ total \in Nat
        /\ total = taken + Readable(buf)
    BY Counts
  <2>2. ASSUME NEW n \in 0 .. MaxChunk, PutStep(n)
        PROVE  Queue!Put \/ UNCHANGED Queue!queueVars
    <3>1. /\ total' = total + n /\ taken' = taken /\ n \in Nat
          /\ Readable(buf') = Readable(buf) + n
      BY <2>2 DEF PutStep
    <3>2. CASE n = 0
      <4>1. Readable(buf') = Readable(buf) /\ total' = total
        BY <2>1, <3>1, <3>2
      <4>2. Content(buf)' = Content(buf)
        BY <3>1, <4>1, ContentIs, ContentIsNext
      <4> QED BY <3>1, <4>1, <4>2 DEF Queue!queueVars
    <3>3. CASE n > 0
      <4>1. total' > total /\ total' - total = n
        BY <2>1, <3>1, <3>3
      <4>2. Content(buf)' = Content(buf) \o [i \in 1 .. n |-> total + i]
        <5>1. Content(buf)' = [i \in 1 .. Readable(buf) + n |-> taken + i]
          BY <3>1, ContentIsNext
        <5>2. [i \in 1 .. n |-> total + i] = [i \in 1 .. n |-> (taken + Readable(buf)) + i]
          BY <2>1
        <5>3. [i \in 1 .. Readable(buf) |-> taken + i]
                \o [i \in 1 .. n |-> (taken + Readable(buf)) + i]
              = [i \in 1 .. Readable(buf) + n |-> taken + i]
          BY <2>1, <3>1, RunJoined
        <5>4. Content(buf) = [i \in 1 .. Readable(buf) |-> taken + i]
          BY ContentIs
        <5> QED BY <5>1, <5>2, <5>3, <5>4, Zenon
      <4> QED BY <3>1, <4>1, <4>2 DEF Queue!Put
    <3> QED BY <3>1, <3>2, <3>3
  <2>3. ASSUME NEW n \in Nat, TakeStep(n)
        PROVE  Queue!Take \/ UNCHANGED Queue!queueVars
    <3>1. /\ total' = total /\ taken' = taken + n /\ n <= Readable(buf)
          /\ Readable(buf') = Readable(buf) - n
      BY <2>3 DEF TakeStep
    <3>2. CASE n = 0
      <4>1. Readable(buf') = Readable(buf) /\ taken' = taken
        BY <2>1, <3>1, <3>2
      <4>2. Content(buf)' = Content(buf)
        BY <4>1, ContentIs, ContentIsNext
      <4> QED BY <3>1, <4>1, <4>2 DEF Queue!queueVars
    <3>3. CASE n > 0
      <4>1. taken' > taken /\ taken' - taken = n
        BY <2>1, <3>1, <3>3
      <4>2. Len(Content(buf)) = Readable(buf)
            /\ Content(buf)' = SubSeq(Content(buf), n + 1, Readable(buf))
        BY <2>1, <3>1, ContentIs, ContentIsNext, RunCut
      <4> QED BY <3>1, <4>1, <4>2 DEF Queue!Take
    <3> QED BY <3>2, <3>3
  <2>4. CASE UNCHANGED vars
    <3>1. buf' = buf /\ total' = total /\ taken' = taken
      BY <2>4 DEF vars
    <3> QED BY <3>1 DEF Queue!queueVars, Content
  <2> QED BY <2>2, <2>3, <2>4, StepKinds
<1> QED BY <1>1, <1>2, BufferInvariant, PTL
        DEF Spec, RefinesByteQueue, Queue!QueueSpec
=============================================================================
