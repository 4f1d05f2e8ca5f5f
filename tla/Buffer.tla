------------------------------- MODULE Buffer -------------------------------
(***************************************************************************)
(* Buffer: a vector with a read and a write index.  Bytes are appended at  *)
(* the write index, from memory or by readv() from a socket, and consumed  *)
(* at the read index; space is made by moving the content to the front or  *)
(* by enlarging the vector.                                                *)
(*                                                                         *)
(* A buffer b has b.data (buffer_), b.read (read_index_) and b.write       *)
(* (write_index_).  The n-th byte ever appended is the number n, so that   *)
(* the content tells which bytes it consists of.                           *)
(***************************************************************************)
EXTENDS Integers, Sequences

CONSTANTS InitSize,     \* init_size_ (1024 in the code)
          StackSize,    \* STACK_BUFFER_SIZE of readFd (65536)
          MaxChunk,     \* bound: bytes in one append or one readv
          MaxBytes      \* bound: bytes ever appended

ASSUME SizesAssumption ==
    /\ InitSize \in Nat \ {0}
    /\ StackSize \in Nat
    /\ MaxChunk \in Nat
    /\ MaxBytes \in Nat

VARIABLES buf,          \* the buffer
          total,        \* history: bytes appended
          taken,        \* history: bytes consumed
          peak,         \* history: the most bytes that were readable at once
          lastInt       \* history: what the last readInt returned and should

vars == <<buf, total, taken, peak, lastInt>>

Readable(b) == b.write - b.read
Writeable(b) == Len(b.data) - b.write

(* The bytes that can be read. *)
Content(b) == [i \in 1 .. Readable(b) |-> b.data[b.read + i]]

-----------------------------------------------------------------------------
(* The operations of the class, on a buffer. *)

(* Move the content to the front. *)
Compact(b) ==
    [data  |-> [i \in 1 .. Len(b.data) |->
                  IF i <= Readable(b) THEN b.data[b.read + i] ELSE b.data[i]],
     read  |-> 0,
     write |-> b.write - b.read]

Resize(b, size) ==
    [b EXCEPT !.data = [i \in 1 .. size |-> IF i <= Len(b.data) THEN b.data[i] ELSE 0]]

MakeSpaceGrowOnly(b, len) ==
    IF Writeable(b) < len THEN Resize(b, Len(b.data) + len) ELSE b

MakeSpaceOnce(b, len) ==
    IF b.read > InitSize \div 2 THEN Compact(b) ELSE Resize(b, Len(b.data) + len)

MakeSpace(b, len) ==
    LET c == IF b.read > InitSize \div 2 THEN Compact(b) ELSE b
    IN  IF Writeable(c) < len THEN Resize(c, Len(c.data) + len) ELSE c

(* std::copy to the write index, which moves by the length of src. *)
CopyIn(b, src) ==
    [b EXCEPT !.data = [i \in 1 .. Len(b.data) |->
                          IF i > b.write /\ i <= b.write + Len(src)
                          THEN src[i - b.write] ELSE b.data[i]],
              !.write = b.write + Len(src)]

AppendBytes(b, src) ==
    CopyIn(IF Writeable(b) < Len(src) THEN MakeSpace(b, Len(src)) ELSE b, src)

(* readFd: readv() fills the vector first and the stack buffer then; what  *)
(* is in the stack buffer is appended.                                     *)
ReadFdInto(b, src) ==
    LET w == Writeable(b) IN
    IF w > Len(src)
    THEN CopyIn(b, src)
    ELSE AppendBytes(CopyIn(b, SubSeq(src, 1, w)), SubSeq(src, w + 1, Len(src)))

RetrieveAll(b, len) == [b EXCEPT !.read = 0, !.write = 0]

(* retrieve, and the effect of readAsString: all of it resets the indices. *)
RetrieveFrom(b, len) ==
    IF len < Readable(b) THEN [b EXCEPT !.read = @ + len]
    ELSE [b EXCEPT !.read = 0, !.write = 0]

(* How far readInt8, readInt16 and readInt32 move the read index, and what *)
(* peekInt8, peekInt16 and peekInt32 then return.                          *)
IntStep(size) == IF size = 4 THEN 2 ELSE size

PeekInt(b, size) ==
    IF b.read + size > b.write THEN <<>>        \* 0
    ELSE SubSeq(b.data, b.read + 1, b.read + size)

-----------------------------------------------------------------------------
TypeOK ==
    /\ buf \in [data : Seq(0 .. MaxBytes), read : Nat, write : Nat]
    /\ total \in Nat
    /\ taken \in Nat
    /\ peak \in Nat
    /\ lastInt.got \in Seq(Nat) /\ lastInt.front \in Seq(Nat)

Init ==
    /\ buf = [data |-> [i \in 1 .. InitSize |-> 0], read |-> 0, write |-> 0]
    /\ total = 0
    /\ taken = 0
    /\ peak = 0
    /\ lastInt = [got |-> <<>>, front |-> <<>>]

Fresh(n) == [i \in 1 .. n |-> total + i]

Larger(m, n) == IF m > n THEN m ELSE n

(* append, writeInt8, writeInt16, writeInt32 *)
Append_(n) ==
    /\ total + n <= MaxBytes
    /\ buf' = AppendBytes(buf, Fresh(n))
    /\ total' = total + n
    /\ peak' = Larger(peak, Readable(buf'))
    /\ UNCHANGED <<taken, lastInt>>

(* readFd with n bytes; a failing readv, or the end of the stream, changes *)
(* nothing (n = 0 takes the second branch when the vector is full).        *)
ReadFd(n) ==
    /\ total + n <= MaxBytes
    /\ n <= Writeable(buf) + StackSize
    /\ buf' = ReadFdInto(buf, Fresh(n))
    /\ total' = total + n
    /\ peak' = Larger(peak, Readable(buf'))
    /\ UNCHANGED <<taken, lastInt>>

(* retrieve, readAsString, readAllAsString *)
Retrieve(n) ==
    /\ buf' = RetrieveFrom(buf, n)
    /\ taken' = taken + (IF n < Readable(buf) THEN n ELSE Readable(buf))
    /\ UNCHANGED <<total, peak, lastInt>>

ReadInt(size) ==
    /\ size <= Readable(buf)
    /\ buf' = [buf EXCEPT !.read = @ + IntStep(size)]
    /\ taken' = taken + IntStep(size)
    /\ lastInt' = [got |-> PeekInt(buf', size), front |-> PeekInt(buf, size)]
    /\ UNCHANGED <<total, peak>>

Next ==
    \/ \E n \in 0 .. MaxChunk : Append_(n) \/ ReadFd(n)
    \/ \E n \in 0 .. MaxBytes : Retrieve(n)
    \/ \E size \in {1, 2, 4} : ReadInt(size)

Spec == Init /\ [][Next]_vars

-----------------------------------------------------------------------------
(* The indices never leave the vector, and the read index never passes the *)
(* write index: no append, readv or read touches memory outside buffer_.   *)
InBounds ==
    /\ 0 <= buf.read
    /\ buf.read <= buf.write
    /\ buf.write <= Len(buf.data)
    /\ InitSize <= Len(buf.data)

(* Compaction keeps up with enlargement: however long the buffer is used   *)
(* without ever being empty, the vector stays within half the initial      *)
(* size plus one chunk of the most that was ever readable at once.         *)
GrowthBounded ==
    Len(buf.data) <= InitSize \/ Len(buf.data) < peak + MaxChunk + InitSize \div 2 + 1

(* The content is what was appended and not consumed, in order. *)
Queue == INSTANCE ByteQueue WITH content <- Content(buf)

(* Every operation puts bytes at the end or takes them from the front,     *)
(* whatever was moved or enlarged.                                         *)
RefinesByteQueue == Queue!QueueSpec

(* readInt8/16/32 return the integer at the front, as the test of          *)
(* writeInt8/16/32 followed by readInt8/16/32 expects.                     *)
IntsReadBack == lastInt.got = lastInt.front
=============================================================================
