------------------------ MODULE TcpConnectionProofs ------------------------
(***************************************************************************)
(* Proofs about the output path of TcpConnection, for any number of        *)
(* threads, messages of any length and any size of the socket's buffer.    *)
(***************************************************************************)
EXTENDS TcpConnection, SequenceTheorems, TLAPS

(* The kernel never holds more than it can: what ::send takes is not       *)
(* negative.                                                               *)
RoomOK == read <= Len(wire) /\ Len(wire) - read <= Capacity

(* FinAfterTaken is not inductive: that nothing waits when the write side  *)
(* is shut down is what keeps sendInLoop from buffering afterwards.        *)
FinQuiet == fin /\ ~closed => output_buffer_ = <<>>

OutputType ==
    /\ output_buffer_ \in Seq(Bytes) /\ wire \in Seq(Bytes) /\ taken \in Seq(Bytes)
    /\ read \in Nat

OutputOK == OutputType /\ RoomOK /\ WritingIffBuffered /\ StreamConserved /\ FinQuiet

Booleans ==
    writing \in BOOLEAN /\ fin \in BOOLEAN /\ reset \in BOOLEAN /\ closed \in BOOLEAN

(* A sequence cut in two. *)
LEMMA Cut ==
    ASSUME NEW S, NEW s \in Seq(S), NEW k \in 0 .. Len(s)
    PROVE  /\ Front(s, k) \in Seq(S) /\ Len(Front(s, k)) = k
           /\ Rest(s, k) \in Seq(S) /\ Len(Rest(s, k)) = Len(s) - k
           /\ Front(s, k) \o Rest(s, k) = s
<1>1. Len(s) \in Nat
  OBVIOUS
<1>2. \A i \in 1 .. k : s[i] \in S
  BY <1>1
<1>3. \A i \in k + 1 .. Len(s) : s[i] \in S
  BY <1>1
<1>4. Front(s, k) \in Seq(S) /\ Len(Front(s, k)) = k
  BY <1>1, <1>2, SubSeqProperties DEF Front
<1>5. Rest(s, k) \in Seq(S) /\ Len(Rest(s, k)) = Len(s) - k
  BY <1>1, <1>3, SubSeqProperties DEF Rest
<1>6. SubSeq(s, 1, k) \o SubSeq(s, k + 1, Len(s)) = SubSeq(s, 1, Len(s))
  <2>1. 1 \in 1 .. Len(s) + 1 /\ k \in 1 - 1 .. Len(s) /\ Len(s) \in k .. Len(s)
    BY <1>1
  <2> HIDE <1>1
  <2> QED BY <2>1, ConcatAdjacentSubSeq, Zenon
<1>7. SubSeq(s, 1, Len(s)) = s
  BY SubSeqFull
<1> QED BY <1>4, <1>5, <1>6, <1>7 DEF Front, Rest

(* Three sequences in a row, and the length of two. *)
LEMMA InARow ==
    \A s, t, u \in Seq(Bytes) : (s \o t) \o u = s \o (t \o u)
  BY ConcatAssociative

LEMMA LenOfTwo ==
    \A s, t \in Seq(Bytes) : s \o t \in Seq(Bytes) /\ Len(s \o t) = Len(s) + Len(t)
  BY ConcatProperties

(* ::send takes some of the bytes, and no more than there is room for. *)
LEMMA FitsInRoom ==
    ASSUME OutputType, RoomOK, NEW n \in Nat
    PROVE  Fits(n) \in 0 .. n /\ Len(wire) + Fits(n) - read <= Capacity
<1>1. Len(wire) \in Nat /\ Capacity \in Nat /\ read \in Nat
  BY ConnectionAssumption DEF OutputType
<1> QED BY <1>1 DEF Fits, Room, RoomOK

(* A message, from whatever thread, becomes part of the stream or is       *)
(* refused as a whole; the output path stays in order.                     *)
LEMMA SendInLoopKeeps ==
    ASSUME OutputOK, Booleans, NEW m \in Seq(Bytes), SendInLoop(m),
           UNCHANGED <<read, ending>>
    PROVE  OutputOK' /\ writing' \in BOOLEAN
<1> USE DEF OutputOK
<1>1. CASE UNCHANGED <<output, task_vec_>>
  BY <1>1 DEF output, ending, OutputType, RoomOK, WritingIffBuffered, StreamConserved,
              FinQuiet, Booleans
<1>2. CASE ~WriteAtOnce /\ BufferUp(m) /\ taken' = taken \o m /\ UNCHANGED wire
  <2>1. output_buffer_' = output_buffer_ \o m /\ writing' = ((m # <<>>) \/ writing)
    BY <1>2 DEF BufferUp, EnableWriting
  <2>2. OutputType'
    BY <1>2, <2>1, ConcatProperties DEF OutputType
  <2>3. StreamConserved'
    <3>1. (wire \o output_buffer_) \o m = wire \o (output_buffer_ \o m)
      BY InARow DEF OutputType
    <3> QED BY <1>2, <2>1, <3>1 DEF StreamConserved
  <2>4. output_buffer_ # <<>> => output_buffer_' # <<>>
    BY <2>1, ConcatEqualIffEmpty DEF OutputType
  <2>5. ~closed => writing /\ output_buffer_ # <<>>
    BY <1>2 DEF WriteAtOnce, WritingIffBuffered, Booleans
  <2>6. closed' = closed /\ fin' = fin
    BY DEF ending
  <2>7. ~closed => writing' = TRUE
    BY <2>1, <2>5 DEF Booleans
  <2>8. WritingIffBuffered' /\ FinQuiet' /\ writing' \in BOOLEAN
    BY <2>1, <2>4, <2>5, <2>6, <2>7 DEF WritingIffBuffered, FinQuiet, Booleans
  <2> QED BY <1>2, <2>2, <2>3, <2>8 DEF RoomOK
<1>3. ASSUME WriteAtOnce, ~Broken, NEW k \in {0, Fits(Len(m))},
             wire' = wire \o Front(m, k), BufferUp(Rest(m, k)), taken' = taken \o m
      PROVE  OutputOK' /\ writing' \in BOOLEAN
  <2>1. Len(m) \in Nat /\ k \in 0 .. Len(m) /\ Len(wire) + k - read <= Capacity
    <3>1. Len(m) \in Nat /\ Len(wire) \in Nat /\ read \in Nat
      BY DEF OutputType
    <3>2. Fits(Len(m)) \in 0 .. Len(m) /\ Len(wire) + Fits(Len(m)) - read <= Capacity
      BY <3>1, FitsInRoom
    <3>3. 0 \in 0 .. Len(m) /\ Len(wire) + 0 - read <= Capacity
      BY <3>1, ConnectionAssumption DEF RoomOK
    <3>4. k = 0 \/ k = Fits(Len(m))
      BY <1>3
    <3> QED BY <3>1, <3>2, <3>3, <3>4
  <2>2. /\ Front(m, k) \in Seq(Bytes) /\ Len(Front(m, k)) = k
        /\ Rest(m, k) \in Seq(Bytes) /\ Front(m, k) \o Rest(m, k) = m
    BY <2>1, Cut
  <2>3. output_buffer_ = <<>> /\ ~writing
    BY <1>3 DEF WriteAtOnce
  <2>4. output_buffer_' = Rest(m, k)
    BY <1>3, <2>2, <2>3, ConcatEmptySeq DEF BufferUp
  <2>5. writing' = ((Rest(m, k) # <<>>) \/ writing)
    BY <1>3 DEF BufferUp, EnableWriting
  <2>6. taken = wire
    BY <2>3, ConcatEmptySeq DEF StreamConserved, OutputType
  <2>7. StreamConserved'
    <3>1. (wire \o Front(m, k)) \o Rest(m, k) = wire \o (Front(m, k) \o Rest(m, k))
      BY <2>2, InARow DEF OutputType
    <3> QED BY <1>3, <2>2, <2>4, <2>6, <3>1 DEF StreamConserved
  <2>8. OutputType'
    BY <1>3, <2>2, <2>4, ConcatProperties DEF OutputType, ending
  <2>9. RoomOK'
    <3>1. Len(wire \o Front(m, k)) = Len(wire) + Len(Front(m, k))
      BY <2>2, LenOfTwo DEF OutputType
    <3>2. Len(wire) \in Nat /\ read' = read
      BY DEF OutputType
    <3>3. Len(wire') = Len(wire) + k
      BY <1>3, <2>2, <3>1
    <3> QED BY <2>1, <3>2, <3>3 DEF RoomOK, OutputType
  <2>10. fin' = fin /\ ~fin
    BY <1>3 DEF Broken, ending
  <2>11. WritingIffBuffered' /\ writing' \in BOOLEAN
    BY <2>3, <2>4, <2>5 DEF WritingIffBuffered, Booleans
  <2> QED BY <2>7, <2>8, <2>9, <2>10, <2>11 DEF FinQuiet
<1> QED BY <1>1, <1>2, <1>3 DEF SendInLoop

(* handleWrite moves the front of output_buffer_ to the end of the wire.   *)
LEMMA HandleWriteKeeps ==
    ASSUME OutputOK, Booleans, HandleWrite
    PROVE  OutputOK' /\ Booleans'
<1> DEFINE k == Fits(Len(output_buffer_))
<1> USE DEF OutputOK
<1>1. /\ writing /\ k > 0
      /\ wire' = wire \o Front(output_buffer_, k)
      /\ output_buffer_' = Rest(output_buffer_, k)
      /\ taken' = taken /\ read' = read /\ closed' = closed /\ reset' = reset
      /\ ~fin
  BY DEF HandleWrite, Broken
<1>2. Len(output_buffer_) \in Nat /\ Len(wire) \in Nat
  BY DEF OutputType
<1>3. k \in 0 .. Len(output_buffer_) /\ Len(wire) + k - read <= Capacity
  BY <1>2, FitsInRoom
<1>4. \/ k = Len(output_buffer_) /\ writing' = FALSE /\ (fin' = fin \/ fin' = TRUE)
      \/ k # Len(output_buffer_) /\ writing' = writing /\ fin' = fin
  BY DEF HandleWrite, ShutdownInLoop, Booleans
<1> HIDE DEF k
<1>5. /\ Front(output_buffer_, k) \in Seq(Bytes) /\ Len(Front(output_buffer_, k)) = k
      /\ Rest(output_buffer_, k) \in Seq(Bytes)
      /\ Len(Rest(output_buffer_, k)) = Len(output_buffer_) - k
      /\ Front(output_buffer_, k) \o Rest(output_buffer_, k) = output_buffer_
  BY <1>3, Cut DEF OutputType
<1>6. wire \o Front(output_buffer_, k) \in Seq(Bytes)
        /\ Len(wire \o Front(output_buffer_, k)) = Len(wire) + Len(Front(output_buffer_, k))
  BY <1>5, LenOfTwo DEF OutputType
<1>7. OutputType'
  BY <1>1, <1>5, <1>6 DEF OutputType
<1>8. RoomOK'
  <2>1. Len(wire') = Len(wire) + k /\ read' = read
    BY <1>1, <1>5, <1>6
  <2> QED BY <1>2, <1>3, <2>1 DEF RoomOK, OutputType
<1>9. StreamConserved'
  <2>1. (wire \o Front(output_buffer_, k)) \o Rest(output_buffer_, k)
          = wire \o (Front(output_buffer_, k) \o Rest(output_buffer_, k))
    BY <1>5, InARow DEF OutputType
  <2> QED BY <1>1, <1>5, <2>1 DEF StreamConserved
<1>10. output_buffer_' = <<>> <=> k = Len(output_buffer_)
  <2>1. Rest(output_buffer_, k) = <<>> <=> Len(Rest(output_buffer_, k)) = 0
    BY <1>5, EmptySeq
  <2> QED BY <1>1, <1>2, <1>3, <1>5, <2>1
<1>11. WritingIffBuffered' /\ FinQuiet'
  <2>1. CASE k = Len(output_buffer_)
    BY <1>4, <1>10, <2>1 DEF WritingIffBuffered, FinQuiet
  <2>2. CASE k # Len(output_buffer_)
    <3>1. writing = TRUE /\ fin = FALSE
      BY <1>1 DEF Booleans
    <3>2. writing' = TRUE /\ fin' = FALSE
      BY <1>4, <2>2, <3>1
    <3> QED BY <1>10, <2>2, <3>2 DEF WritingIffBuffered, FinQuiet
  <2> QED BY <2>1, <2>2
<1>12. Booleans'
  BY <1>1, <1>4 DEF Booleans
<1> QED BY <1>7, <1>8, <1>9, <1>11, <1>12

(* Steps that leave the output path alone and may shut the write side down *)
(* when nothing waits, or close the connection.                            *)
LEMMA ShutdownKeeps ==
    ASSUME OutputOK, Booleans, ShutdownInLoop(writing),
           UNCHANGED <<output, read, reset, closed>>
    PROVE  OutputOK' /\ Booleans'
<1>1. fin' = (fin \/ ~writing)
  BY DEF ShutdownInLoop
<1>2. Booleans'
  BY <1>1 DEF Booleans, output
<1>3. FinQuiet'
  BY <1>1 DEF FinQuiet, OutputOK, WritingIffBuffered, Booleans, output
<1> QED BY <1>2, <1>3 DEF OutputOK, output, OutputType, RoomOK, WritingIffBuffered, StreamConserved

LEMMA CloseKeeps ==
    ASSUME OutputOK, Booleans, HandleClose, UNCHANGED read
    PROVE  OutputOK' /\ Booleans'
  BY DEF HandleClose, OutputOK, OutputType, RoomOK, WritingIffBuffered, StreamConserved,
         FinQuiet, Booleans

LEMMA OthersKeep ==
    ASSUME OutputOK, Booleans, UNCHANGED <<output, read, fin, closed>>, reset' \in BOOLEAN
    PROVE  OutputOK' /\ Booleans'
  BY DEF output, OutputOK, OutputType, RoomOK, WritingIffBuffered, StreamConserved,
         FinQuiet, Booleans

(* The types of what the threads and the loop keep. *)
CallType ==
    /\ state_ \in {"connected", "disconnecting", "disconnected"}
    /\ task_vec_ \in Seq(Calls) /\ batch \in Seq(Calls)
    /\ pc \in [Threads -> {"idle", "send", "shutdown", "forceClose",
                           "shutdownInLoop", "forceCloseInLoop"}]
    /\ calls \in [Senders -> [bytes : Nat, down : BOOLEAN]]
    /\ sends \in Nat

LEMMA Types == TypeOK <=> CallType /\ Booleans /\ OutputType
  BY DEF TypeOK, CallType, Booleans, OutputType

LEMMA MessageType ==
    ASSUME CallType, NEW s \in Senders, NEW len \in Nat
    PROVE  Message(s, len) \in Seq(Bytes)
<1>1. calls[s].bytes \in Nat
  BY DEF CallType
<1>2. \A i \in 1 .. len : [from |-> s, n |-> calls[s].bytes + i, last |-> i = len] \in Bytes
  BY <1>1 DEF Bytes
<1>3. Message(s, len) \in [1 .. len -> Bytes]
  BY <1>2 DEF Message
<1> QED BY <1>3, SeqDef

LEMMA QueueType ==
    ASSUME CallType, NEW fn \in {"sendInLoop", "shutdownInLoop", "forceCloseInLoop", "writeCb"},
           NEW m \in Seq(Bytes), QueueTask(fn, m)
    PROVE  task_vec_' \in Seq(Calls)
<1>1. Call(fn, m) \in Calls
  BY DEF Call, Calls
<1> QED BY <1>1, AppendProperties DEF QueueTask, CallType

LEMMA SendInLoopQueues ==
    ASSUME CallType, NEW m \in Seq(Bytes), SendInLoop(m)
    PROVE  task_vec_' \in Seq(Calls)
<1>1. CASE QueueTask("writeCb", <<>>)
  BY <1>1, QueueType, EmptySeq
<1>2. CASE UNCHANGED task_vec_
  BY <1>2 DEF CallType
<1> QED BY <1>1, <1>2 DEF SendInLoop

LEMMA CountSendType ==
    ASSUME CallType, NEW s \in Senders, NEW len \in Nat, CountSend(s, len)
    PROVE  calls' \in [Senders -> [bytes : Nat, down : BOOLEAN]] /\ sends' \in Nat
<1>1. /\ calls \in [Senders -> [bytes : Nat, down : BOOLEAN]]
      /\ calls' = [calls EXCEPT ![s].bytes = @ + len]
      /\ sends \in Nat /\ sends' = sends + 1
  BY DEF CallType, CountSend
<1>2. calls[s] \in [bytes : Nat, down : BOOLEAN]
  BY <1>1
<1>3. calls[s].bytes + len \in Nat
  BY <1>2
<1>4. [calls[s] EXCEPT !.bytes = @ + len] \in [bytes : Nat, down : BOOLEAN]
  BY <1>2, <1>3
<1>5. calls' = [calls EXCEPT ![s] = [calls[s] EXCEPT !.bytes = @ + len]]
  BY <1>1, Zenon
<1>6. calls' \in [Senders -> [bytes : Nat, down : BOOLEAN]]
  BY <1>1, <1>4, <1>5, Zenon
<1>7. sends' \in Nat
  BY <1>1
<1> QED BY <1>6, <1>7

IInv == CallType /\ Booleans /\ OutputOK

LEMMA InitIInv == Init => IInv
<1> SUFFICES ASSUME Init PROVE IInv
  OBVIOUS
<1>1. CallType /\ Booleans
  <2>1. task_vec_ \in Seq(Calls) /\ batch \in Seq(Calls)
    BY EmptySeq DEF Init
  <2>2. calls \in [Senders -> [bytes : Nat, down : BOOLEAN]]
    <3>1. [bytes |-> 0, down |-> FALSE] \in [bytes : Nat, down : BOOLEAN]
      OBVIOUS
    <3> QED BY <3>1, Zenon DEF Init
  <2>3. pc \in [Threads -> {"idle", "send", "shutdown", "forceClose",
                            "shutdownInLoop", "forceCloseInLoop"}]
    BY DEF Init
  <2>4. Booleans
    BY DEF Init, Booleans
  <2>5. state_ = "connected" /\ sends = 0
    BY DEF Init
  <2> QED BY <2>1, <2>2, <2>3, <2>4, <2>5 DEF CallType
<1>2. OutputType /\ RoomOK
  BY ConnectionAssumption, EmptySeq DEF Init, OutputType, RoomOK
<1>3. StreamConserved
  BY EmptySeq, ConcatEmptySeq DEF Init, StreamConserved
<1>4. WritingIffBuffered /\ FinQuiet
  BY DEF Init, WritingIffBuffered, FinQuiet
<1> QED BY <1>1, <1>2, <1>3, <1>4 DEF IInv, OutputOK

LEMMA NextIInv == IInv /\ [Next]_vars => IInv'
<1> SUFFICES ASSUME CallType, Booleans, OutputOK, [Next]_vars
             PROVE  CallType' /\ Booleans' /\ OutputOK'
  BY DEF IInv
<1> USE DEF ending
<1>1. ASSUME NEW t \in Threads, SendCheck(t)
      PROVE  CallType' /\ Booleans' /\ OutputOK'
  <2>1. CallType'
    BY <1>1 DEF SendCheck, CallType
  <2> QED BY <1>1, <2>1, OthersKeep DEF SendCheck, Booleans
<1>2. ASSUME NEW t \in Threads, SendPush(t)
      PROVE  CallType' /\ Booleans' /\ OutputOK'
  <2>1. PICK len \in 1 .. MaxLen : QueueTask("sendInLoop", Message(t, len)) /\ CountSend(t, len)
    BY <1>2 DEF SendPush
  <2>2. t \in Senders /\ len \in Nat
    BY ConnectionAssumption DEF Senders
  <2>3. task_vec_' \in Seq(Calls)
    BY <2>1, <2>2, MessageType, QueueType
  <2>4. calls' \in [Senders -> [bytes : Nat, down : BOOLEAN]] /\ sends' \in Nat
    BY <2>1, <2>2, CountSendType
  <2>5. CallType'
    BY <1>2, <2>3, <2>4 DEF SendPush, CallType
  <2> QED BY <1>2, <2>5, OthersKeep DEF SendPush, Booleans
<1>3. ASSUME NEW t \in Threads, DownCheck(t)
      PROVE  CallType' /\ Booleans' /\ OutputOK'
  <2>1. pc' \in [Threads -> {"idle", "send", "shutdown", "forceClose",
                            "shutdownInLoop", "forceCloseInLoop"}]
    BY <1>3, ConnectionAssumption DEF DownCheck, CallType
  <2>2. calls' \in [Senders -> [bytes : Nat, down : BOOLEAN]]
    BY <1>3 DEF DownCheck, CallType, Senders
  <2>3. CallType'
    BY <1>3, <2>1, <2>2 DEF DownCheck, CallType
  <2> QED BY <1>3, <2>3, OthersKeep DEF DownCheck, Booleans
<1>4. ASSUME NEW t \in Threads, DownSet(t)
      PROVE  CallType' /\ Booleans' /\ OutputOK'
  <2>1. CallType'
    BY <1>4 DEF DownSet, CallType
  <2> QED BY <1>4, <2>1, OthersKeep DEF DownSet, Booleans
<1>5. ASSUME NEW t \in Threads, DownPush(t)
      PROVE  CallType' /\ Booleans' /\ OutputOK'
  <2>1. task_vec_' \in Seq(Calls)
    BY <1>5, QueueType, EmptySeq DEF DownPush
  <2>2. CallType'
    BY <1>5, <2>1 DEF DownPush, CallType
  <2> QED BY <1>5, <2>2, OthersKeep DEF DownPush, Booleans
<1>6. CASE LoopSend
  <2>1. PICK len \in 1 .. MaxLen : SendInLoop(Message(Loop, len)) /\ CountSend(Loop, len)
    BY <1>6 DEF LoopSend
  <2>2. Loop \in Senders /\ len \in Nat
    BY ConnectionAssumption DEF Senders
  <2>3. Message(Loop, len) \in Seq(Bytes)
    BY <2>2, MessageType
  <2>4. OutputOK' /\ writing' \in BOOLEAN
    BY <1>6, <2>1, <2>3, SendInLoopKeeps DEF LoopSend
  <2>5. task_vec_' \in Seq(Calls)
    BY <2>1, <2>3, SendInLoopQueues
  <2>6. calls' \in [Senders -> [bytes : Nat, down : BOOLEAN]] /\ sends' \in Nat
    BY <2>1, <2>2, CountSendType
  <2>7. CallType'
    BY <1>6, <2>5, <2>6 DEF LoopSend, CallType
  <2> QED BY <1>6, <2>4, <2>7 DEF LoopSend, Booleans
<1>7. CASE LoopShutdown
  <2>1. CallType'
    BY <1>7 DEF LoopShutdown, CallType
  <2> QED BY <1>7, <2>1, ShutdownKeeps DEF LoopShutdown
<1>8. CASE LoopForceClose
  <2>1. CallType'
    BY <1>8 DEF LoopForceClose, HandleClose, CallType
  <2> QED BY <1>8, <2>1, CloseKeeps DEF LoopForceClose
<1>9. CASE SwapTasks
  <2>1. CallType'
    BY <1>9, EmptySeq DEF SwapTasks, CallType
  <2> QED BY <1>9, <2>1, OthersKeep DEF SwapTasks, Booleans
<1>10. CASE RunTask
  <2> DEFINE m == Head(batch).message
  <2>1. Head(batch) \in Calls /\ batch' \in Seq(Calls)
    BY <1>10, HeadTailProperties DEF RunTask, CallType
  <2>2. m \in Seq(Bytes)
    BY <2>1 DEF Calls
  <2>3. UNCHANGED <<pc, sends, calls, read>>
    BY <1>10 DEF RunTask
  <2>4. CASE SendInLoop(m) /\ UNCHANGED <<state_, ending>>
    <3>1. OutputOK' /\ writing' \in BOOLEAN
      BY <2>2, <2>3, <2>4, SendInLoopKeeps
    <3>2. task_vec_' \in Seq(Calls)
      BY <2>2, <2>4, SendInLoopQueues
    <3>3. CallType'
      BY <2>1, <2>3, <2>4, <3>2 DEF CallType
    <3> QED BY <2>4, <3>1, <3>3 DEF Booleans
  <2>5. CASE ShutdownInLoop(writing) /\ UNCHANGED <<state_, output, task_vec_, reset, closed>>
    <3>1. CallType'
      BY <2>1, <2>3, <2>5 DEF CallType
    <3> QED BY <2>3, <2>5, <3>1, ShutdownKeeps
  <2>6. CASE HandleClose
    <3>1. CallType'
      BY <2>1, <2>3, <2>6 DEF CallType, HandleClose
    <3> QED BY <2>3, <2>6, <3>1, CloseKeeps
  <2>7. CASE UNCHANGED <<state_, output, task_vec_, ending>>
    <3>1. CallType'
      BY <2>1, <2>3, <2>7 DEF CallType
    <3> QED BY <2>3, <2>7, <3>1, OthersKeep DEF Booleans
  <2> QED BY <1>10, <2>4, <2>5, <2>6, <2>7 DEF RunTask
<1>11. CASE HandleWrite
  <2>1. task_vec_' \in Seq(Calls)
    <3>1. QueueTask("writeCb", <<>>) \/ task_vec_' = task_vec_
      BY <1>11 DEF HandleWrite
    <3> QED BY <3>1, QueueType, EmptySeq DEF CallType
  <2>2. CallType'
    BY <1>11, <2>1 DEF HandleWrite, CallType
  <2> QED BY <1>11, <2>2, HandleWriteKeeps
<1>12. CASE HandleHangup
  <2>1. CallType'
    BY <1>12 DEF HandleHangup, HandleClose, CallType
  <2> QED BY <1>12, <2>1, CloseKeeps DEF HandleHangup
<1>13. CASE PeerRead
  <2>1. CallType' /\ Booleans'
    BY <1>13 DEF PeerRead, CallType, Booleans, output
  <2>2. read' = Len(wire) /\ wire' = wire /\ Len(wire) \in Nat
    BY <1>13 DEF PeerRead, output, OutputOK, OutputType
  <2>3. OutputType' /\ RoomOK'
    BY <1>13, <2>2, ConnectionAssumption DEF PeerRead, output, OutputOK, OutputType, RoomOK
  <2> QED BY <1>13, <2>1, <2>3 DEF PeerRead, output, OutputOK, WritingIffBuffered,
                                   StreamConserved, FinQuiet
<1>14. CASE PeerReset
  <2>1. CallType'
    BY <1>14 DEF PeerReset, CallType
  <2> QED BY <1>14, <2>1, OthersKeep DEF PeerReset
<1>15. CASE HandleRead
  <2>1. CallType'
    BY <1>15 DEF HandleRead, HandleClose, CallType
  <2> QED BY <1>15, <2>1, CloseKeeps DEF HandleRead
<1>16. CASE UNCHANGED vars
  <2>1. CallType'
    BY <1>16 DEF vars, CallType
  <2> QED BY <1>16, <2>1, OthersKeep DEF vars, output, Booleans
<1> QED BY <1>1, <1>2, <1>3, <1>4, <1>5, <1>6, <1>7, <1>8, <1>9, <1>10, <1>11, <1>12,
           <1>13, <1>14, <1>15, <1>16 DEF Next, ThreadStep, LoopStep

(* The invariant holds in every state the program can reach. *)
THEOREM OutputInvariant == Spec => []IInv
  BY InitIInv, NextIInv, PTL DEF Spec

(* What the variables hold. *)
THEOREM TypeCorrect == Spec => []TypeOK
<1>1. IInv => TypeOK
  BY Types DEF IInv, OutputOK
<1> QED BY <1>1, OutputInvariant, PTL

(* No byte is lost, doubled or reordered between sendInLoop and ::send. *)
THEOREM StreamIsConserved == Spec => []StreamConserved
<1>1. IInv => StreamConserved
  BY DEF IInv, OutputOK
<1> QED BY <1>1, OutputInvariant, PTL

(* The write event is on exactly while output waits. *)
THEOREM WriteInterest == Spec => []WritingIffBuffered
<1>1. IInv => WritingIffBuffered
  BY DEF IInv, OutputOK
<1> QED BY <1>1, OutputInvariant, PTL

(* The write side is shut down after what was taken is on the wire. *)
THEOREM FinComesLast == Spec => []FinAfterTaken
<1>1. ASSUME IInv PROVE FinAfterTaken
  <2>1. fin /\ ~closed => output_buffer_ = <<>>
    BY <1>1 DEF IInv, OutputOK, FinQuiet
  <2>2. wire \o <<>> = wire
    BY <1>1, ConcatEmptySeq DEF IInv, OutputOK, OutputType
  <2> QED BY <1>1, <2>1, <2>2 DEF IInv, OutputOK, StreamConserved, FinAfterTaken
<1>2. IInv => FinAfterTaken
  BY <1>1
<1> QED BY <1>2, OutputInvariant, PTL

-----------------------------------------------------------------------------
(* The order of what is sent.  Below, s is the stream (what sendInLoop     *)
(* took), q the queued calls in the order the loop will run them, and sent *)
(* how many bytes each sender sent.                                        *)

(* Byte n of sender t is in s; no byte of t in s comes after byte n. *)
In(s, t, n)   == \E k \in 1 .. Len(s) : s[k].from = t /\ s[k].n = n
UpTo(s, t, n) == \A k \in 1 .. Len(s) : s[k].from = t => s[k].n <= n

(* m is one whole message of t, whose bytes follow its b-th byte. *)
Runs(m, t, b) ==
    /\ Len(m) >= 1
    /\ \A k \in 1 .. Len(m) : /\ m[k].from = t
                              /\ m[k].n = b + k
                              /\ ~m[k].last => k < Len(m)

(* What SenderOrder says of the stream of an open connection. *)
Ordered(s) ==
    \A i \in 1 .. Len(s) :
        /\ s[i].n > 1 => \E j \in 1 .. i - 1 : s[j].from = s[i].from /\ s[j].n = s[i].n - 1
        /\ \A j \in 1 .. i - 1 : s[j].from = s[i].from => s[j].n < s[i].n
        /\ ~s[i].last => /\ i < Len(s)
                         /\ s[i + 1].from = s[i].from /\ s[i + 1].n = s[i].n + 1

(* A queued sendInLoop, its sender, and the bytes before and up to its end.*)
IsSend(c) == c.fn = "sendInLoop"
Who(c)    == c.message[1].from
Base(c)   == c.message[1].n - 1
Final(c)  == Base(c) + Len(c.message)

(* The i-th queued call, if it is a send, continues what its sender has in *)
(* the stream or in an earlier one, and nothing of the sender is ahead.    *)
Continues(s, q, sent, i) ==
    /\ Who(q[i]) \in Threads
    /\ Base(q[i]) \in Nat
    /\ Runs(q[i].message, Who(q[i]), Base(q[i]))
    /\ Final(q[i]) <= sent[Who(q[i])]
    /\ UpTo(s, Who(q[i]), Base(q[i]))
    /\ \/ Base(q[i]) = 0
       \/ In(s, Who(q[i]), Base(q[i]))
       \/ \E j \in 1 .. i - 1 : IsSend(q[j]) /\ Who(q[j]) = Who(q[i]) /\ Final(q[j]) = Base(q[i])
    /\ \A j \in 1 .. i - 1 : IsSend(q[j]) /\ Who(q[j]) = Who(q[i]) => Final(q[j]) <= Base(q[i])

(* The last byte of each sender is in the stream or ends a queued send. *)
AllSent(s, q, sent, t) ==
    /\ UpTo(s, t, sent[t])
    /\ \/ sent[t] = 0
       \/ In(s, t, sent[t])
       \/ \E j \in 1 .. Len(q) : IsSend(q[j]) /\ Who(q[j]) = t /\ Final(q[j]) = sent[t]

QueueOK(s, q, sent) ==
    /\ \A i \in 1 .. Len(q) : IsSend(q[i]) => Continues(s, q, sent, i)
    /\ \A t \in Senders : AllSent(s, q, sent, t)

Sent == [t \in Senders |-> calls[t].bytes]
Waiting == batch \o task_vec_

(* A message is refused, while the connection is open, only when nothing   *)
(* waits on a socket that is shut down or reset; then every later one is.  *)
Refusing == Broken /\ output_buffer_ = <<>>

(* The invariant: SenderOrder itself says nothing of the queued messages.  *)
SendInv ==
    /\ state_ = "disconnected" => closed
    /\ ~closed => Ordered(taken)
    /\ ~closed /\ ~Refusing => QueueOK(taken, Waiting, Sent)

-----------------------------------------------------------------------------
(* The elements of two sequences in a row. *)
LEMMA JoinElements ==
    ASSUME NEW S, NEW s \in Seq(S), NEW m \in Seq(S)
    PROVE  /\ Len(s) \in Nat /\ Len(m) \in Nat
           /\ s \o m \in Seq(S)
           /\ Len(s \o m) = Len(s) + Len(m)
           /\ \A i \in 1 .. Len(s) : (s \o m)[i] = s[i]
           /\ \A k \in 1 .. Len(m) : (s \o m)[Len(s) + k] = m[k]
           /\ \A i \in 1 .. Len(s) + Len(m) :
                 i \in 1 .. Len(s) \/ \E k \in 1 .. Len(m) : i = Len(s) + k
<1>1. Len(s) \in Nat /\ Len(m) \in Nat
  BY LenProperties
<1>2. /\ s \o m \in Seq(S)
      /\ Len(s \o m) = Len(s) + Len(m)
      /\ \A i \in 1 .. Len(s) + Len(m) :
           (s \o m)[i] = IF i <= Len(s) THEN s[i] ELSE m[i - Len(s)]
  BY ConcatProperties
<1>3. \A i \in 1 .. Len(s) : (s \o m)[i] = s[i]
  BY <1>1, <1>2
<1>4. \A k \in 1 .. Len(m) : (s \o m)[Len(s) + k] = m[k]
  <2> SUFFICES ASSUME NEW k \in 1 .. Len(m) PROVE (s \o m)[Len(s) + k] = m[k]
    OBVIOUS
  <2>1. Len(s) + k \in 1 .. Len(s) + Len(m) /\ ~(Len(s) + k <= Len(s))
        /\ (Len(s) + k) - Len(s) = k
    BY <1>1
  <2> QED BY <1>2, <2>1
<1>5. ASSUME NEW i \in 1 .. Len(s) + Len(m), i \notin 1 .. Len(s)
      PROVE  \E k \in 1 .. Len(m) : i = Len(s) + k
  <2>1. i - Len(s) \in 1 .. Len(m) /\ i = Len(s) + (i - Len(s))
    BY <1>1, <1>5
  <2> QED BY <2>1
<1> QED BY <1>1, <1>2, <1>3, <1>4, <1>5

(* Bytes have numbers. *)
LEMMA NumberType ==
    ASSUME NEW s \in Seq(Bytes)
    PROVE  \A i \in 1 .. Len(s) : s[i].n \in Nat
<1>1. \A i \in 1 .. Len(s) : s[i] \in Bytes
  BY ElementOfSeq
<1> QED BY <1>1 DEF Bytes

(* Which bytes are in a stream with more at its end. *)
LEMMA InJoin ==
    ASSUME NEW s \in Seq(Bytes), NEW m \in Seq(Bytes), NEW t, NEW n
    PROVE  /\ In(s, t, n) => In(s \o m, t, n)
           /\ In(m, t, n) => In(s \o m, t, n)
           /\ UpTo(s, t, n) /\ UpTo(m, t, n) => UpTo(s \o m, t, n)
<1>0. \A h \in 1 .. Len(m) : (s \o m)[Len(s) + h] = m[h]
  BY JoinElements
<1>1. ASSUME In(s, t, n) PROVE In(s \o m, t, n)
  <2>1. PICK k \in 1 .. Len(s) : s[k].from = t /\ s[k].n = n
    BY <1>1 DEF In
  <2>2. k \in 1 .. Len(s \o m) /\ (s \o m)[k] = s[k]
    BY JoinElements
  <2> QED BY <2>1, <2>2 DEF In
<1>2. ASSUME In(m, t, n) PROVE In(s \o m, t, n)
  <2>1. PICK k \in 1 .. Len(m) : m[k].from = t /\ m[k].n = n
    BY <1>2 DEF In
  <2>2. Len(s) + k \in 1 .. Len(s \o m) /\ (s \o m)[Len(s) + k] = m[k]
    BY JoinElements
  <2> QED BY <2>1, <2>2 DEF In
<1>3. ASSUME UpTo(s, t, n), UpTo(m, t, n) PROVE UpTo(s \o m, t, n)
  <2> SUFFICES ASSUME NEW i \in 1 .. Len(s \o m), (s \o m)[i].from = t
               PROVE  (s \o m)[i].n <= n
    BY DEF UpTo
  <2>1. i \in 1 .. Len(s) \/ \E k \in 1 .. Len(m) : i = Len(s) + k
    BY JoinElements
  <2>2. CASE i \in 1 .. Len(s)
    <3>1. (s \o m)[i] = s[i]
      BY <2>2, JoinElements
    <3> QED BY <1>3, <2>2, <3>1 DEF UpTo
  <2>3. ASSUME NEW k \in 1 .. Len(m), i = Len(s) + k
        PROVE  (s \o m)[i].n <= n
    <3>1. (s \o m)[i] = m[k]
      BY <1>0, <2>3
    <3> QED BY <1>3, <3>1 DEF UpTo
  <2> QED BY <2>1, <2>2, <2>3
<1> QED BY <1>1, <1>2, <1>3

(* What is in one whole message. *)
LEMMA InMessage ==
    ASSUME NEW m \in Seq(Bytes), NEW t, NEW b \in Nat, Runs(m, t, b)
    PROVE  /\ In(m, t, b + Len(m))
           /\ UpTo(m, t, b + Len(m))
           /\ \A u, n : u # t => UpTo(m, u, n)
<1>1. Len(m) \in Nat /\ Len(m) \in 1 .. Len(m)
  BY LenProperties DEF Runs
<1> QED BY <1>1 DEF Runs, In, UpTo

(* A whole message that continues what its sender has in the stream keeps  *)
(* the stream in order.                                                    *)
LEMMA OrderedJoin ==
    ASSUME NEW s \in Seq(Bytes), NEW m \in Seq(Bytes), NEW t, NEW b \in Nat,
           Ordered(s), Runs(m, t, b), UpTo(s, t, b), b = 0 \/ In(s, t, b)
    PROVE  Ordered(s \o m)
<1> DEFINE r == s \o m
           l == Len(s)
<1>1. /\ l \in Nat /\ Len(m) \in Nat /\ Len(r) = l + Len(m)
      /\ \A i \in 1 .. l : r[i] = s[i]
      /\ \A k \in 1 .. Len(m) : r[l + k] = m[k]
      /\ \A i \in 1 .. l + Len(m) : i \in 1 .. l \/ \E k \in 1 .. Len(m) : i = l + k
  BY JoinElements
<1>2. \A i \in 1 .. l : s[i].n \in Nat
  BY NumberType
<1> HIDE DEF r
<1>3. ASSUME NEW i \in 1 .. l
      PROVE  /\ r[i].n > 1 => \E j \in 1 .. i - 1 : r[j].from = r[i].from /\ r[j].n = r[i].n - 1
             /\ \A j \in 1 .. i - 1 : r[j].from = r[i].from => r[j].n < r[i].n
             /\ ~r[i].last => /\ i < Len(r)
                              /\ r[i + 1].from = r[i].from /\ r[i + 1].n = r[i].n + 1
  <2>1. \A j \in 1 .. i : j \in 1 .. l /\ r[j] = s[j]
    BY <1>1
  <2>2. /\ s[i].n > 1 => \E j \in 1 .. i - 1 : s[j].from = s[i].from /\ s[j].n = s[i].n - 1
        /\ \A j \in 1 .. i - 1 : s[j].from = s[i].from => s[j].n < s[i].n
        /\ ~s[i].last => /\ i < l
                         /\ s[i + 1].from = s[i].from /\ s[i + 1].n = s[i].n + 1
    BY DEF Ordered
  <2>3. i \in 1 .. i /\ \A j \in 1 .. i - 1 : j \in 1 .. i
    BY <1>1
  <2>4. i < l => i < Len(r) /\ i + 1 \in 1 .. l
    BY <1>1
  <2>5. i < l => r[i + 1] = s[i + 1]
    BY <1>1, <2>4
  <2>6. r[i].n > 1 => \E j \in 1 .. i - 1 : r[j].from = r[i].from /\ r[j].n = r[i].n - 1
    BY <2>1, <2>2, <2>3
  <2>7. \A j \in 1 .. i - 1 : r[j].from = r[i].from => r[j].n < r[i].n
    BY <2>1, <2>2, <2>3
  <2>8. ~r[i].last => i < Len(r) /\ r[i + 1].from = r[i].from /\ r[i + 1].n = r[i].n + 1
    BY <2>1, <2>2, <2>3, <2>4, <2>5
  <2> QED BY <2>6, <2>7, <2>8
<1>4. ASSUME NEW k \in 1 .. Len(m), NEW i, i = l + k
      PROVE  /\ r[i].n > 1 => \E j \in 1 .. i - 1 : r[j].from = r[i].from /\ r[j].n = r[i].n - 1
             /\ \A j \in 1 .. i - 1 : r[j].from = r[i].from => r[j].n < r[i].n
             /\ ~r[i].last => /\ i < Len(r)
                              /\ r[i + 1].from = r[i].from /\ r[i + 1].n = r[i].n + 1
  <2>1. \A h \in 1 .. Len(m) : r[l + h].from = t /\ r[l + h].n = b + h
                              /\ (~r[l + h].last => h < Len(m))
    BY <1>1 DEF Runs
  <2>2. r[i].from = t /\ r[i].n = b + k /\ (~r[i].last => k < Len(m))
    BY <1>4, <2>1
  <2>3. ASSUME r[i].n > 1
        PROVE  \E j \in 1 .. i - 1 : r[j].from = t /\ r[j].n = (b + k) - 1
    <3>1. CASE k = 1
      <4>1. b # 0 /\ (b + k) - 1 = b
        BY <2>2, <2>3, <3>1
      <4>2. PICK j \in 1 .. l : s[j].from = t /\ s[j].n = b
        BY <4>1 DEF In
      <4>3. j \in 1 .. i - 1 /\ r[j] = s[j]
        BY <1>1, <1>4, <3>1
      <4> QED BY <4>1, <4>2, <4>3
    <3>2. CASE k > 1
      <4>1. k - 1 \in 1 .. Len(m) /\ l + (k - 1) \in 1 .. i - 1 /\ b + (k - 1) = (b + k) - 1
        BY <1>1, <1>4, <3>2
      <4> QED BY <2>1, <4>1
    <3> QED BY <3>1, <3>2
  <2>4. ASSUME NEW j \in 1 .. i - 1, r[j].from = t
        PROVE  r[j].n < b + k
    <3>1. CASE j \in 1 .. l
      <4>1. r[j] = s[j] /\ s[j].n <= b
        BY <1>1, <2>4, <3>1 DEF UpTo
      <4> QED BY <1>2, <3>1, <4>1
    <3>2. CASE j \notin 1 .. l
      <4>1. j - l \in 1 .. Len(m) /\ l + (j - l) = j /\ j - l < k
        BY <1>1, <1>4, <3>2
      <4>2. r[j].n = b + (j - l)
        BY <2>1, <4>1
      <4> QED BY <4>1, <4>2
    <3> QED BY <3>1, <3>2
  <2>5. ASSUME k < Len(m)
        PROVE  i < Len(r) /\ r[i + 1].from = t /\ r[i + 1].n = (b + k) + 1
    <3>1. k + 1 \in 1 .. Len(m) /\ l + (k + 1) = i + 1 /\ i < Len(r) /\ b + (k + 1) = (b + k) + 1
      BY <1>1, <1>4, <2>5
    <3> QED BY <2>1, <3>1
  <2> QED BY <2>2, <2>3, <2>4, <2>5
<1>5. \A i \in 1 .. Len(r) : i \in 1 .. l \/ \E k \in 1 .. Len(m) : i = l + k
  BY <1>1
<1>6. Ordered(r)
  BY <1>3, <1>4, <1>5 DEF Ordered
<1> QED BY <1>6 DEF r

-----------------------------------------------------------------------------
(* A queued send that is where it was, with the same calls before it, and  *)
(* no sender that sent less.                                               *)
LEMMA ContinuesSame ==
    ASSUME NEW s, NEW q, NEW r, NEW i \in Nat,
           NEW sent \in [Senders -> Nat], NEW e \in [Senders -> Nat],
           \A j \in 1 .. i : r[j] = q[j], i >= 1,
           \A u \in Senders : sent[u] <= e[u],
           Continues(s, q, sent, i), Len(q[i].message) \in Nat
    PROVE  Continues(s, r, e, i)
<1>1. r[i] = q[i] /\ \A j \in 1 .. i - 1 : r[j] = q[j]
  OBVIOUS
<1>2. Who(q[i]) \in Senders /\ Base(q[i]) \in Nat /\ Final(q[i]) \in Nat
      /\ Final(q[i]) <= sent[Who(q[i])]
  BY DEF Continues, Senders, Final
<1>3. Final(q[i]) <= e[Who(q[i])]
  <2>1. sent[Who(q[i])] \in Nat /\ e[Who(q[i])] \in Nat /\ sent[Who(q[i])] <= e[Who(q[i])]
    BY <1>2
  <2> QED BY <1>2, <2>1
<1> QED BY <1>1, <1>3 DEF Continues

(* A message queued by a thread that has sent sent[t] bytes before. *)
LEMMA PushSend ==
    ASSUME NEW s \in Seq(Bytes), NEW q \in Seq(Calls), NEW sent \in [Senders -> Nat],
           QueueOK(s, q, sent), NEW c \in Calls, IsSend(c),
           NEW t \in Threads, Runs(c.message, t, sent[t]),
           NEW e, e = [sent EXCEPT ![t] = sent[t] + Len(c.message)]
    PROVE  QueueOK(s, Append(q, c), e)
<1> DEFINE r == Append(q, c)
           n == Len(q)
<1>1. /\ n \in Nat /\ r \in Seq(Calls) /\ Len(r) = n + 1 /\ r[n + 1] = c
      /\ \A i \in 1 .. n : r[i] = q[i]
  BY AppendProperties, LenProperties
<1>2. c.message \in Seq(Bytes) /\ Len(c.message) \in Nat /\ t \in Senders
  BY LenProperties DEF Calls, Senders
<1>3. /\ sent[t] \in Nat
      /\ e \in [Senders -> Nat]
      /\ e[t] = sent[t] + Len(c.message) /\ e[t] >= sent[t]
      /\ \A u \in Senders : u # t => e[u] = sent[u]
      /\ \A u \in Senders : sent[u] <= e[u] /\ sent[u] \in Nat
  BY <1>2
<1>4. /\ Who(c) = t /\ Base(c) = sent[t] /\ Final(c) = e[t]
  <2>1. 1 \in 1 .. Len(c.message)
    BY <1>2 DEF Runs
  <2>2. c.message[1].from = t /\ c.message[1].n = sent[t] + 1
    BY <2>1 DEF Runs
  <2>3. Who(c) = t /\ Base(c) = sent[t]
    BY <1>3, <2>2 DEF Who, Base
  <2> QED BY <1>3, <2>3 DEF Final
<1> HIDE DEF r
<1>5. /\ \A i \in 1 .. n : IsSend(q[i]) => Continues(s, q, sent, i)
      /\ \A u \in Senders : AllSent(s, q, sent, u)
  BY DEF QueueOK
<1>6. ASSUME NEW i \in 1 .. n, IsSend(r[i])
      PROVE  Continues(s, r, e, i)
  <2>1. q[i] \in Calls /\ i \in Nat /\ i >= 1 /\ IsSend(q[i])
    BY <1>1, <1>6, ElementOfSeq
  <2>2. Len(q[i].message) \in Nat
    BY <2>1, LenProperties DEF Calls
  <2>3. \A j \in 1 .. i : r[j] = q[j]
    BY <1>1
  <2>4. Continues(s, q, sent, i)
    BY <1>5, <2>1
  <2>5. e \in [Senders -> Nat] /\ \A u \in Senders : sent[u] <= e[u]
    BY <1>3
  <2>6. sent \in [Senders -> Nat]
    OBVIOUS
  <2> QED BY ONLY <2>1, <2>2, <2>3, <2>4, <2>5, <2>6, ContinuesSame
<1>7. Continues(s, r, e, n + 1)
  <2>1. AllSent(s, q, sent, t)
    BY <1>2, <1>5
  <2>2. \A j \in 1 .. n : r[j] = q[j] /\ (IsSend(q[j]) /\ Who(q[j]) = t => Final(q[j]) <= sent[t])
    BY <1>1, <1>5 DEF Continues
  <2>3. (n + 1) - 1 = n
    BY <1>1
  <2>4. Final(c) <= e[t]
    BY <1>2, <1>3, <1>4
  <2>5. \/ Base(c) = 0
        \/ In(s, t, Base(c))
        \/ \E j \in 1 .. n : IsSend(r[j]) /\ Who(r[j]) = t /\ Final(r[j]) = Base(c)
    BY <1>4, <2>1, <2>2 DEF AllSent
  <2>6. UpTo(s, t, Base(c))
    BY <1>4, <2>1 DEF AllSent
  <2>7. \A j \in 1 .. n : IsSend(r[j]) /\ Who(r[j]) = t => Final(r[j]) <= Base(c)
    BY <1>4, <2>2
  <2> QED BY <1>1, <1>3, <1>4, <2>3, <2>4, <2>5, <2>6, <2>7 DEF Continues
<1>8. ASSUME NEW u \in Senders
      PROVE  AllSent(s, r, e, u)
  <2>1. CASE u = t
    <3>1. UpTo(s, t, sent[t])
      BY <1>2, <1>5 DEF AllSent
    <3>2. UpTo(s, t, e[t])
      BY <1>2, <1>3, <3>1, NumberType DEF UpTo
    <3>3. n + 1 \in 1 .. Len(r)
      BY <1>1
    <3>4. IsSend(r[n + 1]) /\ Who(r[n + 1]) = t /\ Final(r[n + 1]) = e[t]
      BY <1>1, <1>4
    <3> QED BY <2>1, <3>2, <3>3, <3>4 DEF AllSent
  <2>2. CASE u # t
    <3>1. AllSent(s, q, sent, u) /\ e[u] = sent[u]
      BY <1>3, <1>5, <2>2
    <3>2. \A j \in 1 .. n : j \in 1 .. Len(r) /\ r[j] = q[j]
      BY <1>1
    <3> QED BY <3>1, <3>2 DEF AllSent
  <2> QED BY <2>1, <2>2
<1>9. \A i \in 1 .. Len(r) : i \in 1 .. n \/ i = n + 1
  BY <1>1
<1>10. QueueOK(s, r, e)
  BY <1>6, <1>7, <1>8, <1>9 DEF QueueOK
<1> QED BY <1>10 DEF r

(* Another call is queued. *)
LEMMA PushOther ==
    ASSUME NEW s \in Seq(Bytes), NEW q \in Seq(Calls), NEW sent \in [Senders -> Nat],
           QueueOK(s, q, sent), NEW c \in Calls, ~IsSend(c)
    PROVE  QueueOK(s, Append(q, c), sent)
<1> DEFINE r == Append(q, c)
           n == Len(q)
<1>1. /\ n \in Nat /\ r \in Seq(Calls) /\ Len(r) = n + 1 /\ r[n + 1] = c
      /\ \A i \in 1 .. n : r[i] = q[i]
  BY AppendProperties, LenProperties
<1> HIDE DEF r
<1>2. ASSUME NEW i \in 1 .. Len(r), IsSend(r[i])
      PROVE  Continues(s, r, sent, i)
  <2>1. i \in 1 .. n /\ i \in Nat /\ i >= 1
    BY <1>1, <1>2
  <2>2. q[i] \in Calls /\ IsSend(q[i]) /\ \A j \in 1 .. i : r[j] = q[j]
    <3>1. q[i] \in Calls
      BY <2>1, ElementOfSeq
    <3>2. \A j \in 1 .. i : r[j] = q[j]
      BY <1>1, <2>1
    <3>3. IsSend(q[i])
      BY <1>1, <1>2, <2>1
    <3> QED BY <3>1, <3>2, <3>3
  <2>3. Len(q[i].message) \in Nat
    BY <2>2, LenProperties DEF Calls
  <2>4. Continues(s, q, sent, i)
    BY <2>1, <2>2 DEF QueueOK
  <2>5. \A u \in Senders : sent[u] <= sent[u]
    OBVIOUS
  <2> QED BY <2>1, <2>2, <2>3, <2>4, <2>5, ContinuesSame
<1>3. ASSUME NEW u \in Senders
      PROVE  AllSent(s, r, sent, u)
  <2>1. AllSent(s, q, sent, u)
    BY DEF QueueOK
  <2>2. \A j \in 1 .. n : j \in 1 .. Len(r) /\ r[j] = q[j]
    BY <1>1
  <2> QED BY <2>1, <2>2 DEF AllSent
<1>4. QueueOK(s, r, sent)
  BY <1>2, <1>3 DEF QueueOK
<1> QED BY <1>4 DEF r

(* The first call is run, after which the stream is z: it holds what it    *)
(* held, and all of the first call if that was a send, but nothing that    *)
(* should come later.                                                      *)
LEMMA PopFirst ==
    ASSUME NEW s, NEW q \in Seq(Calls), NEW sent \in [Senders -> Nat],
           QueueOK(s, q, sent), q # <<>>, NEW z,
           \A t, n : In(s, t, n) => In(z, t, n),
           IsSend(q[1]) => In(z, Who(q[1]), Final(q[1])),
           \A i \in 2 .. Len(q) : IsSend(q[i]) => UpTo(z, Who(q[i]), Base(q[i])),
           \A t \in Senders : UpTo(z, t, sent[t])
    PROVE  QueueOK(z, Tail(q), sent)
<1> DEFINE r == Tail(q)
           n == Len(q)
<1>1. /\ n \in Nat /\ n >= 1 /\ Len(r) = n - 1
      /\ \A i \in 1 .. n - 1 : r[i] = q[i + 1]
  BY HeadTailProperties, LenProperties, EmptySeq
<1> HIDE DEF r
<1>2. ASSUME NEW i \in 1 .. Len(r), IsSend(r[i])
      PROVE  Continues(z, r, sent, i)
  <2>1. /\ i + 1 \in 1 .. n /\ i + 1 \in 2 .. n /\ r[i] = q[i + 1] /\ i \in 1 .. n - 1
        /\ (i + 1) - 1 = i
    BY <1>1
  <2>2. IsSend(q[i + 1])
    BY <1>2, <2>1
  <2>3. Continues(s, q, sent, i + 1)
    BY <2>1, <2>2 DEF QueueOK
  <2>4. UpTo(z, Who(r[i]), Base(r[i]))
    BY <2>1, <2>2
  <2>5. \A j \in 1 .. i - 1 : IsSend(r[j]) /\ Who(r[j]) = Who(r[i]) => Final(r[j]) <= Base(r[i])
    <3> SUFFICES ASSUME NEW j \in 1 .. i - 1, IsSend(r[j]), Who(r[j]) = Who(r[i])
                 PROVE  Final(r[j]) <= Base(r[i])
      OBVIOUS
    <3>1. j + 1 \in 1 .. i /\ j \in 1 .. n - 1
      BY <1>1, <2>1
    <3>2. r[j] = q[j + 1]
      BY <1>1, <3>1
    <3>3. \A k \in 1 .. i : IsSend(q[k]) /\ Who(q[k]) = Who(q[i + 1])
                           => Final(q[k]) <= Base(q[i + 1])
      BY <2>1, <2>3 DEF Continues
    <3> QED BY <2>1, <3>1, <3>2, <3>3
  <2>6. \/ Base(r[i]) = 0
        \/ In(z, Who(r[i]), Base(r[i]))
        \/ \E j \in 1 .. i - 1 : IsSend(r[j]) /\ Who(r[j]) = Who(r[i]) /\ Final(r[j]) = Base(r[i])
    <3>1. \/ Base(r[i]) = 0
          \/ In(s, Who(r[i]), Base(r[i]))
          \/ \E j \in 1 .. i : IsSend(q[j]) /\ Who(q[j]) = Who(r[i]) /\ Final(q[j]) = Base(r[i])
      BY <2>1, <2>3 DEF Continues
    <3>2. ASSUME NEW j \in 1 .. i, IsSend(q[j]), Who(q[j]) = Who(r[i]), Final(q[j]) = Base(r[i])
          PROVE  \/ In(z, Who(r[i]), Base(r[i]))
                 \/ \E k \in 1 .. i - 1 : IsSend(r[k]) /\ Who(r[k]) = Who(r[i])
                                         /\ Final(r[k]) = Base(r[i])
      <4>1. CASE j = 1
        BY <3>2, <4>1
      <4>2. CASE j # 1
        <5>1. j - 1 \in 1 .. i - 1 /\ j - 1 \in 1 .. n - 1 /\ (j - 1) + 1 = j
          BY <1>1, <2>1, <4>2
        <5>2. r[j - 1] = q[j]
          BY <1>1, <5>1
        <5> QED BY <3>2, <5>1, <5>2
      <4> QED BY <4>1, <4>2
    <3> QED BY <3>1, <3>2
  <2>7. /\ Who(r[i]) \in Threads /\ Base(r[i]) \in Nat
        /\ Runs(r[i].message, Who(r[i]), Base(r[i]))
        /\ Final(r[i]) <= sent[Who(r[i])]
    BY <2>1, <2>3 DEF Continues
  <2> QED BY <2>4, <2>5, <2>6, <2>7 DEF Continues
<1>3. ASSUME NEW t \in Senders
      PROVE  AllSent(z, r, sent, t)
  <2>1. AllSent(s, q, sent, t)
    BY DEF QueueOK
  <2>2. ASSUME NEW j \in 1 .. n, IsSend(q[j]), Who(q[j]) = t, Final(q[j]) = sent[t]
        PROVE  \/ In(z, t, sent[t])
               \/ \E k \in 1 .. Len(r) : IsSend(r[k]) /\ Who(r[k]) = t /\ Final(r[k]) = sent[t]
    <3>1. CASE j = 1
      BY <2>2, <3>1
    <3>2. CASE j # 1
      <4>1. j - 1 \in 1 .. n - 1 /\ (j - 1) + 1 = j /\ j - 1 \in 1 .. Len(r)
        BY <1>1, <3>2
      <4>2. r[j - 1] = q[j]
        BY <1>1, <4>1
      <4> QED BY <2>2, <4>1, <4>2
    <3> QED BY <3>1, <3>2
  <2> QED BY <2>1, <2>2 DEF AllSent
<1>4. QueueOK(z, r, sent)
  BY <1>2, <1>3 DEF QueueOK
<1> QED BY <1>4 DEF r

(* The first call is not a send. *)
LEMMA PopOther ==
    ASSUME NEW s, NEW q \in Seq(Calls), NEW sent \in [Senders -> Nat],
           QueueOK(s, q, sent), q # <<>>, ~IsSend(q[1])
    PROVE  QueueOK(s, Tail(q), sent)
<1>1. Len(q) \in Nat
  BY LenProperties
<1>2. \A i \in 2 .. Len(q) : IsSend(q[i]) => UpTo(s, Who(q[i]), Base(q[i]))
  BY <1>1 DEF QueueOK, Continues
<1>3. \A t \in Senders : UpTo(s, t, sent[t])
  BY DEF QueueOK, AllSent
<1>4. \A t, n : In(s, t, n) => In(s, t, n)
  OBVIOUS
<1> QED BY <1>2, <1>3, <1>4, PopFirst

(* The first call is a send, and sendInLoop takes the message. *)
LEMMA PopSend ==
    ASSUME NEW s \in Seq(Bytes), NEW q \in Seq(Calls), NEW sent \in [Senders -> Nat],
           QueueOK(s, q, sent), Ordered(s), q # <<>>, IsSend(q[1])
    PROVE  Ordered(s \o q[1].message) /\ QueueOK(s \o q[1].message, Tail(q), sent)
<1> DEFINE m == q[1].message
           t == Who(q[1])
           b == Base(q[1])
           z == s \o m
<1>1. Len(q) \in Nat /\ 1 \in 1 .. Len(q)
  BY LenProperties, EmptySeq
<1>2. Continues(s, q, sent, 1)
  BY <1>1 DEF QueueOK
<1>3. q[1] \in Calls
  BY <1>1, ElementOfSeq
<1>4. m \in Seq(Bytes) /\ Len(m) \in Nat
  BY <1>3, LenProperties DEF Calls
<1>5. /\ t \in Threads /\ b \in Nat /\ Runs(m, t, b) /\ UpTo(s, t, b)
      /\ b + Len(m) = Final(q[1]) /\ Final(q[1]) <= sent[t]
      /\ b = 0 \/ In(s, t, b)
  BY <1>2 DEF Continues, Final
<1> HIDE DEF m, t, b
<1>6. Ordered(z)
  BY <1>4, <1>5, OrderedJoin
<1>7. /\ In(m, t, Final(q[1])) /\ UpTo(m, t, Final(q[1]))
      /\ \A u, n : u # t => UpTo(m, u, n)
  BY <1>4, <1>5, InMessage
<1>8. \A u, n : In(s, u, n) => In(z, u, n)
  BY <1>4, InJoin
<1>9. IsSend(q[1]) => In(z, Who(q[1]), Final(q[1]))
  BY <1>4, <1>7, InJoin DEF t
<1>10. ASSUME NEW u, NEW n \in Nat, UpTo(s, u, n), u = t => Final(q[1]) <= n
       PROVE  UpTo(z, u, n)
  <2>1. UpTo(m, u, n)
    <3>1. CASE u # t
      BY <1>7, <3>1
    <3>2. CASE u = t
      <4>1. Final(q[1]) \in Nat
        BY <1>4, <1>5
      <4> QED BY <1>4, <1>7, <1>10, <3>2, <4>1, NumberType DEF UpTo
    <3> QED BY <3>1, <3>2
  <2> QED BY <1>4, <1>10, <2>1, InJoin
<1>11. ASSUME NEW i \in 2 .. Len(q), IsSend(q[i])
       PROVE  UpTo(z, Who(q[i]), Base(q[i]))
  <2>1. i \in 1 .. Len(q) /\ 1 \in 1 .. i - 1
    BY <1>1
  <2>2. Continues(s, q, sent, i)
    BY <1>11, <2>1 DEF QueueOK
  <2>3. Base(q[i]) \in Nat /\ UpTo(s, Who(q[i]), Base(q[i]))
    BY <2>2 DEF Continues
  <2>4. Who(q[i]) = t => Final(q[1]) <= Base(q[i])
    BY <2>1, <2>2 DEF Continues, t
  <2> QED BY <1>10, <2>3, <2>4
<1>12. ASSUME NEW u \in Senders
       PROVE  UpTo(z, u, sent[u])
  <2>1. UpTo(s, u, sent[u]) /\ sent[u] \in Nat
    BY DEF QueueOK, AllSent
  <2> QED BY <1>5, <1>10, <2>1
<1> HIDE DEF z
<1>13. QueueOK(z, Tail(q), sent)
  BY <1>8, <1>9, <1>11, <1>12, PopFirst
<1> QED BY <1>6, <1>13 DEF z, m

(* The loop's own thread sends: sendInLoop is called in place. *)
LEMMA LoopSends ==
    ASSUME NEW s \in Seq(Bytes), NEW q \in Seq(Calls), NEW sent \in [Senders -> Nat],
           QueueOK(s, q, sent), Ordered(s),
           NEW m \in Seq(Bytes), Runs(m, Loop, sent[Loop]),
           NEW e, e = [sent EXCEPT ![Loop] = sent[Loop] + Len(m)]
    PROVE  Ordered(s \o m) /\ QueueOK(s \o m, q, e)
<1>1. /\ Loop \in Senders /\ Loop \notin Threads /\ sent[Loop] \in Nat
      /\ Len(m) \in Nat
  BY ConnectionAssumption, LenProperties DEF Senders
<1>2. /\ e \in [Senders -> Nat] /\ e[Loop] = sent[Loop] + Len(m)
      /\ \A u \in Senders : u # Loop => e[u] = sent[u]
  BY <1>1
<1>3. AllSent(s, q, sent, Loop)
  BY <1>1 DEF QueueOK
<1>4. \A j \in 1 .. Len(q) : IsSend(q[j]) => Who(q[j]) # Loop
  BY <1>1 DEF QueueOK, Continues
<1>5. UpTo(s, Loop, sent[Loop]) /\ (sent[Loop] = 0 \/ In(s, Loop, sent[Loop]))
  BY <1>3, <1>4 DEF AllSent
<1>6. Ordered(s \o m)
  BY <1>1, <1>5, OrderedJoin
<1>7. /\ In(m, Loop, e[Loop]) /\ UpTo(m, Loop, e[Loop])
      /\ \A u, n : u # Loop => UpTo(m, u, n)
  BY <1>1, <1>2, InMessage
<1>8. \A u, n : In(s, u, n) => In(s \o m, u, n)
  BY InJoin
<1>9. ASSUME NEW i \in 1 .. Len(q), IsSend(q[i])
      PROVE  Continues(s \o m, q, e, i)
  <2>1. Continues(s, q, sent, i)
    BY <1>9 DEF QueueOK
  <2>2. Who(q[i]) # Loop /\ Who(q[i]) \in Senders
    BY <1>4, <1>9, <2>1 DEF Continues, Senders
  <2>3. e[Who(q[i])] = sent[Who(q[i])]
    BY <1>2, <2>2
  <2>4. UpTo(s \o m, Who(q[i]), Base(q[i]))
    <3>1. UpTo(s, Who(q[i]), Base(q[i])) /\ UpTo(m, Who(q[i]), Base(q[i]))
      BY <1>7, <2>1, <2>2 DEF Continues
    <3> QED BY <3>1, InJoin
  <2> QED BY <1>8, <2>1, <2>3, <2>4 DEF Continues
<1>10. ASSUME NEW u \in Senders
       PROVE  AllSent(s \o m, q, e, u)
  <2>1. CASE u = Loop
    <3>1. UpTo(s, Loop, e[Loop])
      BY <1>1, <1>2, <1>5, NumberType DEF UpTo
    <3>2. UpTo(s \o m, Loop, e[Loop]) /\ In(s \o m, Loop, e[Loop])
      BY <1>7, <3>1, InJoin
    <3> QED BY <2>1, <3>2 DEF AllSent
  <2>2. CASE u # Loop
    <3>1. AllSent(s, q, sent, u) /\ e[u] = sent[u]
      BY <1>2, <2>2 DEF QueueOK
    <3>2. UpTo(s \o m, u, sent[u])
      <4>1. UpTo(s, u, sent[u]) /\ UpTo(m, u, sent[u])
        BY <1>7, <2>2, <3>1 DEF AllSent
      <4> QED BY <4>1, InJoin
    <3> QED BY <1>8, <3>1, <3>2 DEF AllSent
  <2> QED BY <2>1, <2>2
<1> QED BY <1>6, <1>9, <1>10 DEF QueueOK

-----------------------------------------------------------------------------
(* The types of the stream, the queue and the counters. *)
LEMMA StreamTypes ==
    ASSUME CallType, OutputType
    PROVE  /\ taken \in Seq(Bytes) /\ Waiting \in Seq(Calls)
           /\ task_vec_ \in Seq(Calls) /\ batch \in Seq(Calls)
           /\ Sent \in [Senders -> Nat]
<1>1. Waiting \in Seq(Calls)
  BY ConcatProperties DEF CallType, Waiting
<1>2. \A t \in Senders : calls[t].bytes \in Nat
  BY DEF CallType
<1>3. Sent \in [Senders -> Nat]
  BY <1>2 DEF Sent
<1> QED BY <1>1, <1>3 DEF CallType, OutputType

(* A message of len bytes is whole and follows what its sender sent. *)
LEMMA MessageRuns ==
    ASSUME CallType, NEW t \in Senders, NEW len \in Nat, len >= 1
    PROVE  /\ Message(t, len) \in Seq(Bytes)
           /\ Len(Message(t, len)) = len
           /\ Runs(Message(t, len), t, Sent[t])
<1>1. Message(t, len) \in Seq(Bytes)
  BY MessageType
<1>2. DOMAIN Message(t, len) = 1 .. len
  BY DEF Message
<1>3. Len(Message(t, len)) = len
  BY <1>1, <1>2, LenProperties
<1>4. ASSUME NEW k \in 1 .. len
      PROVE  /\ Message(t, len)[k].from = t
             /\ Message(t, len)[k].n = Sent[t] + k
             /\ ~Message(t, len)[k].last => k < len
  <2>1. /\ Message(t, len)[k].from = t
        /\ Message(t, len)[k].n = calls[t].bytes + k
        /\ Message(t, len)[k].last = (k = len)
    BY DEF Message
  <2>2. Sent[t] = calls[t].bytes
    BY DEF Sent
  <2>3. k # len => k < len
    OBVIOUS
  <2>4. ~Message(t, len)[k].last => k # len
    BY <2>1
  <2> QED BY <2>1, <2>2, <2>3, <2>4
<1> QED BY <1>1, <1>3, <1>4 DEF Runs

(* What a call of send() counts. *)
LEMMA SentAfter ==
    ASSUME CallType, NEW t \in Senders, NEW len \in Nat, CountSend(t, len)
    PROVE  Sent' = [Sent EXCEPT ![t] = Sent[t] + len]
<1>1. calls \in [Senders -> [bytes : Nat, down : BOOLEAN]]
      /\ calls' = [calls EXCEPT ![t].bytes = @ + len]
  BY DEF CallType, CountSend
<1>2. calls'[t].bytes = calls[t].bytes + len
  BY <1>1
<1>3. \A u \in Senders : u # t => calls'[u] = calls[u]
  BY <1>1
<1>4. Sent[t] = calls[t].bytes
  BY DEF Sent
<1>5. \A u \in Senders : calls'[u].bytes = IF u = t THEN Sent[t] + len ELSE calls[u].bytes
  BY <1>2, <1>3, <1>4
<1> QED BY <1>5 DEF Sent

(* queueTaskInThread puts a call behind all that wait. *)
LEMMA QueuedLast ==
    ASSUME NEW b \in Seq(Calls), NEW v \in Seq(Calls), NEW c \in Calls
    PROVE  b \o Append(v, c) = Append(b \o v, c)
<1>1. b \o v \in Seq(Calls) /\ <<c>> \in Seq(Calls)
  BY ConcatProperties
<1>2. Append(b \o v, c) = (b \o v) \o <<c>> /\ Append(v, c) = v \o <<c>>
  BY <1>1, AppendIsConcat
<1>3. (b \o v) \o <<c>> = b \o (v \o <<c>>)
  BY <1>1, ConcatAssociative
<1> QED BY <1>2, <1>3

(* Running the first call of the batch. *)
LEMMA RunFirst ==
    ASSUME NEW b \in Seq(Calls), NEW v \in Seq(Calls), b # <<>>
    PROVE  /\ Tail(b) \in Seq(Calls) /\ b \o v # <<>>
           /\ Tail(b) \o v = Tail(b \o v)
           /\ Head(b) = (b \o v)[1]
<1>1. Len(b) \in Nat /\ Len(v) \in Nat /\ Len(b) >= 1
  BY LenProperties, EmptySeq
<1>2. /\ Tail(b) \in Seq(Calls) /\ Len(Tail(b)) = Len(b) - 1 /\ Head(b) = b[1]
      /\ \A i \in 1 .. Len(b) - 1 : Tail(b)[i] = b[i + 1]
  BY <1>1, HeadTailProperties
<1>3. /\ b \o v \in Seq(Calls) /\ Len(b \o v) = Len(b) + Len(v)
      /\ \A i \in 1 .. Len(b) + Len(v) :
           (b \o v)[i] = IF i <= Len(b) THEN b[i] ELSE v[i - Len(b)]
  BY ConcatProperties
<1>4. b \o v # <<>> /\ (b \o v)[1] = b[1]
  BY <1>1, <1>3, EmptySeq
<1>5. /\ Tail(b \o v) \in Seq(Calls) /\ Len(Tail(b \o v)) = (Len(b) - 1) + Len(v)
      /\ \A i \in 1 .. (Len(b) - 1) + Len(v) : Tail(b \o v)[i] = (b \o v)[i + 1]
  <2> DEFINE w == b \o v
  <2>1. w \in Seq(Calls) /\ w # <<>> /\ Len(w) = Len(b) + Len(v)
    BY <1>3, <1>4
  <2> HIDE DEF w
  <2>2. Tail(w) \in Seq(Calls) /\ Len(Tail(w)) = Len(w) - 1
        /\ \A i \in 1 .. Len(w) - 1 : Tail(w)[i] = w[i + 1]
    BY <2>1, HeadTailProperties, LenProperties
  <2>3. Len(w) - 1 = (Len(b) - 1) + Len(v)
    BY <1>1, <2>1
  <2> QED BY <2>2, <2>3 DEF w
<1>6. /\ Tail(b) \o v \in Seq(Calls) /\ Len(Tail(b) \o v) = (Len(b) - 1) + Len(v)
      /\ \A i \in 1 .. (Len(b) - 1) + Len(v) :
           (Tail(b) \o v)[i] = IF i <= Len(b) - 1 THEN Tail(b)[i] ELSE v[i - (Len(b) - 1)]
  <2> DEFINE w == Tail(b)
  <2>1. w \in Seq(Calls) /\ Len(w) = Len(b) - 1
    BY <1>2
  <2> HIDE DEF w
  <2>2. /\ w \o v \in Seq(Calls) /\ Len(w \o v) = Len(w) + Len(v)
        /\ \A i \in 1 .. Len(w) + Len(v) :
             (w \o v)[i] = IF i <= Len(w) THEN w[i] ELSE v[i - Len(w)]
    BY <2>1, ConcatProperties
  <2> QED BY <2>1, <2>2 DEF w
<1>7. ASSUME NEW i \in 1 .. (Len(b) - 1) + Len(v)
      PROVE  (Tail(b) \o v)[i] = Tail(b \o v)[i]
  <2>1. i + 1 \in 1 .. Len(b) + Len(v) /\ i - (Len(b) - 1) = (i + 1) - Len(b)
        /\ (i <= Len(b) - 1 <=> i + 1 <= Len(b)) /\ (i <= Len(b) - 1 => i \in 1 .. Len(b) - 1)
    BY <1>1
  <2>2. Tail(b \o v)[i] = (b \o v)[i + 1]
    BY <1>5
  <2>3. CASE i <= Len(b) - 1
    BY <1>2, <1>3, <1>6, <2>1, <2>2, <2>3
  <2>4. CASE ~(i <= Len(b) - 1)
    BY <1>3, <1>6, <2>1, <2>2, <2>4
  <2> QED BY <2>3, <2>4
<1>8. Tail(b) \o v = Tail(b \o v)
  BY <1>5, <1>6, <1>7, SeqEqual
<1> QED BY <1>2, <1>4, <1>8

(* sendInLoop of an open connection takes the whole message, or refuses it *)
(* and, from then on, every other.                                         *)
LEMMA SendOutcome ==
    ASSUME SendInv, OutputOK, Booleans, ~closed, NEW m, SendInLoop(m)
    PROVE  \/ Refusing /\ UNCHANGED <<output, task_vec_>>
           \/ /\ ~Refusing
              /\ taken' = taken \o m
              /\ \/ task_vec_' = task_vec_
                 \/ task_vec_' = Append(task_vec_, Call("writeCb", <<>>))
<1>1. state_ # "disconnected"
  BY DEF SendInv
<1>2. WriteAtOnce <=> output_buffer_ = <<>>
  BY DEF WriteAtOnce, OutputOK, WritingIffBuffered, Booleans
<1>3. CASE UNCHANGED <<output, task_vec_>> /\ WriteAtOnce /\ Broken
  BY <1>2, <1>3 DEF Refusing
<1>4. CASE ~WriteAtOnce /\ taken' = taken \o m /\ task_vec_' = task_vec_
  BY <1>2, <1>4 DEF Refusing
<1>5. CASE ~Broken /\ taken' = taken \o m
           /\ \E k \in {0, Fits(Len(m))} :
                IF k = Len(m) THEN QueueTask("writeCb", <<>>) ELSE UNCHANGED task_vec_
  BY <1>5 DEF Refusing, QueueTask
<1> QED BY <1>1, <1>3, <1>4, <1>5 DEF SendInLoop

(* The call of the application's callback that may be queued behind all    *)
(* that waits changes nothing for the sends.                               *)
LEMMA WriteCbQueued ==
    ASSUME NEW s \in Seq(Bytes), NEW b \in Seq(Calls), NEW v \in Seq(Calls),
           NEW sent \in [Senders -> Nat], QueueOK(s, b \o v, sent), NEW w,
           w = v \/ w = Append(v, Call("writeCb", <<>>))
    PROVE  QueueOK(s, b \o w, sent)
<1> DEFINE c == Call("writeCb", <<>>)
<1>1. c \in Calls /\ ~IsSend(c)
  BY EmptySeq DEF Call, Calls, IsSend
<1> HIDE DEF c
<1>2. b \o v \in Seq(Calls)
  BY ConcatProperties
<1>3. QueueOK(s, Append(b \o v, c), sent)
  BY <1>1, <1>2, PushOther
<1>4. b \o Append(v, c) = Append(b \o v, c)
  BY <1>1, QueuedLast
<1> QED BY <1>3, <1>4 DEF c

(* A step that leaves the stream, the queue and the counters as they are.  *)
LEMMA SendInvStays ==
    ASSUME SendInv, ~closed => Ordered(taken') /\ (Refusing => Refusing'),
           taken' = taken, Waiting' = Waiting, Sent' = Sent, closed' = closed,
           state_' = "disconnected" => closed'
    PROVE  SendInv'
  BY DEF SendInv

(* A step that closes the connection, or finds it closed. *)
LEMMA SendInvClosed ==
    ASSUME closed'
    PROVE  SendInv'
  BY DEF SendInv

(* A step after which messages are refused. *)
LEMMA SendInvRefusing ==
    ASSUME SendInv, ~closed, Refusing', taken' = taken,
           state_' # "disconnected"
    PROVE  SendInv'
  BY DEF SendInv

(* Once handleClose was called it stays called. *)
LEMMA ClosedStays ==
    ASSUME Booleans, closed, Next
    PROVE  closed'
<1>1. closed = TRUE
  BY DEF Booleans
<1>2. closed' = TRUE
  BY <1>1 DEF Next, ThreadStep, LoopStep, SendCheck, DownCheck, SendPush, DownSet,
     DownPush, LoopSend, LoopShutdown, LoopForceClose, HandleClose, SwapTasks, RunTask,
     HandleWrite, HandleRead, HandleHangup, PeerRead, PeerReset, ending
<1> QED BY <1>2

(* Every step keeps the order. *)
LEMMA NextSendInv ==
    ASSUME IInv, SendInv, [Next]_vars
    PROVE  SendInv'
<1> USE DEF ending
<1>0. /\ CallType /\ Booleans /\ OutputOK /\ OutputType
      /\ taken \in Seq(Bytes) /\ Waiting \in Seq(Calls)
      /\ task_vec_ \in Seq(Calls) /\ batch \in Seq(Calls)
      /\ Sent \in [Senders -> Nat]
  BY StreamTypes DEF IInv, OutputOK
<1>1. CASE UNCHANGED vars
  <2>1. taken' = taken /\ Waiting' = Waiting /\ Sent' = Sent /\ closed' = closed
        /\ state_' = state_ /\ Refusing' = Refusing
    BY <1>1 DEF vars, Waiting, Sent, Refusing, Broken
  <2> QED BY <2>1, SendInvStays DEF SendInv
<1>2. CASE Next /\ closed
  BY <1>0, <1>2, ClosedStays, SendInvClosed
<1> SUFFICES ASSUME Next, ~closed PROVE SendInv'
  BY <1>1, <1>2
<1>3. state_ # "disconnected" /\ Ordered(taken)
      /\ (~Refusing => QueueOK(taken, Waiting, Sent))
  BY DEF SendInv
<1>4. ASSUME NEW t \in Threads, SendCheck(t) PROVE SendInv'
  <2>1. taken' = taken /\ Waiting' = Waiting /\ Sent' = Sent /\ closed' = closed
        /\ state_' = state_ /\ Refusing' = Refusing
    BY <1>4 DEF SendCheck, output, Waiting, Sent, Refusing, Broken
  <2> QED BY <1>3, <2>1, SendInvStays
<1>5. ASSUME NEW t \in Threads, SendPush(t) PROVE SendInv'
  <2>1. PICK len \in 1 .. MaxLen : QueueTask("sendInLoop", Message(t, len)) /\ CountSend(t, len)
    BY <1>5 DEF SendPush
  <2>2. t \in Senders /\ len \in Nat /\ len >= 1
    BY ConnectionAssumption DEF Senders
  <2>3. /\ taken' = taken /\ closed' = closed /\ state_' = state_ /\ batch' = batch
        /\ Refusing' = Refusing
    BY <1>5 DEF SendPush, output, Refusing, Broken
  <2>4. CASE Refusing
    BY <1>3, <2>3, <2>4, SendInvRefusing
  <2>5. CASE ~Refusing
    <3> DEFINE c == Call("sendInLoop", Message(t, len))
    <3>1. /\ Message(t, len) \in Seq(Bytes) /\ Len(Message(t, len)) = len
          /\ Runs(Message(t, len), t, Sent[t])
      BY <1>0, <2>2, MessageRuns
    <3>2. c \in Calls /\ IsSend(c) /\ c.message = Message(t, len)
      BY <3>1 DEF Call, Calls, IsSend
    <3>3. Sent' = [Sent EXCEPT ![t] = Sent[t] + Len(c.message)]
      BY <1>0, <2>1, <2>2, <3>1, <3>2, SentAfter
    <3>4. task_vec_' = Append(task_vec_, c)
      BY <2>1 DEF QueueTask
    <3> HIDE DEF c
    <3>5. Waiting' = Append(Waiting, c)
      BY <1>0, <2>3, <3>2, <3>4, QueuedLast DEF Waiting
    <3>6. Runs(c.message, t, Sent[t])
      BY <3>1, <3>2
    <3>7. QueueOK(taken, Append(Waiting, c), Sent')
      BY <1>0, <1>3, <2>5, <3>2, <3>3, <3>6, PushSend
    <3> QED BY <1>3, <2>3, <3>5, <3>7 DEF SendInv
  <2> QED BY <2>4, <2>5
<1>6. ASSUME NEW t \in Threads, DownCheck(t) PROVE SendInv'
  <2>1. taken' = taken /\ Waiting' = Waiting /\ closed' = closed
        /\ state_' = state_ /\ Refusing' = Refusing
    BY <1>6 DEF DownCheck, output, Waiting, Refusing, Broken
  <2>2. \A u \in Senders : calls'[u].bytes = calls[u].bytes
    <3>1. calls \in [Senders -> [bytes : Nat, down : BOOLEAN]]
          /\ calls' = [calls EXCEPT ![t].down = TRUE]
      BY <1>0, <1>6 DEF CallType, DownCheck
    <3> QED BY <3>1
  <2>3. Sent' = Sent
    BY <2>2 DEF Sent
  <2> QED BY <1>3, <2>1, <2>3, SendInvStays
<1>7. ASSUME NEW t \in Threads, DownSet(t) PROVE SendInv'
  <2>1. taken' = taken /\ Waiting' = Waiting /\ Sent' = Sent /\ closed' = closed
        /\ state_' = "disconnecting" /\ Refusing' = Refusing
    BY <1>7 DEF DownSet, output, Waiting, Sent, Refusing, Broken
  <2> QED BY <1>3, <2>1, SendInvStays
<1>8. ASSUME NEW t \in Threads, DownPush(t) PROVE SendInv'
  <2>1. taken' = taken /\ batch' = batch /\ Sent' = Sent /\ closed' = closed
        /\ state_' = state_ /\ Refusing' = Refusing
        /\ task_vec_' = Append(task_vec_, Call(pc[t], <<>>))
    BY <1>8 DEF DownPush, output, Sent, Refusing, Broken, QueueTask
  <2> DEFINE c == Call(pc[t], <<>>)
  <2>2. c \in Calls /\ ~IsSend(c)
    BY <1>8, EmptySeq DEF DownPush, Call, Calls, IsSend
  <2> HIDE DEF c
  <2>3. Waiting' = Append(Waiting, c)
    BY <1>0, <2>1, <2>2, QueuedLast DEF Waiting, c
  <2>4. ~Refusing => QueueOK(taken, Append(Waiting, c), Sent)
    BY <1>0, <1>3, <2>2, PushOther
  <2> QED BY <1>3, <2>1, <2>3, <2>4 DEF SendInv
<1>9. CASE LoopSend
  <2>1. PICK len \in 1 .. MaxLen : SendInLoop(Message(Loop, len)) /\ CountSend(Loop, len)
    BY <1>9 DEF LoopSend
  <2> DEFINE m == Message(Loop, len)
  <2>2. Loop \in Senders /\ len \in Nat /\ len >= 1
    BY ConnectionAssumption DEF Senders
  <2>3. closed' = closed /\ state_' = state_ /\ batch' = batch /\ Broken' = Broken
    BY <1>9 DEF LoopSend, Broken
  <2>4. m \in Seq(Bytes) /\ Len(m) = len /\ Runs(m, Loop, Sent[Loop])
    BY <1>0, <2>2, MessageRuns
  <2>5. Sent' = [Sent EXCEPT ![Loop] = Sent[Loop] + Len(m)]
    BY <1>0, <2>1, <2>2, <2>4, SentAfter
  <2>6. SendInLoop(m)
    BY <2>1
  <2> HIDE DEF m
  <2>7. CASE Refusing /\ UNCHANGED <<output, task_vec_>>
    <3>1. Refusing' /\ taken' = taken
      BY <2>3, <2>7 DEF Refusing, output
    <3> QED BY <1>3, <2>3, <3>1, SendInvRefusing
  <2>8. CASE /\ ~Refusing
             /\ taken' = taken \o m
             /\ \/ task_vec_' = task_vec_
                \/ task_vec_' = Append(task_vec_, Call("writeCb", <<>>))
    <3>1. Ordered(taken \o m) /\ QueueOK(taken \o m, Waiting, Sent')
      BY <1>0, <1>3, <2>4, <2>5, <2>8, LoopSends
    <3>2. taken \o m \in Seq(Bytes) /\ Sent' \in [Senders -> Nat]
      BY <1>0, <2>2, <2>4, <2>5, ConcatProperties
    <3>3. QueueOK(taken \o m, batch \o task_vec_', Sent')
      BY <1>0, <2>8, <3>1, <3>2, WriteCbQueued DEF Waiting
    <3> QED BY <1>3, <2>3, <2>8, <3>1, <3>3 DEF SendInv, Waiting
  <2> QED BY <1>0, <2>6, <2>7, <2>8, SendOutcome
<1>10. CASE LoopShutdown
  <2>1. taken' = taken /\ Waiting' = Waiting /\ Sent' = Sent /\ closed' = closed
        /\ state_' = "disconnecting" /\ output_buffer_' = output_buffer_
        /\ fin' = (fin \/ ~writing) /\ reset' = reset
    BY <1>10 DEF LoopShutdown, ShutdownInLoop, output, Waiting, Sent
  <2>2. Refusing => Refusing'
    BY <1>0, <2>1 DEF Refusing, Broken, Booleans
  <2> QED BY <1>3, <2>1, <2>2, SendInvStays
<1>11. CASE LoopForceClose \/ HandleRead \/ HandleHangup
  <2>1. closed' = TRUE
    BY <1>11 DEF LoopForceClose, HandleRead, HandleHangup, HandleClose
  <2>2. closed'
    BY <2>1
  <2> QED BY <2>2, SendInvClosed
<1>12. CASE SwapTasks
  <2>1. taken' = taken /\ Sent' = Sent /\ closed' = closed /\ state_' = state_
        /\ Refusing' = Refusing
    BY <1>12 DEF SwapTasks, output, Sent, Refusing, Broken
  <2>2. Waiting' = Waiting
    <3>1. batch = <<>> /\ batch' = task_vec_ /\ task_vec_' = <<>>
      BY <1>12 DEF SwapTasks
    <3>2. <<>> \o task_vec_ = task_vec_ /\ task_vec_ \o <<>> = task_vec_
      BY <1>0, ConcatEmptySeq
    <3> QED BY <3>1, <3>2 DEF Waiting
  <2> QED BY <1>3, <2>1, <2>2, SendInvStays
<1>13. CASE RunTask
  <2>1. batch # <<>> /\ batch' = Tail(batch) /\ Sent' = Sent
    BY <1>13 DEF RunTask, Sent
  <2>2. /\ Tail(batch) \in Seq(Calls) /\ Waiting # <<>>
        /\ Tail(batch) \o task_vec_ = Tail(Waiting) /\ Head(batch) = Waiting[1]
    BY <1>0, <2>1, RunFirst DEF Waiting
  <2>3. CASE /\ Head(batch).fn = "sendInLoop"
             /\ SendInLoop(Head(batch).message)
             /\ UNCHANGED <<state_, ending>>
    <3>1. closed' = closed /\ state_' = state_ /\ Broken' = Broken
      BY <2>3 DEF Broken
    <3>2. IsSend(Waiting[1]) /\ SendInLoop(Waiting[1].message)
      BY <2>2, <2>3 DEF IsSend
    <3>3. CASE Refusing /\ UNCHANGED <<output, task_vec_>>
      <4>1. Refusing' /\ taken' = taken
        BY <3>1, <3>3 DEF Refusing, output
      <4> QED BY <1>3, <3>1, <4>1, SendInvRefusing
    <3>4. CASE /\ ~Refusing
               /\ taken' = taken \o Waiting[1].message
               /\ \/ task_vec_' = task_vec_
                  \/ task_vec_' = Append(task_vec_, Call("writeCb", <<>>))
      <4>1. Ordered(taken') /\ QueueOK(taken', Tail(Waiting), Sent)
        BY <1>0, <1>3, <2>2, <3>2, <3>4, PopSend
      <4>2. Waiting[1] \in Calls
        BY <1>0, <2>2, ElementOfSeq, EmptySeq, LenProperties
      <4>3. taken' \in Seq(Bytes)
        <5>1. Waiting[1].message \in Seq(Bytes)
          BY <4>2 DEF Calls
        <5> QED BY <1>0, <3>4, <5>1, ConcatProperties
      <4>4. QueueOK(taken', Tail(batch) \o task_vec_, Sent)
        BY <2>2, <4>1
      <4>5. QueueOK(taken', Tail(batch) \o task_vec_', Sent)
        BY <1>0, <2>2, <3>4, <4>3, <4>4, WriteCbQueued
      <4> QED BY <1>3, <2>1, <3>1, <4>1, <4>5 DEF SendInv, Waiting
    <3> QED BY <1>0, <3>2, <3>3, <3>4, SendOutcome
  <2>4. ASSUME ~IsSend(Waiting[1]), taken' = taken, closed' = closed,
               state_' # "disconnected", task_vec_' = task_vec_, Refusing => Refusing'
        PROVE  SendInv'
    <3>1. ~Refusing => QueueOK(taken, Tail(Waiting), Sent)
      BY <1>0, <1>3, <2>2, <2>4, PopOther
    <3>2. Waiting' = Tail(Waiting)
      BY <2>1, <2>2, <2>4 DEF Waiting
    <3> QED BY <1>3, <2>1, <2>4, <3>1, <3>2 DEF SendInv
  <2>5. CASE /\ Head(batch).fn = "shutdownInLoop"
             /\ ShutdownInLoop(writing)
             /\ UNCHANGED <<state_, output, task_vec_, reset, closed>>
    <3>1. Refusing => Refusing'
      BY <1>0, <2>5 DEF Refusing, Broken, Booleans, ShutdownInLoop, output
    <3>2. ~IsSend(Waiting[1])
      BY <2>2, <2>5 DEF IsSend
    <3> QED BY <1>3, <2>4, <2>5, <3>1, <3>2 DEF output
  <2>6. CASE Head(batch).fn = "forceCloseInLoop" /\ HandleClose
    BY <2>6, SendInvClosed DEF HandleClose
  <2>7. CASE /\ Head(batch).fn = "writeCb"
             /\ UNCHANGED <<state_, output, task_vec_, ending>>
    <3>1. Refusing => Refusing'
      BY <2>7 DEF Refusing, Broken, output
    <3>2. ~IsSend(Waiting[1])
      BY <2>2, <2>7 DEF IsSend
    <3> QED BY <1>3, <2>4, <2>7, <3>1, <3>2 DEF output
  <2> QED BY <1>3, <1>13, <2>3, <2>5, <2>6, <2>7 DEF RunTask
<1>14. CASE HandleWrite
  <2>1. taken' = taken /\ batch' = batch /\ Sent' = Sent /\ closed' = closed /\ state_' = state_
        /\ ~Refusing
        /\ (task_vec_' = task_vec_ \/ task_vec_' = Append(task_vec_, Call("writeCb", <<>>)))
    BY <1>14 DEF HandleWrite, Sent, QueueTask, Refusing
  <2>2. QueueOK(taken, batch \o task_vec_', Sent)
    BY <1>0, <1>3, <2>1, WriteCbQueued DEF Waiting
  <2> QED BY <1>3, <2>1, <2>2 DEF SendInv, Waiting
<1>15. CASE PeerRead
  <2>1. taken' = taken /\ Waiting' = Waiting /\ Sent' = Sent /\ closed' = closed
        /\ state_' = state_ /\ Refusing' = Refusing
    BY <1>15 DEF PeerRead, output, Waiting, Sent, Refusing, Broken
  <2> QED BY <1>3, <2>1, SendInvStays
<1>16. CASE PeerReset
  <2>1. taken' = taken /\ Waiting' = Waiting /\ Sent' = Sent /\ closed' = closed
        /\ state_' = state_ /\ (Refusing => Refusing')
    BY <1>16 DEF PeerReset, output, Waiting, Sent, Refusing, Broken
  <2> QED BY <1>3, <2>1, SendInvStays
<1> QED BY <1>4, <1>5, <1>6, <1>7, <1>8, <1>9, <1>10, <1>11, <1>12, <1>13, <1>14, <1>15,
           <1>16 DEF Next, ThreadStep, LoopStep

(* Init *)
LEMMA InitSendInv == Init => SendInv
<1> SUFFICES ASSUME Init PROVE SendInv
  OBVIOUS
<1>1. taken = <<>> /\ Len(taken) = 0 /\ Waiting = <<>> /\ Len(Waiting) = 0
  BY EmptySeq, ConcatEmptySeq DEF Init, Waiting
<1>2. \A t \in Senders : Sent[t] = 0
  BY DEF Init, Sent
<1>3. Ordered(taken)
  BY <1>1 DEF Ordered
<1>4. QueueOK(taken, Waiting, Sent)
  BY <1>1, <1>2 DEF QueueOK, AllSent, UpTo
<1> QED BY <1>3, <1>4 DEF SendInv, Init

(* Whatever threads send at the same time, and whatever part of it ::send  *)
(* takes: while the connection is open the stream is made of whole         *)
(* messages, each sender's bytes in order and without a gap.               *)
THEOREM OrderOfSends == Spec => []SenderOrder
<1>1. Init => SendInv
  BY InitSendInv
<1>2. IInv /\ SendInv /\ [Next]_vars => SendInv'
  BY NextSendInv
<1>3. IInv /\ SendInv => SenderOrder
  <2> SUFFICES ASSUME IInv, SendInv, ~closed PROVE SenderOrder
    BY DEF SenderOrder
  <2>1. wire \o output_buffer_ = taken /\ taken \in Seq(Bytes) /\ Ordered(taken)
    BY DEF IInv, OutputOK, OutputType, StreamConserved, SendInv
  <2>2. DOMAIN taken = 1 .. Len(taken)
    BY <2>1, LenProperties
  <2> QED BY <2>1, <2>2 DEF SenderOrder, Ordered
<1> QED BY <1>1, <1>2, <1>3, OutputInvariant, PTL DEF Spec
=============================================================================
