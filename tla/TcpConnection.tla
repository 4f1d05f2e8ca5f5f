---------------------------- MODULE TcpConnection ----------------------------
(***************************************************************************)
(* What becomes of the bytes that are given to TcpConnection::send: the    *)
(* output path of one connection, from any thread through the tasks of its *)
(* loop, ::send and output_buffer_ to the wire, and how it ends with       *)
(* shutdown(), forceClose() or a peer that resets.                         *)
(*                                                                         *)
(* Who holds the connection, and how it is removed from the server, is the *)
(* subject of TcpServer; here the object outlives every call.              *)
(* output_buffer_ is a queue of bytes, which Buffer implements, and the    *)
(* loop runs its tasks in the order they were queued, as EventLoop does.   *)
(*                                                                         *)
(* A byte is known by its sender and its number among the sender's bytes;  *)
(* last marks the end of a message.                                        *)
(***************************************************************************)
EXTENDS Integers, Sequences, FiniteSets

CONSTANTS
    Threads,            \* threads that own another loop, or none
    Loop,               \* the thread of the connection's loop
    ThreadOps, LoopOps, \* what they call
    Capacity,           \* bytes the kernel takes before the peer reads some
    MaxSends,           \* bound: calls of send()
    MaxLen,             \* bound: bytes of a message
    MaxDowns            \* bound: threads that shut down or force a close

ASSUME ConnectionAssumption ==
    /\ Loop \notin Threads
    /\ ThreadOps \cup LoopOps \subseteq {"send", "shutdown", "forceClose"}
    /\ {Capacity, MaxSends, MaxLen, MaxDowns} \subseteq Nat \ {0}

Senders == Threads \cup {Loop}
Bytes   == [from : Senders, n : Nat, last : BOOLEAN]
Calls   == [fn : {"sendInLoop", "shutdownInLoop", "forceCloseInLoop", "writeCb"},
            message : Seq(Bytes)]

VARIABLES
    state_,             \* of the connection
    writing,            \* channel_->isWriting()
    output_buffer_,
    task_vec_,          \* queued calls on this connection ...
    batch,              \* ... and those the loop swapped out and will run
    pc,                 \* per thread: where it is in a call
    sends,              \* the calls of send() so far
    calls,              \* per sender: the bytes it sent, and if it shut down
    wire,               \* the bytes the kernel took, in order
    read,               \* how many of them the peer has read
    fin,                \* shutdownWrite was called
    reset,              \* the peer is gone
    closed,             \* handleClose was called
    taken               \* history: the bytes sendInLoop did not refuse

vars == <<state_, writing, output_buffer_, task_vec_, batch, pc, sends, calls,
          wire, read, fin, reset, closed, taken>>
output == <<writing, output_buffer_, wire, taken>>
ending == <<fin, reset, closed>>

TypeOK ==
    /\ state_ \in {"connected", "disconnecting", "disconnected"}
    /\ {writing, fin, reset, closed} \subseteq BOOLEAN
    /\ {output_buffer_, wire, taken} \subseteq Seq(Bytes)
    /\ {task_vec_, batch} \subseteq Seq(Calls)
    /\ pc \in [Threads -> {"idle", "send", "shutdown", "forceClose",
                           "shutdownInLoop", "forceCloseInLoop"}]
    /\ calls \in [Senders -> [bytes : Nat, down : BOOLEAN]]
    /\ sends \in Nat
    /\ read \in Nat

(* connectComplete was called. *)
Init ==
    /\ state_ = "connected"
    /\ writing = FALSE /\ output_buffer_ = <<>>
    /\ task_vec_ = <<>> /\ batch = <<>>
    /\ pc = [t \in Threads |-> "idle"]
    /\ calls = [s \in Senders |-> [bytes |-> 0, down |-> FALSE]] /\ sends = 0
    /\ wire = <<>> /\ read = 0 /\ taken = <<>>
    /\ fin = FALSE /\ reset = FALSE /\ closed = FALSE

-----------------------------------------------------------------------------
(* The next message of a sender, of len bytes. *)
Message(s, len) ==
    [i \in 1 .. len |-> [from |-> s, n |-> calls[s].bytes + i, last |-> i = len]]

CountSend(s, len) ==
    /\ sends' = sends + 1
    /\ calls' = [calls EXCEPT ![s].bytes = @ + len]

Call(fn, message) == [fn |-> fn, message |-> message]

(* queueTaskInThread of the connection's loop. *)
QueueTask(fn, message) == task_vec_' = Append(task_vec_, Call(fn, message))

(* ::send: what of n bytes fits.  A signal, or a lack of memory, counts    *)
(* like a full socket: nothing is taken.                                   *)
Room    == Capacity - (Len(wire) - read)
Fits(n) == IF n <= Room THEN n ELSE Room
Broken  == fin \/ reset                 \* EPIPE, ECONNRESET

RestSkipped(s, k) == SubSeq(s, k + 2, Len(s))

Front(s, k) == SubSeq(s, 1, k)
Rest(s, k)  == SubSeq(s, k + 1, Len(s))

WriteAtOnceAlways == TRUE

(* sendInLoop may try to write only if nothing waits to be written. *)
WriteAtOnce == ~writing /\ output_buffer_ = <<>>

EnableWritingNever(b) == writing

(* enableWriting, unless it is on. *)
EnableWriting(b) == b \/ writing

BufferUp(m) ==
    /\ output_buffer_' = output_buffer_ \o m
    /\ writing' = EnableWriting(m # <<>>)

SendInLoop(m) ==
    \/ /\ state_ = "disconnected" \/ (WriteAtOnce /\ Broken)
       /\ UNCHANGED <<output, task_vec_>>
    \/ /\ state_ # "disconnected" /\ ~WriteAtOnce
       /\ BufferUp(m)
       /\ taken' = taken \o m
       /\ UNCHANGED <<wire, task_vec_>>
    \/ /\ state_ # "disconnected" /\ WriteAtOnce /\ ~Broken
       /\ \E k \in {0, Fits(Len(m))} :
             /\ wire' = wire \o Front(m, k)
             /\ BufferUp(Rest(m, k))
             /\ IF k = Len(m) THEN QueueTask("writeCb", <<>>) ELSE UNCHANGED task_vec_
       /\ taken' = taken \o m

ShutdownAnyway(w) == fin' = TRUE

(* "something in the output_buffer, wait until they are sent."             *)
ShutdownInLoop(w) == fin' = (fin \/ ~w)

(* handleClose, whose callbacks and removal are in TcpServer. *)
HandleClose ==
    /\ state_' = "disconnected"
    /\ writing' = FALSE
    /\ closed' = TRUE
    /\ UNCHANGED <<output_buffer_, wire, taken, task_vec_, fin, reset>>

-----------------------------------------------------------------------------
(* send() of another thread: state_ is read, the task is queued later. *)
SendCheck(t) ==
    /\ "send" \in ThreadOps
    /\ pc[t] = "idle"
    /\ state_ = "connected"
    /\ sends + Cardinality({u \in Threads : pc[u] = "send"}) < MaxSends
    /\ pc' = [pc EXCEPT ![t] = "send"]
    /\ UNCHANGED <<state_, output, task_vec_, batch, sends, calls, read, ending>>

SendPush(t) ==
    /\ pc[t] = "send"
    /\ \E len \in 1 .. MaxLen :
          QueueTask("sendInLoop", Message(t, len)) /\ CountSend(t, len)
    /\ pc' = [pc EXCEPT ![t] = "idle"]
    /\ UNCHANGED <<state_, output, batch, read, ending>>

(* shutdown() and forceClose(): state_ is read, written, the task queued.  *)
(* A thread does it once.                                                  *)
DownCheck(t) ==
    /\ pc[t] = "idle"
    /\ ~calls[t].down
    /\ Cardinality({u \in Threads : calls[u].down}) < MaxDowns
    /\ state_ # "disconnected"
    /\ \E op \in ThreadOps \ {"send"} : pc' = [pc EXCEPT ![t] = op]
    /\ calls' = [calls EXCEPT ![t].down = TRUE]
    /\ UNCHANGED <<state_, output, task_vec_, batch, sends, read, ending>>

DownSet(t) ==
    /\ pc[t] \in {"shutdown", "forceClose"}
    /\ state_' = "disconnecting"
    /\ pc' = [pc EXCEPT ![t] = IF @ = "shutdown" THEN "shutdownInLoop" ELSE "forceCloseInLoop"]
    /\ UNCHANGED <<output, task_vec_, batch, sends, calls, read, ending>>

DownPush(t) ==
    /\ pc[t] \in {"shutdownInLoop", "forceCloseInLoop"}
    /\ QueueTask(pc[t], <<>>)
    /\ pc' = [pc EXCEPT ![t] = "idle"]
    /\ UNCHANGED <<state_, output, batch, sends, calls, read, ending>>

(* The same by the loop's thread, in any callback: doTaskInThread calls in *)
(* place.                                                                  *)
LoopSend ==
    /\ "send" \in LoopOps
    /\ state_ = "connected"
    /\ sends + Cardinality({u \in Threads : pc[u] = "send"}) < MaxSends
    /\ \E len \in 1 .. MaxLen : SendInLoop(Message(Loop, len)) /\ CountSend(Loop, len)
    /\ UNCHANGED <<state_, batch, pc, read, ending>>

LoopShutdown ==
    /\ "shutdown" \in LoopOps
    /\ state_ # "disconnected"
    /\ state_' = "disconnecting"
    /\ ShutdownInLoop(writing)
    /\ UNCHANGED <<output, task_vec_, batch, pc, sends, calls, read, reset, closed>>

LoopForceClose ==
    /\ "forceClose" \in LoopOps
    /\ state_ # "disconnected"
    /\ HandleClose
    /\ UNCHANGED <<batch, pc, sends, calls, read>>

-----------------------------------------------------------------------------
(* The loop: events are handled, then the queued tasks are run. *)
SwapTasks ==
    /\ batch = <<>>
    /\ task_vec_ # <<>>
    /\ batch' = task_vec_
    /\ task_vec_' = <<>>
    /\ UNCHANGED <<state_, output, pc, sends, calls, read, ending>>

RunTask ==
    /\ batch # <<>>
    /\ batch' = Tail(batch)
    /\ \/ /\ Head(batch).fn = "sendInLoop"
          /\ SendInLoop(Head(batch).message)
          /\ UNCHANGED <<state_, ending>>
       \/ /\ Head(batch).fn = "shutdownInLoop"
          /\ ShutdownInLoop(writing)
          /\ UNCHANGED <<state_, output, task_vec_, reset, closed>>
       \/ /\ Head(batch).fn = "forceCloseInLoop"
          /\ IF state_ # "disconnected" THEN HandleClose
             ELSE UNCHANGED <<state_, output, task_vec_, ending>>
       \/ /\ Head(batch).fn = "writeCb"
          /\ UNCHANGED <<state_, output, task_vec_, ending>>
    /\ UNCHANGED <<pc, sends, calls, read>>

NoPendingShutdown == FALSE

(* "Make sure message send finish, need check connection state." *)
PendingShutdown == state_ = "disconnecting"

(* handleWrite; a ::send that fails changes nothing. *)
HandleWrite ==
    LET k == Fits(Len(output_buffer_)) IN
    /\ batch = <<>>
    /\ writing
    /\ ~Broken
    /\ k > 0
    /\ wire' = wire \o Front(output_buffer_, k)
    /\ output_buffer_' = Rest(output_buffer_, k)
    /\ IF k = Len(output_buffer_)
       THEN /\ writing' = FALSE
            /\ QueueTask("writeCb", <<>>)
            /\ IF PendingShutdown THEN ShutdownInLoop(FALSE) ELSE UNCHANGED fin
       ELSE UNCHANGED <<writing, task_vec_, fin>>
    /\ UNCHANGED <<state_, batch, pc, sends, calls, read, reset, closed, taken>>

(* handleRead gets 0: the peer ended its stream, and may still be reading. *)
HandleRead ==
    /\ batch = <<>>
    /\ ~closed
    /\ HandleClose
    /\ UNCHANGED <<batch, pc, sends, calls, read>>

(* ::poll reports that the peer is gone. *)
HandleHangup ==
    /\ batch = <<>>
    /\ reset /\ ~closed
    /\ HandleClose
    /\ UNCHANGED <<batch, pc, sends, calls, read>>

(* The peer. *)
PeerRead ==
    /\ read < Len(wire)
    /\ ~reset
    /\ read' = Len(wire)
    /\ UNCHANGED <<state_, output, task_vec_, batch, pc, sends, calls, ending>>

PeerReset ==
    /\ ~reset
    /\ reset' = TRUE
    /\ UNCHANGED <<state_, output, task_vec_, batch, pc, sends, calls, read, fin, closed>>

ThreadStep(t) == SendPush(t) \/ DownSet(t) \/ DownPush(t)
LoopStep      == RunTask \/ HandleWrite \/ HandleHangup

Next ==
    \/ \E t \in Threads : SendCheck(t) \/ DownCheck(t) \/ ThreadStep(t)
    \/ LoopSend \/ LoopShutdown \/ LoopForceClose
    \/ SwapTasks \/ LoopStep \/ HandleRead
    \/ PeerRead \/ PeerReset

Spec == Init /\ [][Next]_vars

(* Threads finish their calls, poll() reports a socket that may be written *)
(* or is gone, the loop finishes the tasks it took, and a peer that does   *)
(* not reset reads.  That a queued task wakes the loop is not assumed.     *)
FairSpec ==
    /\ Spec
    /\ \A t \in Threads : WF_vars(ThreadStep(t))
    /\ WF_vars(LoopStep) /\ WF_vars(PeerRead)

-----------------------------------------------------------------------------
(* Nothing is lost, doubled or reordered between sendInLoop, a ::send that *)
(* takes a part, output_buffer_ and handleWrite: what was taken is on the  *)
(* wire or waits behind it.                                                *)
StreamConserved == wire \o output_buffer_ = taken

(* "We must ensure the order of send": while the connection is open, the   *)
(* stream is made of whole messages, and each sender's bytes are in it in  *)
(* the order in which it sent them, with no gap, whatever threads send at  *)
(* the same time.                                                          *)
SenderOrder ==
    LET s == wire \o output_buffer_ IN
    ~closed =>
        \A i \in DOMAIN s :
            /\ s[i].n > 1 => \E j \in 1 .. i - 1 : s[j].from = s[i].from /\ s[j].n = s[i].n - 1
            /\ \A j \in 1 .. i - 1 : s[j].from = s[i].from => s[j].n < s[i].n
            /\ ~s[i].last => /\ i < Len(s)
                             /\ s[i + 1].from = s[i].from /\ s[i + 1].n = s[i].n + 1

(* While the connection is open, bytes wait in output_buffer_ exactly when *)
(* its channel asks to be told that it may write.                          *)
WritingIffBuffered == ~closed => (writing <=> output_buffer_ # <<>>)

(* The write side of an open connection is shut down only after everything *)
(* sendInLoop took is on the wire, whether shutdownInLoop was called by    *)
(* its task, in place, or by handleWrite.                                  *)
FinAfterTaken == fin /\ ~closed => wire = taken

(* A thread that sends and then shuts down: the FIN comes after its bytes. *)
(* ("Make sure message send finish")                                       *)
FinAfterSends ==
    fin /\ ~reset /\ ~closed =>
        \A t \in Threads : calls[t].down =>
            Cardinality({i \in DOMAIN wire : wire[i].from = t}) = calls[t].bytes

(* What was taken is written, unless the connection ends first. *)
Drains == wire # taken ~> wire = taken \/ reset \/ closed

(* When the loop does not stay in poll() for ever with tasks queued (see   *)
(* ActiveLoopRunsAll and PushedTaskRuns in EventLoop), shutdown() has its  *)
(* effect, however much waits to be written.                               *)
ShutdownEnds ==
    []<>(task_vec_ = <<>>) => (state_ = "disconnecting" ~> fin \/ reset \/ closed)
=============================================================================
