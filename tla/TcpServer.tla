------------------------------ MODULE TcpServer ------------------------------
(***************************************************************************)
(* The life of a TcpConnection in a TcpServer: accepted on the base loop,  *)
(* handed to a loop of the pool, used by callbacks and by other threads,   *)
(* closed, removed from the server's map on the base loop, removed from    *)
(* the poller on its own loop, and freed when the last shared_ptr is gone. *)
(*                                                                         *)
(* Every loop is a thread with a stack of calls (work); one action is one  *)
(* function body, from its entry to its return, minus the calls it makes,  *)
(* which it pushes.  Everything between two actions can be interleaved     *)
(* with the other threads.  A loop repeats: poll, handle the active        *)
(* channels, swap the queued tasks out and run them (module EventLoop is   *)
(* about when it wakes up; here poll() may return while tasks are queued,  *)
(* and need not).                                                          *)
(*                                                                         *)
(* Whether an object is freed is derived from who holds a shared_ptr to    *)
(* it.  A step of a thread that would touch a freed object, dereference a  *)
(* null pointer or call an empty std::function sets fault, and that is the *)
(* end of the behaviour.                                                   *)
(***************************************************************************)
EXTENDS Poller, FiniteSets

CONSTANTS
    Conns,              \* connection objects (the bound on connections)
    Fds,                \* descriptors the kernel hands out for them
    TimerFd,            \* the descriptor of every loop's first channel
    Timer, Listen,      \* that channel, and the channel of the acceptor
    Dials,              \* channels of a Connector (module Connector), or {}
    ThreadNums,         \* the sizes of the pool that are tried
    Users,              \* threads of the application that own no loop
    UserOps,            \* what they call
    EagerDrop,          \* they may drop a pointer while their task is queued
    HandlerOps,         \* what the callbacks call on their own connection
    CrossOps,           \* ... and on other connections of the same loop
    ErrorOps,           \* what error_cb_ calls
    PeersReset,         \* a peer that goes may leave an error behind
    HasConnectCb,       \* setConnectionCallback was called
    MaxData,            \* bound: messages the peers send
    MaxUserCalls,       \* bound: calls of the users
    MaxClients,         \* bound: clients that want to be accepted
    MaxAcceptFails      \* bound: failures of accept()

Ops == {"send", "shutdown", "forceClose"}

ASSUME ServerAssumption ==
    /\ Fds \subseteq Nat \ {0, TimerFd}
    /\ TimerFd \in Nat \ {0}
    /\ {Timer, Listen} \cap (Conns \cup Dials) = {} /\ Conns \cap Dials = {}
    /\ ThreadNums \subseteq Nat /\ ThreadNums # {}
    /\ UserOps \subseteq Ops
    /\ HandlerOps \cup ErrorOps \subseteq Ops
    /\ {EagerDrop, CrossOps, PeersReset, HasConnectCb} \subseteq BOOLEAN
    /\ {MaxData, MaxUserCalls, MaxClients, MaxAcceptFails} \subseteq Nat

VARIABLES
    conn,               \* the connections
    connection_map_,    \* the server's map from descriptors to connections
    thread_pool_,       \* the pool: its size and its round-robin index
    connector,          \* the Connector: its loop and its conn_map_
    dial,               \* the sockets of the Connector
    poller,             \* per loop, see module Poller
    tasks,              \* per loop: task_vec_
    round,              \* per loop: where it is in loop()
    work,               \* per loop: the calls to make next
    user,               \* the users
    peer,               \* per connection: the peer closed, or sent something
    fault,              \* why the process died
    left                \* what is left of the bounds

vars == <<conn, connection_map_, thread_pool_, connector, dial, poller, tasks,
          round, work, user, peer, fault, left>>
connectorVars == <<connector, dial>>
serverVars == <<connection_map_, thread_pool_, connectorVars>>
outside    == <<user, peer, fault, left>>

(* Loop 0 is the base loop, the others are those of the pool. *)
Loops == UNION {0 .. n : n \in ThreadNums}
BadFd == -1

(* A call on a stack or in a task vector, and whether it is bound to a     *)
(* shared_ptr (ref) or to a raw this.                                      *)
Functions == {"connectComplete", "handleRead", "handleWrite", "handleClose", "handleError",
              "sendInLoop", "shutdownInLoop", "forceCloseInLoop",
              "connectCb", "messageCb", "writeCb", "removeConnection",
              "removeConnectionInLoop", "destroyConnection", "remove",
              "newConnection", "connectInLoop", "handleConnect", "errorCb"}
Call(fn, c, ref) == [fn |-> fn, c |-> c, ref |-> ref]
Calls == [fn : Functions, c : Conns \cup Dials, ref : BOOLEAN]

States == {"none", "connecting", "connected", "disconnecting", "disconnected"}
Revents == {"in", "out", "hup", "err"}
Socks == {"none", "asked", "connecting", "connected", "refused", "taken", "closed", "leaked"}

(* buffered: output_buffer_ is not empty; fin: shutdownWrite was called;   *)
(* downs: the number of calls of handleClose (history).                    *)
TypeOK ==
    /\ conn \in [Conns -> [state : States, fd : Fds \cup {BadFd}, loop : Loops,
                           events : SUBSET Events, buffered : BOOLEAN,
                           fin : BOOLEAN, downs : 0 .. 2]]
    /\ DOMAIN connection_map_ \subseteq Fds \cup {BadFd}
    /\ \A fd \in DOMAIN connection_map_ : connection_map_[fd] \in Conns
    /\ thread_pool_ \in [thread_num : ThreadNums, next_loop_index : Loops]
    /\ thread_pool_.next_loop_index <= thread_pool_.thread_num
    /\ connector.loop \in Loops
    /\ DOMAIN connector.conn_map \subseteq Fds
    /\ \A fd \in DOMAIN connector.conn_map : dial[connector.conn_map[fd]].fd = fd
    /\ \A d \in Dials : dial[d].sock \in Socks /\ dial[d].fd \in Fds \cup {BadFd}
    /\ \A l \in Loops :
          /\ poller[l].index \in [Conns \cup Dials \cup {Timer} -> 0 .. Cardinality(Fds) + 1]
          /\ tasks[l] \in Seq(Calls)
          /\ work[l] \in Seq(Calls)
          /\ round[l] \in [stage : {"poll", "handle", "tasks"}, batch : Seq(Calls),
                           next : Nat, active : Seq([c : Conns \cup Dials \cup {Listen},
                                          revents : SUBSET Revents])]
    /\ user \in [Users -> [holds : SUBSET Conns, pc : {"idle", "set", "push"},
                           op : Ops, c : Conns \cup {Timer}]]
    /\ peer \in [Conns -> [closed : BOOLEAN, data : BOOLEAN]]
    /\ fault \in {"none", "freed", "null", "emptyFunction"}

NewConn(fd, l) ==
    [state |-> "connecting", fd |-> fd, loop |-> l, events |-> {},
     buffered |-> FALSE, fin |-> FALSE, downs |-> 0]

(* After TcpServer::start(). *)
Init ==
    /\ conn = [c \in Conns |-> [NewConn(BadFd, 0) EXCEPT !.state = "none"]]
    /\ connection_map_ = [fd \in {} |-> Timer]
    /\ thread_pool_ \in [thread_num : ThreadNums, next_loop_index : {0}]
    /\ connector \in [loop : Loops, conn_map : {[fd \in {} |-> Timer]}]
    /\ connector.loop <= thread_pool_.thread_num /\ (Dials = {} => connector.loop = 0)
    /\ dial = [d \in Dials |-> [sock |-> "none", fd |-> BadFd]]
    /\ poller = [l \in Loops |->
                   UpdateChannel(EmptyPoller(Conns \cup Dials \cup {Timer}), Timer, TimerFd, {"in"})]
    /\ tasks = [l \in Loops |-> <<>>]
    /\ round = [l \in Loops |->
                  [stage |-> "poll", batch |-> <<>>, next |-> 1, active |-> <<>>]]
    /\ work = [l \in Loops |-> <<>>]
    /\ user = [u \in Users |->
                 [holds |-> {}, pc |-> "idle", op |-> "send", c |-> Timer]]
    /\ peer = [c \in Conns |-> [closed |-> FALSE, data |-> FALSE]]
    /\ fault = "none"
    /\ left = [data |-> MaxData, calls |-> MaxUserCalls, clients |-> MaxClients,
               fails |-> MaxAcceptFails]

-----------------------------------------------------------------------------
(* Who keeps a connection alive. *)
Bound(s, c) == \E i \in DOMAIN s : s[i].c = c /\ s[i].ref

Held(c) ==
    \/ \E fd \in DOMAIN connection_map_ : connection_map_[fd] = c
    \/ \E l \in Loops : \/ Bound(tasks[l], c)
                        \/ Bound(round[l].batch, c)
                        \/ Bound(work[l], c)
    \/ \E u \in Users : c \in user[u].holds

Freed(c) == c \in Conns /\ conn[c].state # "none" /\ ~Held(c)

Running == fault = "none"

(* The next call of loop l is fn, and its object still exists. *)
Calling(l, fn) ==
    /\ Running
    /\ work[l] # <<>>
    /\ Head(work[l]).fn = fn
    /\ ~Freed(Head(work[l]).c)

Callee(l) == Head(work[l]).c

(* The call returns, and the calls it makes (s) are made. *)
Return(l, s) == work' = [work EXCEPT ![l] = s \o Tail(work[l])]

(* queueTaskInThread *)
Queue(l, call) == tasks' = [tasks EXCEPT ![l] = Append(tasks[l], call)]

(* Channel::update: the new events go to the poller of the loop. *)
Update(c, events) ==
    poller' = [poller EXCEPT ![conn[c].loop] =
                 UpdateChannel(poller[conn[c].loop], c, conn[c].fd, events)]

-----------------------------------------------------------------------------
(* One round of a loop. *)

(* The entries of pollfds_ that ::poll does not ignore. *)
WatchedEntries(l) == {i \in DOMAIN poller[l].pollfds : poller[l].pollfds[i].fd >= 0}

(* What ::poll may report of a connection, or of a connecting socket, that *)
(* it watches for events.                                                  *)
Reportable(c, events) ==
    IF c \in Dials THEN {r \in events : r = "out" /\ dial[c].sock # "connecting"}
    ELSE {r \in Revents :
        \/ r = "in" /\ "in" \in events /\ (peer[c].data \/ peer[c].closed)
        \/ r = "out" /\ "out" \in events
        \/ r = "hup" /\ peer[c].closed
        \/ r = "err" /\ peer[c].closed /\ PeersReset}

(* poll() finds the channel of every reported entry through channels_. *)
Findable(l, e) ==
    /\ e.fd \in DOMAIN poller[l].channels
    /\ LET c == poller[l].channels[e.fd] IN
         /\ ~Freed(c)
         /\ c \in Dials => \E fd \in DOMAIN connector.conn_map : connector.conn_map[fd] = c

(* A client waits to be accepted. *)
Arrivals(l) ==
    {<<>>} \cup (IF l = 0 /\ left.clients > 0
                THEN {<<[c |-> Listen, revents |-> {"in"}]>>} ELSE {})

(* The members of a set of indices, in their order. *)
InOrder(S) ==
    {s \in [1 .. Cardinality(S) -> S] : \A i, j \in DOMAIN s : i < j => s[i] < s[j]}

(* The sockets ::poll looks at, the channel of an entry, and the channels  *)
(* with revents in the order of the vector: active_channels.               *)
WatchedSockets(l) == {i \in WatchedEntries(l) : poller[l].pollfds[i].fd \in Fds}
ChannelAt(l, i) == poller[l].channels[poller[l].pollfds[i].fd]
ActiveChannels(l, revents) ==
    {[k \in DOMAIN order |-> [c |-> ChannelAt(l, order[k]), revents |-> revents[order[k]]]]
       : order \in InOrder({i \in WatchedSockets(l) : revents[i] # {}})}

(* ::poll returns with channels to handle, or because of the eventfd or    *)
(* the timerfd while tasks are queued; a round with nothing to do changes  *)
(* nothing and is left out.  A "hup" beside an "in" is ignored by          *)
(* handleChannel and is not told apart.                                    *)
Poll(l) ==
    LET may(i) == Reportable(ChannelAt(l, i), poller[l].pollfds[i].events) IN
    /\ Running
    /\ round[l].stage = "poll"
    /\ \A i \in WatchedSockets(l) : Findable(l, poller[l].pollfds[i])
    /\ \E revents \in [WatchedSockets(l) -> SUBSET Revents] :
          /\ \A i \in WatchedSockets(l) :
                /\ ChannelAt(l, i) \in Dials => revents[i] = may(i)
                /\ revents[i] \subseteq may(i)
                /\ ~({"in", "hup"} \subseteq revents[i])
          /\ \E arrival \in Arrivals(l), active \in ActiveChannels(l, revents) :
                round' = [round EXCEPT ![l].stage = "handle", ![l].active = arrival \o active]
    /\ round'[l].active # <<>> \/ tasks[l] # <<>>
    /\ UNCHANGED <<conn, serverVars, poller, tasks, work, outside>>

(* poll() goes through the end() of the map, or hands out a dead channel.  *)
PollFaults(l) ==
    /\ Running
    /\ round[l].stage = "poll"
    /\ \E i \in WatchedEntries(l) :
          LET e == poller[l].pollfds[i] IN
             /\ ~Findable(l, e)
             /\ fault' = IF e.fd \in DOMAIN poller[l].channels THEN "freed" ELSE "null"
    /\ UNCHANGED <<conn, serverVars, poller, tasks, round, work, user, peer, left>>

(* Channel::handleChannel of the next active channel. *)
HandleChannel(l) ==
    /\ Running
    /\ round[l].stage = "handle"
    /\ work[l] = <<>>
    /\ round[l].active # <<>>
    /\ Head(round[l].active).c \in Conns
    /\ LET c == Head(round[l].active).c
           r == Head(round[l].active).revents
           when(b, fn) == IF b THEN <<Call(fn, c, FALSE)>> ELSE <<>>
       IN  work' = [work EXCEPT ![l] =
                      when("hup" \in r /\ "in" \notin r, "handleClose")
                        \o when("err" \in r, "handleError")
                        \o when("in" \in r, "handleRead")
                        \o when("out" \in r, "handleWrite")]
    /\ round' = [round EXCEPT ![l].active = Tail(@)]
    /\ UNCHANGED <<conn, serverVars, poller, tasks, outside>>

(* doTheTasks: swap the vectors (and return if there was nothing), ... *)
SwapTasks(l) ==
    /\ Running
    /\ round[l].stage = "handle"
    /\ work[l] = <<>>
    /\ round[l].active = <<>>
    /\ round' = [round EXCEPT ![l] =
                   [stage |-> IF tasks[l] = <<>> THEN "poll" ELSE "tasks",
                    batch |-> tasks[l], next |-> 1, active |-> <<>>]]
    /\ tasks' = [tasks EXCEPT ![l] = <<>>]
    /\ UNCHANGED <<conn, serverVars, poller, work, outside>>

(* ... call the tasks one after the other, ... *)
RunTask(l) ==
    /\ Running
    /\ round[l].stage = "tasks"
    /\ work[l] = <<>>
    /\ round[l].next <= Len(round[l].batch)
    /\ work' = [work EXCEPT ![l] = <<round[l].batch[round[l].next]>>]
    /\ round' = [round EXCEPT ![l].next = @ + 1]
    /\ UNCHANGED <<conn, serverVars, poller, tasks, outside>>

(* ... and destroy the functors with the vector. *)
EndTasks(l) ==
    /\ Running
    /\ round[l].stage = "tasks"
    /\ work[l] = <<>>
    /\ round[l].next > Len(round[l].batch)
    /\ round' = [round EXCEPT ![l].stage = "poll", ![l].batch = <<>>, ![l].next = 1]
    /\ UNCHANGED <<conn, serverVars, poller, tasks, work, outside>>

-----------------------------------------------------------------------------
(* A new connection. *)

PoolIndexLate ==
    IF thread_pool_.next_loop_index > thread_pool_.thread_num
    THEN 0 ELSE thread_pool_.next_loop_index

(* LoopThreadPool::getLoopForNewConnection, the index it uses. *)
PoolIndex ==
    IF thread_pool_.next_loop_index >= thread_pool_.thread_num
    THEN 0 ELSE thread_pool_.next_loop_index

FreeFds ==
    {fd \in Fds : \A c \in Conns :
        conn[c].state = "none" \/ Freed(c) \/ conn[c].fd # fd}
      \ {dial[d].fd : d \in {e \in Dials : dial[e].sock \notin {"none", "closed", "taken"}}}

(* TcpServer::newConnection, and what the base loop calls after it.        *)
NewConnection(c, fd, then) ==
    LET l    == IF thread_pool_.thread_num = 0 THEN 0 ELSE PoolIndex + 1
        call == Call("connectComplete", c, TRUE)
    IN  /\ conn[c].state = "none"
        /\ conn' = [conn EXCEPT ![c] = NewConn(fd, l)]
        /\ connection_map_' = IF fd \in DOMAIN connection_map_
                              THEN connection_map_
                              ELSE With(connection_map_, fd, c)
        /\ thread_pool_' = [thread_pool_ EXCEPT !.next_loop_index = l]
        /\ work' = [work EXCEPT ![0] = (IF l = 0 THEN <<call>> ELSE <<>>) \o then]
        /\ IF l = 0 THEN UNCHANGED tasks ELSE Queue(l, call)
        /\ UNCHANGED <<poller, user, fault>>

(* Socket::accept *)
AcceptResults == FreeFds \cup (IF left.fails > 0 THEN {BadFd} ELSE {})

(* Acceptor::handleAccept; a failed accept() is not noticed. *)
HandleAccept(c, fd) ==
    /\ Running
    /\ round[0].stage = "handle"
    /\ work[0] = <<>>
    /\ round[0].active # <<>>
    /\ Head(round[0].active).c = Listen
    /\ left' = [left EXCEPT !.clients = @ - 1,
                            !.fails = IF fd = BadFd THEN @ - 1 ELSE @]
    /\ fd \in AcceptResults
    /\ NewConnection(c, fd, <<>>)
    /\ round' = [round EXCEPT ![0].active = Tail(@)]
    /\ UNCHANGED <<connectorVars, peer>>

(* TcpConnection::connectComplete calls connect_cb_ without looking.       *)
ConnectComplete(l) ==
    LET c == Callee(l) IN
    /\ Calling(l, "connectComplete")
    /\ conn' = [conn EXCEPT ![c].state = "connected", ![c].events = @ \cup {"in"}]
    /\ Update(c, conn[c].events \cup {"in"})
    /\ fault' = IF HasConnectCb THEN fault ELSE "emptyFunction"
    /\ Return(l, <<Call("connectCb", c, TRUE)>>)
    /\ UNCHANGED <<serverVars, tasks, round, user, peer, left>>

-----------------------------------------------------------------------------
(* The application's callbacks, on the loop's thread. *)

(* send, shutdown and forceClose called by the thread of the loop: the     *)
(* doTaskInThread calls in place.  The caller's shared_ptr outlives it.    *)
Inline(l, o, c) ==
    CASE o = "none" ->
            UNCHANGED conn /\ Return(l, <<>>)
      [] o = "send" ->
            /\ UNCHANGED conn
            /\ Return(l, IF conn[c].state = "connected"
                         THEN <<Call("sendInLoop", c, TRUE)>> ELSE <<>>)
      [] o \in {"shutdown", "forceClose"} ->
            IF conn[c].state # "disconnected"
            THEN /\ conn' = [conn EXCEPT ![c].state = "disconnecting"]
                 /\ Return(l, <<Call(IF o = "shutdown" THEN "shutdownInLoop"
                                     ELSE "forceCloseInLoop", c, TRUE)>>)
            ELSE UNCHANGED conn /\ Return(l, <<>>)

(* A callback calls something, on its connection or on another one that    *)
(* lives on the same loop.                                                 *)
CallbackBody(l, own, ops) ==
    \E o \in ops \cup {"none"}, c \in Conns :
        /\ c = own \/ (CrossOps /\ conn[c].state \notin {"none", "connecting"}
                                /\ conn[c].loop = l /\ ~Freed(c))
        /\ o = "none" => c = own
        /\ Inline(l, o, c)

(* connect_cb_: when the connection is up the application may share its    *)
(* pointer with other threads; when it is down it only takes note.         *)
ConnectCb(l) ==
    LET c == Callee(l) IN
    /\ Calling(l, "connectCb")
    /\ IF conn[c].downs = 0
       THEN /\ CallbackBody(l, c, HandlerOps)
            /\ \E us \in SUBSET Users :
                  user' = [u \in Users |->
                             IF u \in us THEN [user[u] EXCEPT !.holds = @ \cup {c}]
                             ELSE user[u]]
       ELSE Return(l, <<>>) /\ UNCHANGED <<conn, user>>
    /\ UNCHANGED <<serverVars, poller, tasks, round, peer, fault, left>>

MessageCb(l) ==
    /\ Calling(l, "messageCb")
    /\ CallbackBody(l, Callee(l), HandlerOps)
    /\ UNCHANGED <<serverVars, poller, tasks, round, outside>>

(* handleError asks the kernel for the error and calls error_cb_. *)
HandleError(l) ==
    /\ Calling(l, "handleError")
    /\ CallbackBody(l, Callee(l), ErrorOps)
    /\ UNCHANGED <<serverVars, poller, tasks, round, outside>>

(* The write-complete callback. *)
WriteCb(l) ==
    /\ Calling(l, "writeCb")
    /\ CallbackBody(l, Callee(l), HandlerOps)
    /\ UNCHANGED <<serverVars, poller, tasks, round, outside>>

-----------------------------------------------------------------------------
(* Reading and writing. *)

(* A read that fails is only logged: of a socket that was reset, which has *)
(* no data any more, ...                                                   *)
ReadFails(c) == PeersReset /\ peer[c].closed

(* handleRead: a message, the end of the stream, or an error; ... or when  *)
(* there is nothing to read.                                               *)
HandleRead(l) ==
    LET c == Callee(l) IN
    /\ Calling(l, "handleRead")
    /\ peer' = [peer EXCEPT ![c].data = FALSE]
    /\ \/ Return(l, IF peer[c].data THEN <<Call("messageCb", c, TRUE)>>
                    ELSE IF peer[c].closed THEN <<Call("handleClose", c, FALSE)>>
                    ELSE <<>>)
       \/ ReadFails(c) /\ Return(l, <<>>)
    /\ UNCHANGED <<conn, serverVars, poller, tasks, round, user, fault, left>>

(* What ::send can do: a socket whose write side is shut down, or whose    *)
(* peer is gone, may refuse; descriptor -1 always does (EBADF).            *)
SendResults(c) ==
    IF conn[c].fd = BadFd THEN {"later"}
    ELSE IF conn[c].fin THEN {"error"}
    ELSE {"all", "later"} \cup (IF peer[c].closed THEN {"error"} ELSE {})

Writing(c) == "out" \in conn[c].events

(* The rest goes to output_buffer_ and is written when poll says so. *)
BufferRest(c) ==
    /\ conn' = [conn EXCEPT ![c].buffered = TRUE, ![c].events = @ \cup {"out"}]
    /\ IF Writing(c) THEN UNCHANGED poller ELSE Update(c, conn[c].events \cup {"out"})

SendInLoop(l) ==
    LET c == Callee(l) IN
    /\ Calling(l, "sendInLoop")
    /\ Return(l, <<>>)
    /\ CASE conn[c].state = "disconnected" ->
              UNCHANGED <<conn, poller, tasks>>
         [] conn[c].state # "disconnected" /\ (Writing(c) \/ conn[c].buffered) ->
              BufferRest(c) /\ UNCHANGED tasks
         [] OTHER ->
              \E r \in SendResults(c) :
                 \/ /\ r = "all"
                    /\ Queue(l, Call("writeCb", c, TRUE))
                    /\ UNCHANGED <<conn, poller>>
                 \/ r = "later" /\ BufferRest(c) /\ UNCHANGED tasks
                 \/ r = "error" /\ UNCHANGED <<conn, poller, tasks>>
    /\ UNCHANGED <<serverVars, round, outside>>

(* handleWrite: everything was written, or something or nothing. *)
HandleWrite(l) ==
    LET c == Callee(l) IN
    /\ Calling(l, "handleWrite")
    /\ \/ /\ Writing(c)
          /\ ~conn[c].fin
          /\ conn' = [conn EXCEPT ![c].buffered = FALSE, ![c].events = @ \ {"out"}]
          /\ Update(c, conn[c].events \ {"out"})
          /\ Queue(l, Call("writeCb", c, TRUE))
          /\ Return(l, IF conn[c].state = "disconnecting"
                       THEN <<Call("shutdownInLoop", c, FALSE)>> ELSE <<>>)
       \/ Return(l, <<>>) /\ UNCHANGED <<conn, poller, tasks>>
    /\ UNCHANGED <<serverVars, round, outside>>

ShutdownInLoop(l) ==
    LET c == Callee(l) IN
    /\ Calling(l, "shutdownInLoop")
    /\ conn' = IF Writing(c) THEN conn ELSE [conn EXCEPT ![c].fin = TRUE]
    /\ Return(l, <<>>)
    /\ UNCHANGED <<serverVars, poller, tasks, round, outside>>

-----------------------------------------------------------------------------
(* Closing. *)

ForceCloseInLoop(l) ==
    LET c == Callee(l) IN
    /\ Calling(l, "forceCloseInLoop")
    /\ Return(l, IF conn[c].state # "disconnected"
                 THEN <<Call("handleClose", c, FALSE)>> ELSE <<>>)
    /\ UNCHANGED <<conn, serverVars, poller, tasks, round, outside>>

EventsLeftAlone(c) == conn[c].events

(* channel_->disableAll() *)
EventsAfterClose(c) == {}

HandleClose(l) ==
    LET c == Callee(l) IN
    /\ Calling(l, "handleClose")
    /\ conn' = [conn EXCEPT ![c].state = "disconnected",
                            ![c].events = EventsAfterClose(c),
                            ![c].downs = IF @ < 2 THEN @ + 1 ELSE @]
    /\ Update(c, EventsAfterClose(c))
    /\ Return(l, <<Call("connectCb", c, TRUE), Call("removeConnection", c, TRUE)>>)
    /\ UNCHANGED <<serverVars, tasks, round, outside>>

(* close_cb_, bound to TcpServer::removeConnection *)
RemoveConnection(l) ==
    LET call == Call("removeConnectionInLoop", Callee(l), TRUE) IN
    /\ Calling(l, "removeConnection")
    /\ IF l = 0
       THEN Return(l, <<call>>) /\ UNCHANGED tasks
       ELSE Return(l, <<>>) /\ Queue(0, call)
    /\ UNCHANGED <<conn, serverVars, poller, round, outside>>

EraseNothing(fd) == connection_map_
DestroyFunctorRaw(c) == Call("destroyConnection", c, FALSE)

(* connection_map_.erase(it), and the functor that is queued then, bound   *)
(* to the shared_ptr.                                                      *)
Erase(fd) == Without(connection_map_, fd)
DestroyFunctor(c) == Call("destroyConnection", c, TRUE)

RemoveConnectionInLoop(l) ==
    LET c == Callee(l) IN
    /\ Calling(l, "removeConnectionInLoop")
    /\ Return(l, <<>>)
    /\ IF conn[c].fd \in DOMAIN connection_map_
       THEN /\ connection_map_' = Erase(conn[c].fd)
            /\ Queue(conn[c].loop, DestroyFunctor(c))
       ELSE UNCHANGED <<connection_map_, tasks>>
    /\ UNCHANGED <<conn, thread_pool_, connectorVars, poller, round, outside>>

DestroyConnection(l) ==
    LET c == Callee(l) IN
    /\ Calling(l, "destroyConnection")
    /\ conn' = [conn EXCEPT ![c].state = IF @ = "connected" THEN "disconnected" ELSE @]
    /\ Return(l, (IF conn[c].state = "connected"
                  THEN <<Call("connectCb", c, TRUE)>> ELSE <<>>)
                   \o <<Call("remove", c, TRUE)>>)
    /\ UNCHANGED <<serverVars, poller, tasks, round, outside>>

(* ... and channel_->remove(). *)
Remove(l) ==
    LET c == Callee(l) IN
    /\ Calling(l, "remove")
    /\ poller' = [poller EXCEPT ![l] = RemoveChannel(poller[l], c, conn[c].fd)]
    /\ fault' = IF poller'[l].crashed THEN "null" ELSE fault
    /\ Return(l, <<>>)
    /\ UNCHANGED <<conn, serverVars, tasks, round, user, peer, left>>

(* Any call on an object that does not exist any more. *)
CallFaults(l) ==
    /\ Running
    /\ work[l] # <<>>
    /\ Freed(Callee(l))
    /\ fault' = "freed"
    /\ UNCHANGED <<conn, serverVars, poller, tasks, round, work, user, peer, left>>

-----------------------------------------------------------------------------
(* Other threads: state_ is read, then (not for send) written, then the    *)
(* task is queued; a send and a shutdown are bound to a raw this.          *)
UserCheck(u, o, c) ==
    /\ Running
    /\ user[u].pc = "idle"
    /\ c \in user[u].holds
    /\ left.calls > 0
    /\ IF o = "send" THEN conn[c].state = "connected"
       ELSE conn[c].state # "disconnected"
    /\ user' = [user EXCEPT ![u].pc = IF o = "send" THEN "push" ELSE "set",
                            ![u].op = o, ![u].c = c]
    /\ left' = [left EXCEPT !.calls = @ - 1]
    /\ UNCHANGED <<conn, serverVars, poller, tasks, round, work, peer, fault>>

UserSet(u) ==
    /\ Running
    /\ user[u].pc = "set"
    /\ conn' = [conn EXCEPT ![user[u].c].state = "disconnecting"]
    /\ user' = [user EXCEPT ![u].pc = "push"]
    /\ UNCHANGED <<serverVars, poller, tasks, round, work, peer, fault, left>>

UserPush(u) ==
    LET c == user[u].c IN
    /\ Running
    /\ user[u].pc = "push"
    /\ Queue(conn[c].loop,
             CASE user[u].op = "send"       -> Call("sendInLoop", c, FALSE)
               [] user[u].op = "shutdown"   -> Call("shutdownInLoop", c, FALSE)
               [] user[u].op = "forceClose" -> Call("forceCloseInLoop", c, TRUE))
    /\ user' = [user EXCEPT ![u].pc = "idle", ![u].c = Timer]
    /\ UNCHANGED <<conn, serverVars, poller, round, work, peer, fault, left>>

(* A task bound to a raw pointer to c was queued and has not returned. *)
RawPending(c) ==
    \E l \in Loops : \E s \in {tasks[l], round[l].batch, work[l]} :
        \E i \in DOMAIN s : s[i].c = c /\ s[i].fn \in {"sendInLoop", "shutdownInLoop"}

(* A user lets its shared_ptr go between two calls. *)
UserDrop(u, c) ==
    /\ Running
    /\ user[u].pc = "idle"
    /\ c \in user[u].holds
    /\ EagerDrop \/ ~RawPending(c)
    /\ user' = [user EXCEPT ![u].holds = @ \ {c}]
    /\ UNCHANGED <<conn, serverVars, poller, tasks, round, work, peer, fault, left>>

(* The peers. *)
Open(c) ==
    /\ conn[c].state # "none"
    /\ conn[c].fd # BadFd
    /\ ~peer[c].closed
    /\ ~Freed(c)

PeerSend(c) ==
    /\ Running
    /\ Open(c)
    /\ ~peer[c].data
    /\ left.data > 0
    /\ peer' = [peer EXCEPT ![c].data = TRUE]
    /\ left' = [left EXCEPT !.data = @ - 1]
    /\ UNCHANGED <<conn, serverVars, poller, tasks, round, work, user, fault>>

PeerClose(c) ==
    /\ Running
    /\ Open(c)
    /\ peer' = [peer EXCEPT ![c].closed = TRUE]
    /\ UNCHANGED <<conn, serverVars, poller, tasks, round, work, user, fault, left>>

-----------------------------------------------------------------------------
LoopStep(l) ==
    \/ Poll(l) \/ PollFaults(l) \/ HandleChannel(l)
    \/ SwapTasks(l) \/ RunTask(l) \/ EndTasks(l)
    \/ ConnectComplete(l) \/ ConnectCb(l) \/ MessageCb(l) \/ WriteCb(l)
    \/ HandleRead(l) \/ HandleError(l) \/ SendInLoop(l) \/ HandleWrite(l) \/ ShutdownInLoop(l)
    \/ ForceCloseInLoop(l) \/ HandleClose(l) \/ RemoveConnection(l)
    \/ RemoveConnectionInLoop(l) \/ DestroyConnection(l) \/ Remove(l)
    \/ CallFaults(l)
    \/ l = 0 /\ \E c \in Conns, fd \in Fds \cup {BadFd} : HandleAccept(c, fd)

UserStep(u) == UserSet(u) \/ UserPush(u)

Next ==
    \/ \E l \in Loops : LoopStep(l)
    \/ \E u \in Users :
          \/ UserStep(u)
          \/ \E c \in Conns : UserDrop(u, c) \/ \E o \in UserOps : UserCheck(u, o, c)
    \/ \E c \in Conns : PeerSend(c) \/ PeerClose(c)

Spec == Init /\ [][Next]_vars

(* What a loop does between two calls of poll(). *)
RoundStep(l) == round[l].stage # "poll" /\ LoopStep(l)

(* A loop that has returned from poll() goes on, threads finish the calls  *)
(* they are in and do not keep pointers forever.  That poll() returns is   *)
(* not assumed: queueTaskInThread need not have written the eventfd.       *)
FairSpec ==
    /\ Spec
    /\ \A l \in Loops : WF_vars(RoundStep(l))
    /\ \A u \in Users : /\ WF_vars(UserStep(u))
                        /\ \A c \in Conns : WF_vars(UserDrop(u, c))

-----------------------------------------------------------------------------
(* No thread ever touches a connection after its last shared_ptr is gone,  *)
(* although send() and shutdown() queue a raw this and the poller stores   *)
(* raw channels.                                                           *)
NoUseAfterFree == fault # "freed"

(* Other threads can only do that harm with a task that send() or          *)
(* shutdown() bound to a raw this, or by overwriting state_ after          *)
(* handleClose wrote it: every other hand-over between the loops holds the *)
(* connection, whatever threads call and whenever they drop it.            *)
UseAfterFreeNeedsRace ==
    fault = "freed" => \E c \in Conns :
        Freed(c) /\ (RawPending(c) \/ conn[c].state # "disconnected" \/ conn[c].downs > 1)

(* removeChannel finds the channel whose entry it moves. *)
NoNullDeref == fault # "null"

(* connectComplete has a callback to call. *)
NoEmptyFunction == fault # "emptyFunction"

(* handleClose, with its two callbacks, happens once per connection:       *)
(* "The last life of this connection".                                     *)
CloseOnce == \A c \in Conns : conn[c].downs <= 1

(* message_cb_ is not called for a connection reported as disconnected.    *)
NoMessageAfterClose ==
    \A l \in Loops : work[l] # <<>> /\ Head(work[l]).fn = "messageCb"
                       => conn[Callee(l)].downs = 0

(* A channel that asks for events is registered, as itself, with the       *)
(* poller of its loop; "the arg 'channel' is already exists".              *)
RegisteredAsItself ==
    \A c \in Conns :
        conn[c].events # {} =>
            LET p == poller[conn[c].loop] IN
               conn[c].fd \in DOMAIN p.channels /\ p.channels[conn[c].fd] = c

(* A freed connection was closed and has left every poller: removal on the *)
(* base loop and destruction on its own loop were both done before the     *)
(* last functor that held it was destroyed.                                *)
FreedIsGone ==
    Running => \A c \in Conns : Freed(c) =>
        /\ conn[c].state = "disconnected"
        /\ \A l \in Loops : \A fd \in DOMAIN poller[l].channels :
              poller[l].channels[fd] # c

(* No loop stays in poll() for ever while tasks are queued: a timer of     *)
(* runEvery, or traffic, keeps waking it (ActiveLoopRunsAll in EventLoop). *)
(* A loop that nothing else wakes may stay there (PushedTaskRuns).         *)
LoopsKeepWaking ==
    \A l \in Loops : []<>(round[l].stage # "poll" \/ tasks[l] = <<>>)

(* When the loops keep waking, a closed connection is eventually freed,    *)
(* its descriptor with it: removeConnectionInLoop on the base loop and     *)
(* destroyConnection on its own loop are run, and nobody holds it after.   *)
ClosedIsFreed ==
    LoopsKeepWaking =>
        \A c \in Conns : conn[c].downs > 0 ~> Freed(c) \/ ~Running
=============================================================================
