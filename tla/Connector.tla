------------------------------ MODULE Connector ------------------------------
(***************************************************************************)
(* The Connector beside a TcpServer: connect() of any thread, the          *)
(* non-blocking ::connect on the connector's loop, the channel that waits  *)
(* for its outcome, and the hand-over of the socket to the server, which   *)
(* makes a connection of it on the base loop.                              *)
(*                                                                         *)
(* The loops, their pollers and tasks, and what becomes of the connection, *)
(* are those of TcpServer.  A dial is one call of connect(), with its      *)
(* socket and its channel:                                                 *)
(*   sock : asked (connectInLoop has not run), connecting (EINPROGRESS),   *)
(*          connected, refused (the outcome is there), taken (a connection *)
(*          owns it), closed, or leaked (open, and nobody knows it)        *)
(*   at_once : ::connect returned 0                                        *)
(*   addr : the SockAddress that travels with it; target: what was asked   *)
(***************************************************************************)
EXTENDS TcpServer, SockAddress

CONSTANTS
    Targets,            \* [text, ipv6]: what is passed to SockAddress
    Garbage             \* what a dangling reference may read

PortDialled == 8080

ASSUME ConnectorAssumption ==
    \A t \in Targets : t.ipv6 \in BOOLEAN /\ Len(t.text) \in {0, 1, 4}

(* Channels and connections are fresh objects: which is used next makes no *)
(* difference.                                                             *)
NextDial(d) == dial[d].sock = "none" /\ d = CHOOSE e \in Dials : dial[e].sock = "none"
NextConn(c) == conn[c].state = "none" /\ c = CHOOSE e \in Conns : conn[e].state = "none"

(* Connector::connect by a thread that does not run the connector's loop.  *)
(* The server is started.                                                  *)
NewDial(t) ==
    [sock |-> "asked", fd |-> BadFd, at_once |-> FALSE, target |-> t,
     addr |-> FromText(t.text, PortDialled, t.ipv6)]

Connect(d, t) ==
    /\ Running
    /\ NextDial(d)
    /\ dial' = [dial EXCEPT ![d] = NewDial(t)]
    /\ Queue(connector.loop, Call("connectInLoop", d, FALSE))
    /\ UNCHANGED <<conn, connection_map_, thread_pool_, connector, poller, round, work, outside>>

(* ... or by a callback on that loop: doTaskInThread calls in place. *)
ConnectInPlace(d, t) ==
    LET l == connector.loop IN
    /\ Running
    /\ NextDial(d)
    /\ work[l] # <<>> /\ Head(work[l]).fn \in {"connectCb", "messageCb", "writeCb", "errorCb"}
    /\ dial' = [dial EXCEPT ![d] = NewDial(t)]
    /\ work' = [work EXCEPT ![l] = <<Call("connectInLoop", d, FALSE)>> \o @]
    /\ UNCHANGED <<conn, connection_map_, thread_pool_, connector, poller, tasks, round, outside>>

(* What ::connect can say of an IPv4 socket: another family is not         *)
(* supported, and AF_UNSPEC "dissolves the association", which works.      *)
ConnectResults(fd, addr) ==
    IF fd = BadFd \/ addr.family = "inet6" THEN {"error"}
    ELSE IF addr.family = "unspec" THEN {"success"}
    ELSE {"success", "inProgress", "error"}

DialEventsIn == {"in"}

(* channel_ptr->enableWriting() *)
DialEvents == {"out"}

ConnectInLoop(l) ==
    LET d == Callee(l) IN
    /\ Calling(l, "connectInLoop")
    /\ \E fd \in FreeFds \cup {BadFd} : \E r \in ConnectResults(fd, dial[d].addr) :
          \/ /\ r = "success"
             /\ dial' = [dial EXCEPT ![d].sock = "connected", ![d].fd = fd, ![d].at_once = TRUE]
             /\ Return(l, <<Call("handleConnect", d, FALSE)>>)
             /\ UNCHANGED <<connector, poller>>
          \/ /\ r = "inProgress"
             /\ dial' = [dial EXCEPT ![d].sock = "connecting", ![d].fd = fd]
             /\ connector' = [connector EXCEPT !.conn_map =
                                IF fd \in DOMAIN @ THEN @ ELSE With(@, fd, d)]
             /\ poller' = [poller EXCEPT ![l] = UpdateChannel(@, d, fd, DialEvents)]
             /\ Return(l, <<>>)
          \/ /\ r = "error"
             /\ dial' = [dial EXCEPT ![d].sock = IF fd = BadFd THEN "closed" ELSE "leaked",
                                     ![d].fd = fd]
             /\ Return(l, <<>>)
             /\ UNCHANGED <<connector, poller>>
    /\ UNCHANGED <<conn, connection_map_, thread_pool_, tasks, round, outside>>

(* The kernel: the other side answers, or does not. *)
Resolve(d) ==
    /\ Running
    /\ dial[d].sock = "connecting"
    /\ \E s \in {"connected", "refused"} : dial' = [dial EXCEPT ![d].sock = s]
    /\ UNCHANGED <<conn, connection_map_, thread_pool_, connector, poller, tasks,
                   round, work, outside>>

(* Channel::handleChannel of a channel that has a write callback only. *)
HandleDial(l) ==
    /\ Running
    /\ round[l].stage = "handle"
    /\ work[l] = <<>>
    /\ round[l].active # <<>>
    /\ Head(round[l].active).c \in Dials
    /\ work' = [work EXCEPT ![l] = <<Call("handleConnect", Head(round[l].active).c, FALSE)>>]
    /\ round' = [round EXCEPT ![l].active = Tail(@)]
    /\ UNCHANGED <<conn, serverVars, poller, tasks, outside>>

StillRegistered(l, d) == poller[l]
SocketLeftOpen(d) == dial[d].sock

(* it->second->remove(), and ::close(fd). *)
ChannelRemoved(l, d) == RemoveChannel(poller[l], d, dial[d].fd)
SocketClosed(d) == "closed"

(* Connector::handleWrite.  Erasing the entry of conn_map_ destroys the    *)
(* channel, its write callback and the address bound to it, to which addr  *)
(* is a reference that is still used.                                      *)
HandleConnect(l) ==
    LET d  == Callee(l)
        fd == dial[d].fd
        newConnection == Queue(0, Call("newConnection", d, FALSE))
    IN
    /\ Calling(l, "handleConnect")
    /\ IF fd \notin DOMAIN connector.conn_map
       THEN /\ newConnection
            /\ Return(l, <<>>)
            /\ UNCHANGED <<connector, dial, poller, fault>>
       ELSE /\ poller' = [poller EXCEPT ![l] = ChannelRemoved(l, d)]
            /\ fault' = IF poller'[l].crashed THEN "null" ELSE fault
            /\ connector' = [connector EXCEPT !.conn_map = Without(@, fd)]
            /\ \E addr \in {dial[d].addr, Garbage} :
                 IF dial[d].sock = "connected"
                 THEN /\ newConnection
                      /\ dial' = [dial EXCEPT ![d].addr = addr]
                      /\ Return(l, <<>>)
                 ELSE /\ dial' = [dial EXCEPT ![d].addr = addr, ![d].sock = SocketClosed(d)]
                      /\ Return(l, <<Call("errorCb", d, FALSE)>>)
                      /\ UNCHANGED tasks
    /\ UNCHANGED <<conn, connection_map_, thread_pool_, round, user, peer, left>>

(* error_cb_ of the Connector; it may have dialled again. *)
ErrorCb(l) ==
    /\ Calling(l, "errorCb")
    /\ Return(l, <<>>)
    /\ UNCHANGED <<conn, serverVars, poller, tasks, round, outside>>

(* The task that setNewConnection queued: newConnection on the base loop.  *)
(* A socket that is not connected to anybody looks like a closed peer.     *)
TakeOver(c) ==
    LET d == Callee(0) IN
    /\ Calling(0, "newConnection")
    /\ NextConn(c)
    /\ NewConnection(c, dial[d].fd, Tail(work[0]))
    /\ dial' = [dial EXCEPT ![d].sock = "taken"]
    /\ peer' = [peer EXCEPT ![c].closed = (dial[d].target.text = <<>>)]
    /\ UNCHANGED <<connector, round, left>>

-----------------------------------------------------------------------------
DialStep(l) ==
    \/ ConnectInLoop(l) \/ HandleDial(l) \/ HandleConnect(l) \/ ErrorCb(l)
    \/ l = 0 /\ \E c \in Conns : TakeOver(c)

ConnectorNext ==
    \/ Next
    \/ \E l \in Loops : DialStep(l)
    \/ \E d \in Dials :
          Resolve(d) \/ \E t \in Targets : Connect(d, t) \/ ConnectInPlace(d, t)

(* poll() reports a socket of the Connector that got its answer. *)
PollDial(l) == Poll(l) /\ \E i \in DOMAIN round'[l].active : round'[l].active[i].c \in Dials

(* As in TcpServer; ::connect has an outcome at some time, and POLLOUT,    *)
(* which is level-triggered, makes poll() return then.                     *)
ConnectorSpec ==
    /\ Init /\ [][ConnectorNext]_vars
    /\ \A l \in Loops : WF_vars(RoundStep(l) \/ DialStep(l) \/ PollDial(l))
    /\ \A d \in Dials : WF_vars(Resolve(d))
    /\ \A u \in Users : /\ WF_vars(UserStep(u))
                        /\ \A c \in Conns : WF_vars(UserDrop(u, c))

-----------------------------------------------------------------------------
(* The calls of fn for d that were made or queued and have not run: every  *)
(* place of every vector and stack, but not of a batch that was called.    *)
Pending(fn, d) ==
    UNION {{<<l, "tasks", i>> : i \in {j \in DOMAIN tasks[l] : tasks[l][j] = Call(fn, d, FALSE)}} \cup
           {<<l, "batch", i>> : i \in {j \in DOMAIN round[l].batch :
                                        /\ j >= round[l].next
                                        /\ round[l].batch[j] = Call(fn, d, FALSE)}} \cup
           {<<l, "work", i>> : i \in {j \in DOMAIN work[l] : work[l][j] = Call(fn, d, FALSE)}}
             : l \in Loops}

(* An open socket of the Connector has exactly one future: its entry in    *)
(* conn_map_ waits for the kernel, or one call of handleWrite or           *)
(* newConnection is on its way (handleWrite called by connectInLoop or by  *)
(* the channel, setNewConnection to another loop).  A socket is neither    *)
(* forgotten, nor handed over twice, nor handed over and closed.           *)
OneFuture ==
    \A d \in Dials :
        LET open == dial[d].sock \in {"connecting", "connected", "refused"}
            waits == \E fd \in DOMAIN connector.conn_map : connector.conn_map[fd] = d
            calls == Cardinality(Pending("handleConnect", d)) IN
        /\ open => Cardinality(Pending("newConnection", d))
                     + (IF waits THEN 1 ELSE calls) = 1
        /\ ~open => ~waits /\ Pending("newConnection", d) = {} /\ calls = 0
        /\ calls <= 1

(* A descriptor is registered with at most one poller, by a live channel   *)
(* that carries it: by the connector's while it is in conn_map_, and only  *)
(* after that by the connection the server made of it, on another loop.    *)
OneRegistration ==
    Running => \A l \in Loops : \A fd \in DOMAIN poller[l].channels \cap Fds :
        LET c == poller[l].channels[fd] IN
        /\ \A k \in Loops \ {l} : fd \notin DOMAIN poller[k].channels
        /\ IF c \in Dials
           THEN l = connector.loop /\ fd \in DOMAIN connector.conn_map
                                   /\ connector.conn_map[fd] = c
           ELSE l = conn[c].loop /\ conn[c].fd = fd

(* A connection made of a socket that connected at once knows the address  *)
(* that was dialled: it reads back from the words of the union.            *)
PeerAddressKept ==
    \A d \in Dials :
        dial[d].sock = "taken" /\ dial[d].at_once =>
            /\ Ip(dial[d].addr) = dial[d].target.text
            /\ Port(dial[d].addr) = PortDialled

(* The same of every connection; the dangling reference breaks it.         *)
PeerAddressAlwaysKept ==
    \A d \in Dials : dial[d].sock = "taken" => dial[d].addr # Garbage

(* When the loops keep waking, every call of connect() ends: the server    *)
(* takes the socket over, it is closed and reported, or ::connect failed   *)
(* at once (and it is left open).                                          *)
DialEnds ==
    LoopsKeepWaking =>
        \A d \in Dials :
            dial[d].sock # "none" ~> dial[d].sock \in {"taken", "closed", "leaked"} \/ ~Running
=============================================================================
