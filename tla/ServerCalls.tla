---------------------------- MODULE ServerCalls -----------------------------
(***************************************************************************)
(* The invariant of TcpServer and Connector, for proofs about them.        *)
(*                                                                         *)
(* What a loop has still to call is the stack of its calls, then the rest  *)
(* of the batch it runs, then its task vector: the sequence todo[l].  The  *)
(* invariant says of every call in it what its handler relies on, that at  *)
(* most one call that moves an object on in its life is under way, and     *)
(* how that agrees with the server's map, the connector's map and the      *)
(* pollers.                                                                *)
(***************************************************************************)
EXTENDS Connector

(* The application these theorems are about: threads that own no loop only *)
(* call send(), a callback acts on its own connection and error_cb_ does   *)
(* not close it, and accept() fails at most once.  Without each of these a *)
(* run or a finding shows a fault.                                         *)
Friendly ==
    /\ UserOps \subseteq {"send"}
    /\ CrossOps = FALSE
    /\ "forceClose" \notin ErrorOps
    /\ MaxAcceptFails <= 1

(* A thread may let go of its pointer while the raw this that send() bound *)
(* is still queued.                                                        *)
MayDangle == EagerDrop /\ UserOps # {}

-----------------------------------------------------------------------------
(* Vectors of calls, one per loop. *)
Pop(T, l)    == [T EXCEPT ![l] = Tail(T[l])]
Put(T, l, s) == [T EXCEPT ![l] = s \o T[l]]
Add(T, l, e) == [T EXCEPT ![l] = Append(T[l], e)]
Has(T, l, e) == \E i \in DOMAIN T[l] : T[l][i] = e

(* The calls that move an object on; there is one at a time.               *)
LifeFns == {"connectComplete", "removeConnection", "removeConnectionInLoop",
            "destroyConnection", "remove", "connectInLoop", "handleConnect",
            "newConnection"}
NoLife(T, c) ==
    \A l \in Loops : \A i \in DOMAIN T[l] : T[l][i].fn \in LifeFns => T[l][i].c # c
Once(T) ==
    \A l, k \in Loops : \A i \in DOMAIN T[l], j \in DOMAIN T[k] :
        /\ T[l][i].fn \in LifeFns /\ T[k][j].fn \in LifeFns
        /\ T[l][i].c = T[k][j].c
        => l = k /\ i = j

(* What loop l has to call after the call it is in, and altogether. *)
rest == [l \in Loops |->
           SubSeq(round[l].batch, round[l].next, Len(round[l].batch)) \o tasks[l]]
todo == [l \in Loops |-> work[l] \o rest[l]]

-----------------------------------------------------------------------------
(* The stages of a connection and of a dial. *)
Up(c)     == conn[c].state \in {"connected", "disconnecting"}
Down(c)   == conn[c].state = "disconnected"
Made(c)   == Up(c) \/ Down(c)
InMap(c)  == conn[c].fd \in DOMAIN connection_map_ /\ connection_map_[conn[c].fd] = c
Dying(c)  == \E e \in Calls : /\ Has(todo, conn[c].loop, e)
                              /\ e.c = c /\ e.fn \in {"destroyConnection", "remove"}
Linked(c) == InMap(c) \/ Dying(c)
Shared(c) == \E u \in Users : c \in user[u].holds
Reg(c) ==
    LET p == poller[conn[c].loop] IN
    conn[c].fd \in DOMAIN p.channels /\ p.channels[conn[c].fd] = c

Waits(d) ==
    dial[d].fd \in DOMAIN connector.conn_map /\ connector.conn_map[dial[d].fd] = d
OpenDial(d) == dial[d].sock \in {"connecting", "connected", "refused"}
Under(fns, d) == \E l \in Loops, e \in Calls : Has(todo, l, e) /\ e.c = d /\ e.fn \in fns

-----------------------------------------------------------------------------
(* Types. *)
Partial(S, T) == UNION {[D -> T] : D \in SUBSET S}
SomeFds   == Fds \cup {BadFd}
PollFds   == SomeFds \cup {TimerFd}
Channels  == Conns \cup Dials \cup {Timer}
Entries   == [fd : Int, events : SUBSET Events]
PollerRec == [channels : Partial(PollFds, Channels), pollfds : Seq(Entries),
              index : [Channels -> Nat], crashed : BOOLEAN]
Active    == [c : Conns \cup Dials \cup {Listen}, revents : SUBSET Revents]
Rounds    == [stage : {"poll", "handle", "tasks"}, batch : Seq(Calls), next : Nat,
              active : Seq(Active)]
Addresses == {FromText(t.text, PortDialled, t.ipv6) : t \in Targets} \cup {Garbage}
NoDial    == [sock : {"none"}, fd : {BadFd}]
DialRec   == [sock : Socks \ {"none"}, fd : SomeFds, at_once : BOOLEAN,
              target : Targets, addr : Addresses]

ConnRec == [state : States, fd : SomeFds, loop : Loops, events : SUBSET Events,
            buffered : BOOLEAN, fin : BOOLEAN, downs : 0 .. 2]
UserRec == [holds : SUBSET Conns, pc : {"idle", "set", "push"}, op : Ops,
            c : Conns \cup {Timer}]

Types ==
    /\ conn \in [Conns -> ConnRec]
    /\ connection_map_ \in Partial(SomeFds, Conns)
    /\ thread_pool_ \in [thread_num : ThreadNums, next_loop_index : Nat]
    /\ thread_pool_.next_loop_index <= thread_pool_.thread_num
    /\ connector \in [loop : Loops, conn_map : Partial(Fds, Dials)]
    /\ dial \in [Dials -> NoDial \cup DialRec]
    /\ poller \in [Loops -> PollerRec]
    /\ tasks \in [Loops -> Seq(Calls)]
    /\ round \in [Loops -> Rounds]
    /\ work \in [Loops -> Seq(Calls)]
    /\ user \in [Users -> UserRec]
    /\ peer \in [Conns -> [closed : BOOLEAN, data : BOOLEAN]]
    /\ left \in [data : Int, calls : Int, clients : Int, fails : {0, 1}]
    /\ fault \in {"none", "freed", "null", "emptyFunction"}

-----------------------------------------------------------------------------
(* The invariant. *)
StageOK ==
    \A l \in Loops :
        /\ round[l].next \in 1 .. Len(round[l].batch) + 1
        /\ round[l].stage # "tasks" => round[l].batch = <<>>
        /\ round[l].stage # "handle" => round[l].active = <<>>
        /\ round[l].stage = "poll" => work[l] = <<>>

(* The order of the calls on a stack. *)
AboveRead    == {"handleError", "sendInLoop", "shutdownInLoop"}
AboveMessage == {"connectInLoop", "handleConnect", "errorCb"}
LastCalls    == {"destroyConnection", "remove"}

Ordered(w) ==
    \A i \in DOMAIN w :
        /\ w[i].fn = "handleClose" => i = 1
        /\ w[i].fn = "handleRead" => \A j \in 1 .. i - 1 : w[j].fn \in AboveRead
        /\ w[i].fn = "messageCb" => \A j \in 1 .. i - 1 : w[j].fn \in AboveMessage
        /\ w[i].fn \in LastCalls => Len(w) = 1
OrderOK == \A l \in Loops : Ordered(work[l])

(* What is queued. *)
TaskFns == {"connectComplete", "writeCb", "sendInLoop", "removeConnectionInLoop",
            "destroyConnection", "connectInLoop", "newConnection"}
RestOK == \A l \in Loops, e \in Calls : Has(rest, l, e) => e.fn \in TaskFns

(* What a call relies on. *)
DialFns == {"connectInLoop", "handleConnect", "errorCb", "newConnection"}
CallOK(l, e) ==
    LET c  == e.c
        fn == e.fn
    IN
    /\ fn \notin DialFns =>
          /\ c \in Conns
          /\ l = IF fn = "removeConnectionInLoop" THEN 0 ELSE conn[c].loop
    /\ fn = "connectComplete" => e.ref /\ conn[c].state = "connecting"
    /\ fn \in {"connectCb", "writeCb", "forceCloseInLoop"} => e.ref /\ Made(c)
    /\ fn = "messageCb" => e.ref /\ Up(c)
    /\ fn \in {"handleRead", "handleClose"} => Up(c)
    /\ fn \in {"handleWrite", "handleError"} => Made(c) /\ Linked(c)
    /\ fn = "shutdownInLoop" => Made(c) /\ (e.ref \/ Linked(c))
    /\ fn = "sendInLoop" => Made(c) /\ (e.ref \/ (Shared(c) /\ ~EagerDrop) \/ MayDangle)
    /\ fn \in {"removeConnection", "removeConnectionInLoop"} => e.ref /\ Down(c) /\ InMap(c)
    /\ fn \in {"destroyConnection", "remove"} => e.ref /\ Down(c) /\ ~InMap(c)
    /\ fn \in DialFns =>
          /\ c \in Dials /\ ~e.ref
          /\ l = IF fn = "newConnection" THEN 0 ELSE connector.loop
    /\ fn = "connectInLoop" => dial[c].sock = "asked"
    /\ fn = "handleConnect" =>
          /\ dial[c].sock \in {"connected", "refused"}
          /\ Waits(c) <=> ~dial[c].at_once
    /\ fn = "newConnection" => dial[c].sock = "connected" /\ ~Waits(c)
CallsOK == \A l \in Loops, e \in Calls : Has(todo, l, e) => CallOK(l, e)

OnceOK == Once(todo)

(* The channels a loop has still to handle in this round. *)
ActiveOK ==
    \A l \in Loops : \A i \in DOMAIN round[l].active :
        LET c == round[l].active[i].c IN
        /\ \A j \in DOMAIN round[l].active : round[l].active[j].c = c => i = j
        /\ c \in Conns =>
              /\ Up(c) /\ conn[c].loop = l
              /\ \A j \in DOMAIN work[l] : work[l][j].c # c
        /\ c \in Dials =>
              /\ Waits(c) /\ dial[c].sock \in {"connected", "refused"}
              /\ l = connector.loop /\ ~Under({"handleConnect"}, c)

ConnOK ==
    \A c \in Conns :
        /\ Up(c) => InMap(c) /\ conn[c].downs = 0 /\ "in" \in conn[c].events
        /\ Down(c) => conn[c].events = {} /\ conn[c].downs = 1
        /\ ~Made(c) => conn[c].events = {} /\ conn[c].downs = 0
        /\ conn[c].state = "connecting" => InMap(c)
        /\ conn[c].state = "none" => ~InMap(c)

MapOK == \A f \in DOMAIN connection_map_ : conn[connection_map_[f]].fd = f

DialMapOK == \A f \in DOMAIN connector.conn_map : dial[connector.conn_map[f]].fd = f

DialOK ==
    \A d \in Dials :
        /\ Waits(d) => OpenDial(d) /\ ~dial[d].at_once
        /\ dial[d].sock \in {"connecting", "refused"} => Waits(d)
        /\ dial[d].sock = "connected" /\ ~Waits(d) => Under({"handleConnect", "newConnection"}, d)
        /\ OpenDial(d) => dial[d].fd \in Fds

(* The address a dial carries is the one that was asked for. *)
AddressOK ==
    \A d \in Dials : dial[d].sock # "none" =>
        /\ dial[d].sock = "asked" \/ dial[d].at_once =>
              dial[d].addr = FromText(dial[d].target.text, PortDialled, dial[d].target.ipv6)
        /\ dial[d].at_once => dial[d].addr.family # "inet6"
        /\ dial[d].sock = "asked" => ~dial[d].at_once

(* A descriptor has one owner. *)
FdOK ==
    /\ \A b, c \in Conns : Linked(b) /\ Linked(c) /\ conn[b].fd = conn[c].fd => b = c
    /\ \A d, e \in Dials : OpenDial(d) /\ OpenDial(e) /\ dial[d].fd = dial[e].fd => d = e
    /\ \A c \in Conns, d \in Dials : Linked(c) /\ OpenDial(d) => conn[c].fd # dial[d].fd
    /\ left.fails = 1 => \A c \in Conns : conn[c].state # "none" => conn[c].fd # BadFd

UserOK ==
    \A u \in Users :
        /\ user[u].pc # "set"
        /\ user[u].pc = "push" => /\ user[u].op = "send" /\ UserOps # {}
                                  /\ user[u].c \in user[u].holds
        /\ \A c \in user[u].holds : Made(c)

UpReg == \A c \in Conns : Up(c) => Reg(c)

(* The entry of a descriptor in a poller. *)
EntryOf(p, f) == p.pollfds[p.index[p.channels[f]] + 1]

PollerOK(p) ==
    /\ \A f \in DOMAIN p.channels :
          /\ p.index[p.channels[f]] < Len(p.pollfds)
          /\ EntryOf(p, f).fd \in {f, Ignored(f)}
    /\ \A f, g \in DOMAIN p.channels : p.channels[f] = p.channels[g] => f = g
    /\ \A i \in 1 .. Len(p.pollfds) : \E f \in DOMAIN p.channels : p.index[p.channels[f]] = i - 1

(* What a poller knows of the descriptor f, and who it is for. *)
Owned(l, f) ==
    LET c == poller[l].channels[f] IN
    \/ c = Timer /\ f = TimerFd
    \/ /\ c \in Conns
       /\ conn[c].fd = f /\ conn[c].loop = l
       /\ EntryOf(poller[l], f).fd = IF conn[c].events = {} THEN Ignored(f) ELSE f
    \/ /\ c \in Dials
       /\ l = connector.loop /\ f \in DOMAIN connector.conn_map
       /\ connector.conn_map[f] = c

PollOK ==
    \A l \in Loops :
        /\ PollerOK(poller[l])
        /\ \A f \in DOMAIN poller[l].channels : Owned(l, f)

RegOK == \A c \in Conns : Reg(c) <=> Made(c) /\ Linked(c)

WaitsOK ==
    LET p == poller[connector.loop] IN
    \A f \in DOMAIN connector.conn_map :
        f \in DOMAIN p.channels /\ p.channels[f] = connector.conn_map[f]

Base == /\ Types /\ StageOK /\ OrderOK /\ RestOK /\ CallsOK /\ OnceOK /\ ActiveOK
        /\ ConnOK /\ MapOK /\ DialMapOK /\ DialOK /\ AddressOK /\ FdOK /\ UserOK /\ UpReg
Wired == PollOK /\ RegOK /\ WaitsOK
ServerInv == Base /\ (Running => Wired)
=============================================================================
