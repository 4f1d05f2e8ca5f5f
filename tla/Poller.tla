------------------------------- MODULE Poller -------------------------------
(***************************************************************************)
(* The data structure of PollPoller and what its methods do to it, as      *)
(* operators on a record, so that a module about one poller (PollPoller)   *)
(* and a module with one poller per loop (TcpServer) use the same code.    *)
(*                                                                         *)
(* A poller p has                                                          *)
(*   p.channels : the map channels_, from file descriptors to channels     *)
(*   p.pollfds  : the vector pollfds_, of [fd, events] (indices are the    *)
(*                code's plus one); a negative fd is ignored by ::poll     *)
(*   p.index    : Channel::index_ of every channel object                  *)
(*   p.crashed  : the null pointer of a missing channel was dereferenced   *)
(* A method is not called on a crashed poller: the process is gone.        *)
(***************************************************************************)
EXTENDS Integers, Sequences

Events == {"in", "out"}         \* kReadEvent, kWriteEvent; {} is kNoneEvent

EmptyPoller(Channels) ==
    [channels |-> [fd \in {} |-> 0], pollfds |-> <<>>,
     index |-> [c \in Channels |-> 0], crashed |-> FALSE]

Registered(p, fd) == fd \in DOMAIN p.channels

(* The map without one key, and with one more. *)
Without(f, x) == [y \in DOMAIN f \ {x} |-> f[y]]
With(f, x, v) == [y \in DOMAIN f \cup {x} |-> IF y = x THEN v ELSE f[y]]

IgnoredMinus(fd) == -fd

(* How a descriptor is marked as ignored, and which one an entry is for. *)
Ignored(fd) == -fd - 1

Owner(e) == IF e.fd >= 0 THEN e.fd ELSE Ignored(e.fd)

(* Overwrite the entry at the channel's index ... *)
UpdateEntry(p, c, fd, events) ==
    [p EXCEPT !.pollfds[p.index[c] + 1] =
        [fd |-> IF events = {} THEN Ignored(fd) ELSE fd, events |-> events]]

(* ... or append one, as it is, and tell the channel where. *)
InsertEntry(p, c, fd, events) ==
    [p EXCEPT !.channels = With(@, fd, c),
              !.pollfds = Append(@, [fd |-> fd, events |-> events]),
              !.index[c] = Len(p.pollfds)]

UpdateChannel(p, c, fd, events) ==
    IF Registered(p, fd)
    THEN UpdateEntry(p, c, fd, events)
    ELSE InsertEntry(p, c, fd, events)

IndexAsBefore(idx, last) == last
LookupRemoved(p, idx, last) == p.pollfds[idx + 1].fd

(* The index the moved entry's channel gets, and the descriptor by which   *)
(* that channel is looked up.                                              *)
NewIndex(idx, last) == idx
LookupMoved(p, idx, last) == p.pollfds[last + 1].fd

(* Drop the last entry after moving it to the index of the removed channel,*)
(* whose owner is looked up by the descriptor the entry holds.             *)
RemoveEntry(p, c, fd) ==
    LET rest   == Without(p.channels, fd)
        idx    == p.index[c]
        last   == Len(p.pollfds) - 1
        owner  == LookupMoved(p, idx, last)
        popped(s) == SubSeq(s, 1, last)
    IN  IF idx = last
        THEN [p EXCEPT !.channels = rest, !.pollfds = popped(@)]
        ELSE IF owner \notin DOMAIN rest
        THEN [p EXCEPT !.crashed = TRUE]
        ELSE [p EXCEPT !.channels = rest,
                       !.pollfds = popped([@ EXCEPT ![idx + 1] = p.pollfds[last + 1]]),
                       !.index[rest[owner]] = NewIndex(idx, last)]

RemoveNothing(p, c, fd) == p

RemoveChannel(p, c, fd) ==
    IF Registered(p, fd) THEN RemoveEntry(p, c, fd) ELSE p

(* Every registered channel finds its own entry at its own index, and      *)
(* every entry belongs to the registered channel whose index it is at.     *)
Consistent(p) ==
    /\ \A fd \in DOMAIN p.channels :
          /\ p.index[p.channels[fd]] < Len(p.pollfds)
          /\ Owner(p.pollfds[p.index[p.channels[fd]] + 1]) = fd
    /\ \A i \in 1 .. Len(p.pollfds) :
          /\ Owner(p.pollfds[i]) \in DOMAIN p.channels
          /\ p.index[p.channels[Owner(p.pollfds[i])]] = i - 1
=============================================================================
