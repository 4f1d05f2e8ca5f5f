----------------------------- MODULE PollPoller -----------------------------
(***************************************************************************)
(* One poller and the channels of its loop, driven the way the classes of  *)
(* the library drive it: a Channel object is constructed for a descriptor  *)
(* no other living channel has, enables and disables events in any order,  *)
(* removes itself and is destroyed; the kernel may then give its           *)
(* descriptor to the next one.  All calls are made by the loop's thread.   *)
(***************************************************************************)
EXTENDS Poller, FiniteSets

CONSTANTS Channels,     \* channel objects (their number is the bound)
          Fds           \* file descriptors the kernel hands out

ASSUME FdsAssumption == Fds \subseteq Nat

VARIABLES poller,       \* the record of module Poller
          live,         \* channels constructed and not destroyed
          fd_,          \* per living channel, its descriptor
          events_,      \* per living channel, the events it asks for
          bare          \* the channels registered wanting no event (history)

vars == <<poller, live, fd_, events_, bare>>

PollerType ==
    /\ DOMAIN poller.channels \in SUBSET Fds
    /\ poller.channels \in [DOMAIN poller.channels -> Channels]
    /\ poller.pollfds \in Seq([fd : Int, events : SUBSET Events])
    /\ poller.index \in [Channels -> Nat]
    /\ poller.crashed \in BOOLEAN

TypeOK ==
    /\ PollerType
    /\ live \in SUBSET Channels
    /\ fd_ \in [Channels -> Fds]
    /\ events_ \in [Channels -> SUBSET Events]
    /\ bare \in SUBSET Channels

Init ==
    /\ poller = EmptyPoller(Channels)
    /\ live = {}
    /\ fd_ \in [Channels -> Fds]
    /\ events_ = [c \in Channels |-> {}]
    /\ bare = {}

Running == ~poller.crashed

-----------------------------------------------------------------------------
(* Channel::Channel, for a descriptor that is not in use. *)
Construct(c, fd) ==
    /\ Running
    /\ c \notin live
    /\ \A d \in live : fd_[d] # fd
    /\ live' = live \cup {c}
    /\ fd_' = [fd_ EXCEPT ![c] = fd]
    /\ events_' = [events_ EXCEPT ![c] = {}]
    /\ poller' = [poller EXCEPT !.index[c] = 0]
    /\ UNCHANGED bare

(* Channel::update after a change of events_.  The entry that registers a  *)
(* channel holds its descriptor even when it wants no event.               *)
SetEvents(c, events) ==
    /\ events_' = [events_ EXCEPT ![c] = events]
    /\ poller' = UpdateChannel(poller, c, fd_[c], events)
    /\ bare' = IF events = {} /\ ~Registered(poller, fd_[c]) THEN bare \cup {c} ELSE bare \ {c}
    /\ UNCHANGED <<live, fd_>>

(* enableReading, enableWriting *)
Enable(c, e) ==
    /\ Running
    /\ c \in live
    /\ SetEvents(c, events_[c] \cup {e})

(* disableReading, disableWriting and disableAll, of a channel that is     *)
(* registered or, as when a connection is closed before connectComplete,   *)
(* is not.                                                                 *)
Disable(c, e) ==
    /\ Running
    /\ c \in live
    /\ SetEvents(c, events_[c] \ {e})

DisableAll(c) ==
    /\ Running
    /\ c \in live
    /\ SetEvents(c, {})

(* Channel::remove; of a channel that is not registered it is only logged. *)
Remove(c) ==
    /\ Running
    /\ c \in live
    /\ poller' = RemoveChannel(poller, c, fd_[c])
    /\ UNCHANGED <<live, fd_, events_, bare>>

(* The owner of a removed channel destroys it and closes its descriptor. *)
Destroy(c) ==
    /\ Running
    /\ c \in live
    /\ ~Registered(poller, fd_[c])
    /\ live' = live \ {c}
    /\ bare' = bare \ {c}
    /\ UNCHANGED <<poller, fd_, events_>>

Next ==
    \E c \in Channels :
        \/ \E fd \in Fds : Construct(c, fd)
        \/ \E e \in Events : Enable(c, e) \/ Disable(c, e)
        \/ DisableAll(c)
        \/ Remove(c)
        \/ Destroy(c)

Spec == Init /\ [][Next]_vars

-----------------------------------------------------------------------------
(* Every registered channel finds its own entry at its own index, and      *)
(* every entry belongs to the registered channel whose index it is at:     *)
(* updateChannel and removeChannel, which trust index_, never touch the    *)
(* entry of another channel, whatever was swapped into place before.       *)
IndexConsistent == Consistent(poller)

(* The map holds living channels only, each under its own descriptor; the  *)
(* owners see to it, who remove a channel before they destroy it.          *)
MapHoldsOwners ==
    \A fd \in DOMAIN poller.channels :
        /\ poller.channels[fd] \in live
        /\ fd_[poller.channels[fd]] = fd

(* ::poll is asked for exactly the events each registered channel wants,   *)
(* and a channel that stopped wanting any is hidden from it by a negative  *)
(* fd, whichever way its entry was moved; only one that never wanted any   *)
(* since it was registered is looked at for none.                          *)
EntriesMatchEvents ==
    \A i \in 1 .. Len(poller.pollfds) :
        LET e == poller.pollfds[i]
            c == poller.channels[Owner(e)]
        IN  /\ e.events = events_[c]
            /\ e.fd < 0 <=> events_[c] = {} /\ c \notin bare

(* removeChannel goes wrong in one situation only: while it removes one    *)
(* channel, another registered channel of the loop is hidden.  A loop in   *)
(* which at most one connection is closing never crashes in it.            *)
CrashNeedsHiddenChannel ==
    [][poller'.crashed =>
         \E c, d \in live : /\ c # d
                            /\ Remove(c)
                            /\ Registered(poller, fd_[d])
                            /\ events_[d] = {} /\ d \notin bare]_vars

(* What ::poll watches. *)
Watched == {poller.pollfds[i] :
               i \in {j \in 1 .. Len(poller.pollfds) : poller.pollfds[j].fd >= 0}}

Interest == INSTANCE InterestSet
              WITH watch <- Watched, EventSets <- SUBSET Events

(* Whatever is swapped, appended or popped in pollfds_, each call changes  *)
(* what is watched for its own descriptor and for no other.                *)
RefinesInterest == Interest!InterestSpec
=============================================================================
