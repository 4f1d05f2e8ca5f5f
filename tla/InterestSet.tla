----------------------------- MODULE InterestSet -----------------------------
(***************************************************************************)
(* What a poller promises: at any time it watches a set of descriptors,    *)
(* each for one set of events (an empty one when it is registered wanting  *)
(* none), and a call about one descriptor changes nothing for the others.  *)
(***************************************************************************)
CONSTANTS Fds, EventSets        \* descriptors, the sets of events

VARIABLE watch                  \* a set of [fd, events]

InterestInit == watch = {}

Others(fd) == {w \in watch : w.fd # fd}

WatchFor(fd, events) == watch' = Others(fd) \cup {[fd |-> fd, events |-> events]}

Ignore(fd) == watch' = Others(fd)

InterestNext ==
    \E fd \in Fds : Ignore(fd) \/ \E events \in EventSets : WatchFor(fd, events)

InterestSpec == InterestInit /\ [][InterestNext]_watch
=============================================================================
