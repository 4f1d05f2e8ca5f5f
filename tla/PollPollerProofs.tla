-------------------------- MODULE PollPollerProofs --------------------------
(***************************************************************************)
(* Proofs about PollPoller, for any number of channels and descriptors.    *)
(***************************************************************************)
EXTENDS PollPoller, SequenceTheorems, TLAPS

Entries == [fd : Int, events : SUBSET Events]

(* The poller is a record with the four fields of the class. *)
PollerShape ==
    poller = [channels |-> poller.channels, pollfds |-> poller.pollfds,
              index |-> poller.index, crashed |-> poller.crashed]

(* The kernel gives a descriptor to one open file at a time. *)
DistinctFds == \A c, d \in live : fd_[c] = fd_[d] => c = d

(* The inductive invariant.  IndexConsistent alone is not inductive:       *)
(* updateChannel trusts index_ of the channel it is called with, so the    *)
(* map must hold that channel, which follows from MapHoldsOwners and       *)
(* DistinctFds only.                                                       *)
PollerInv ==
    /\ TypeOK
    /\ PollerShape
    /\ DistinctFds
    /\ IndexConsistent
    /\ MapHoldsOwners
    /\ EntriesMatchEvents

-----------------------------------------------------------------------------
(* What the vector operations of pollfds_ do, element by element. *)

(* pop_back *)
LEMMA PopBack ==
    ASSUME NEW S, NEW s \in Seq(S), NEW n \in Nat, Len(s) = n + 1
    PROVE  /\ SubSeq(s, 1, n) \in Seq(S)
           /\ Len(SubSeq(s, 1, n)) = n
           /\ \A i \in 1 .. n : SubSeq(s, 1, n)[i] = s[i]
<1>1. \A i \in 1 .. n : s[i] \in S
  BY ElementOfSeq
<1> QED BY <1>1, SubSeqProperties

(* Overwriting an entry with the last one, then pop_back. *)
LEMMA SwapAndPop ==
    ASSUME NEW S, NEW s \in Seq(S), NEW n \in Nat, Len(s) = n + 1,
           NEW k \in 1 .. n, NEW t, t = SubSeq([s EXCEPT ![k] = s[n + 1]], 1, n)
    PROVE  /\ t \in Seq(S)
           /\ Len(t) = n
           /\ \A i \in 1 .. n : t[i] = IF i = k THEN s[n + 1] ELSE s[i]
<1> DEFINE u == [s EXCEPT ![k] = s[n + 1]]
<1>1. s[n + 1] \in S
  BY ElementOfSeq
<1>2. u \in Seq(S) /\ Len(u) = n + 1
     /\ \A i \in 1 .. n : u[i] = IF i = k THEN s[n + 1] ELSE s[i]
  BY <1>1, ExceptSeq
<1> HIDE DEF u
<1>3. t = SubSeq(u, 1, n)
  BY DEF u
<1> QED BY <1>2, <1>3, PopBack

-----------------------------------------------------------------------------
(* In what state a method leaves the four fields.  First updateChannel of  *)
(* a registered channel.                                                   *)
LEMMA UpdateFields ==
    ASSUME PollerShape, TypeOK, NEW c \in Channels, NEW fd, NEW events,
           NEW p, p = UpdateEntry(poller, c, fd, events)
    PROVE  /\ p = [channels |-> p.channels, pollfds |-> p.pollfds,
                   index |-> p.index, crashed |-> p.crashed]
           /\ p.channels = poller.channels
           /\ p.index = poller.index
           /\ p.crashed = poller.crashed
           /\ p.pollfds = [poller.pollfds EXCEPT ![poller.index[c] + 1] =
                 [fd |-> IF events = {} THEN Ignored(fd) ELSE fd, events |-> events]]
  BY DEF PollerShape, UpdateEntry

(* updateChannel of a channel that is not registered. *)
LEMMA InsertFields ==
    ASSUME PollerShape, TypeOK, NEW c \in Channels, NEW fd, NEW events,
           NEW p, p = InsertEntry(poller, c, fd, events)
    PROVE  /\ p = [channels |-> p.channels, pollfds |-> p.pollfds,
                   index |-> p.index, crashed |-> p.crashed]
           /\ p.channels = With(poller.channels, fd, c)
           /\ p.index = [poller.index EXCEPT ![c] = Len(poller.pollfds)]
           /\ p.crashed = poller.crashed
           /\ p.pollfds = Append(poller.pollfds, [fd |-> fd, events |-> events])
  BY DEF PollerShape, InsertEntry

(* removeChannel of the channel with the last entry. *)
LEMMA RemoveLastFields ==
    ASSUME PollerShape, TypeOK, NEW c \in Channels, NEW fd,
           poller.index[c] = Len(poller.pollfds) - 1,
           NEW p, p = RemoveEntry(poller, c, fd)
    PROVE  /\ p = [channels |-> p.channels, pollfds |-> p.pollfds,
                   index |-> p.index, crashed |-> p.crashed]
           /\ p.channels = Without(poller.channels, fd)
           /\ p.index = poller.index
           /\ p.crashed = poller.crashed
           /\ p.pollfds = SubSeq(poller.pollfds, 1, Len(poller.pollfds) - 1)
  BY DEF PollerShape, RemoveEntry

(* The channel registered under a living channel's descriptor is itself. *)
LEMMA RegisteredItself ==
    ASSUME PollerInv, NEW c \in live, Registered(poller, fd_[c])
    PROVE  /\ c \in Channels
           /\ poller.channels[fd_[c]] = c
           /\ poller.index[c] + 1 \in 1 .. Len(poller.pollfds)
           /\ Owner(poller.pollfds[poller.index[c] + 1]) = fd_[c]
<1>1. c \in Channels /\ fd_[c] \in DOMAIN poller.channels
  BY DEF PollerInv, TypeOK, Registered
<1>2. poller.channels[fd_[c]] \in live /\ fd_[poller.channels[fd_[c]]] = fd_[c]
  BY <1>1 DEF PollerInv, MapHoldsOwners
<1>3. poller.channels[fd_[c]] = c
  BY <1>2 DEF PollerInv, DistinctFds
<1>4. poller.index[c] < Len(poller.pollfds)
      /\ Owner(poller.pollfds[poller.index[c] + 1]) = fd_[c]
  BY <1>1, <1>3 DEF PollerInv, IndexConsistent, Consistent
<1>5. poller.index[c] \in Nat /\ Len(poller.pollfds) \in Nat
  BY <1>1 DEF PollerInv, TypeOK, PollerType
<1> QED BY <1>1, <1>3, <1>4, <1>5

(* An entry belongs to the channel whose index it is at. *)
LEMMA EntryOwner ==
    ASSUME PollerInv, NEW i \in 1 .. Len(poller.pollfds)
    PROVE  /\ poller.pollfds[i] \in Entries
           /\ Owner(poller.pollfds[i]) \in DOMAIN poller.channels
           /\ Owner(poller.pollfds[i]) \in Nat
           /\ poller.channels[Owner(poller.pollfds[i])] \in live
           /\ fd_[poller.channels[Owner(poller.pollfds[i])]] = Owner(poller.pollfds[i])
           /\ poller.index[poller.channels[Owner(poller.pollfds[i])]] = i - 1
           /\ poller.pollfds[i].events
                = events_[poller.channels[Owner(poller.pollfds[i])]]
           /\ poller.pollfds[i].fd < 0
                <=> /\ events_[poller.channels[Owner(poller.pollfds[i])]] = {}
                    /\ poller.channels[Owner(poller.pollfds[i])] \notin bare
<1>1. poller.pollfds[i] \in Entries
  BY ElementOfSeq DEF PollerInv, TypeOK, PollerType, Entries
<1>2. Owner(poller.pollfds[i]) \in DOMAIN poller.channels
      /\ poller.index[poller.channels[Owner(poller.pollfds[i])]] = i - 1
  BY DEF PollerInv, IndexConsistent, Consistent
<1>3. Owner(poller.pollfds[i]) \in Nat
  BY <1>2, FdsAssumption DEF PollerInv, TypeOK, PollerType
<1>4. poller.channels[Owner(poller.pollfds[i])] \in live
      /\ fd_[poller.channels[Owner(poller.pollfds[i])]] = Owner(poller.pollfds[i])
  BY <1>2 DEF PollerInv, MapHoldsOwners
<1>5. poller.pollfds[i].events = events_[poller.channels[Owner(poller.pollfds[i])]]
      /\ (poller.pollfds[i].fd < 0
            <=> /\ events_[poller.channels[Owner(poller.pollfds[i])]] = {}
                /\ poller.channels[Owner(poller.pollfds[i])] \notin bare)
  BY DEF PollerInv, EntriesMatchEvents
<1> QED BY <1>1, <1>2, <1>3, <1>4, <1>5

(* Init *)
LEMMA PollerInvInit == Init => PollerInv
<1> SUFFICES ASSUME Init PROVE PollerInv
  OBVIOUS
<1>1. /\ poller.channels = [fd \in {} |-> 0] /\ poller.pollfds = <<>>
      /\ poller.index = [c \in Channels |-> 0] /\ poller.crashed = FALSE
      /\ PollerShape
  BY DEF Init, EmptyPoller, PollerShape
<1>2. DOMAIN poller.channels = {} /\ poller.channels \in [{} -> Channels]
  BY <1>1
<1>3. poller.pollfds \in Seq([fd : Int, events : SUBSET Events]) /\ Len(poller.pollfds) = 0
  BY <1>1, EmptySeq
<1>4. TypeOK
  <2>1. poller.index \in [Channels -> Nat]
    BY <1>1
  <2>4. poller.crashed \in BOOLEAN
    BY <1>1
  <2>2. PollerType
    BY <1>2, <1>3, <2>1, <2>4 DEF PollerType
  <2>3. events_ \in [Channels -> SUBSET Events]
    BY DEF Init
  <2> QED BY <2>2, <2>3 DEF Init, TypeOK
<1>5. IndexConsistent /\ MapHoldsOwners /\ EntriesMatchEvents
  BY <1>2, <1>3 DEF IndexConsistent, Consistent, MapHoldsOwners, EntriesMatchEvents
<1>6. DistinctFds
  BY DEF Init, DistinctFds
<1> QED BY <1>1, <1>4, <1>5, <1>6 DEF PollerInv

(* A channel is constructed: it is not registered, and the index it starts *)
(* with is not looked at before it is.                                     *)
LEMMA ConstructKeeps ==
    ASSUME PollerInv, NEW c \in Channels, NEW fd \in Fds, Construct(c, fd)
    PROVE  PollerInv'
<1>1. /\ PollerShape'
      /\ poller'.channels = poller.channels /\ poller'.pollfds = poller.pollfds
      /\ poller'.crashed = poller.crashed
      /\ poller'.index = [poller.index EXCEPT ![c] = 0]
  BY DEF PollerInv, PollerShape, Construct
<1>2. TypeOK'
  <2>1. live' \in SUBSET Channels /\ fd_' \in [Channels -> Fds]
        /\ events_' \in [Channels -> SUBSET Events] /\ bare' \in SUBSET Channels
    BY DEF PollerInv, TypeOK, Construct
  <2>2. poller'.index \in [Channels -> Nat]
    BY <1>1 DEF PollerInv, TypeOK, PollerType
  <2> QED BY <1>1, <2>1, <2>2 DEF PollerInv, TypeOK, PollerType
<1>3. DistinctFds'
  BY DEF PollerInv, TypeOK, DistinctFds, Construct
<1>4. \A f \in DOMAIN poller.channels : poller.channels[f] # c
                                       /\ poller.channels[f] \in Channels
  BY DEF PollerInv, MapHoldsOwners, Construct, TypeOK
<1>5. MapHoldsOwners'
  BY <1>1, <1>4 DEF PollerInv, MapHoldsOwners, TypeOK, Construct
<1>6. \A f \in DOMAIN poller.channels :
         poller'.index[poller.channels[f]] = poller.index[poller.channels[f]]
         /\ events_'[poller.channels[f]] = events_[poller.channels[f]]
         /\ (poller.channels[f] \in bare' <=> poller.channels[f] \in bare)
  BY <1>1, <1>4 DEF PollerInv, TypeOK, PollerType, Construct
<1>7. IndexConsistent'
  BY <1>1, <1>6 DEF PollerInv, IndexConsistent, Consistent
<1>8. EntriesMatchEvents'
  <2> SUFFICES ASSUME NEW i \in 1 .. Len(poller.pollfds)
               PROVE  LET e == poller.pollfds[i]
                          c_ == poller.channels[Owner(e)]
                      IN  /\ e.events = events_'[c_]
                          /\ e.fd < 0 <=> events_'[c_] = {} /\ c_ \notin bare'
    BY <1>1 DEF EntriesMatchEvents
  <2> QED BY <1>6, EntryOwner
<1> QED BY <1>1, <1>2, <1>3, <1>5, <1>7, <1>8 DEF PollerInv

(* updateChannel of a registered channel overwrites its own entry. *)
LEMMA UpdateKeeps ==
    ASSUME PollerInv, NEW c \in live, Registered(poller, fd_[c]),
           NEW events \in SUBSET Events, SetEvents(c, events)
    PROVE  PollerInv'
<1> DEFINE k == poller.index[c] + 1
           new == [fd |-> IF events = {} THEN Ignored(fd_[c]) ELSE fd_[c],
                   events |-> events]
<1>0. /\ c \in Channels /\ poller.channels[fd_[c]] = c
      /\ k \in 1 .. Len(poller.pollfds)
      /\ Owner(poller.pollfds[k]) = fd_[c]
      /\ fd_[c] \in DOMAIN poller.channels
      /\ fd_[c] \in Nat
  BY RegisteredItself, FdsAssumption DEF PollerInv, TypeOK, Registered
<1>1. /\ PollerShape'
      /\ poller'.channels = poller.channels
      /\ poller'.index = poller.index
      /\ poller'.crashed = poller.crashed
      /\ poller'.pollfds = [poller.pollfds EXCEPT ![k] = new]
  <2>1. poller' = UpdateEntry(poller, c, fd_[c], events)
    BY DEF SetEvents, UpdateChannel
  <2> QED BY <1>0, <2>1, UpdateFields DEF PollerInv, PollerShape
<1>2. /\ new \in Entries
      /\ Owner(new) = fd_[c]
      /\ new.events = events
      /\ new.fd < 0 <=> events = {}
  BY <1>0 DEF Entries, Owner, Ignored
<1> HIDE DEF k, new
<1>3. /\ poller'.pollfds \in Seq(Entries)
      /\ Len(poller'.pollfds) = Len(poller.pollfds)
      /\ \A i \in 1 .. Len(poller.pollfds) :
            poller'.pollfds[i] = IF i = k THEN new ELSE poller.pollfds[i]
  <2>1. poller.pollfds \in Seq(Entries)
    BY DEF PollerInv, TypeOK, PollerType, Entries
  <2> QED BY <1>0, <1>1, <1>2, <2>1, ExceptSeq
<1>4. /\ live' = live /\ fd_' = fd_
      /\ events_' = [events_ EXCEPT ![c] = events]
      /\ bare' = bare \ {c}
  BY DEF SetEvents
<1>5. TypeOK'
  <2>1. poller'.pollfds \in Seq([fd : Int, events : SUBSET Events])
    BY <1>3 DEF Entries
  <2> QED BY <1>0, <1>1, <1>4, <2>1 DEF PollerInv, TypeOK, PollerType
<1>6. DistinctFds' /\ MapHoldsOwners'
  BY <1>1, <1>4 DEF PollerInv, DistinctFds, MapHoldsOwners
<1>7. \A i \in 1 .. Len(poller.pollfds) :
         Owner(poller'.pollfds[i]) = Owner(poller.pollfds[i])
  BY <1>0, <1>2, <1>3
<1>8. IndexConsistent'
  <2>1. ASSUME NEW f \in DOMAIN poller.channels
        PROVE  /\ poller.index[poller.channels[f]] < Len(poller'.pollfds)
               /\ Owner(poller'.pollfds[poller.index[poller.channels[f]] + 1]) = f
    <3>1. /\ poller.index[poller.channels[f]] < Len(poller.pollfds)
          /\ Owner(poller.pollfds[poller.index[poller.channels[f]] + 1]) = f
      BY <2>1 DEF PollerInv, IndexConsistent, Consistent
    <3>2. poller.index[poller.channels[f]] \in Nat /\ Len(poller.pollfds) \in Nat
      BY <2>1 DEF PollerInv, TypeOK, PollerType
    <3> QED BY <1>3, <1>7, <3>1, <3>2
  <2> QED BY <1>1, <1>3, <1>7, <2>1 DEF PollerInv, IndexConsistent, Consistent
<1>9. EntriesMatchEvents'
  <2> SUFFICES ASSUME NEW i \in 1 .. Len(poller.pollfds)
               PROVE  LET e == poller'.pollfds[i]
                          d == poller.channels[Owner(e)]
                      IN  /\ e.events = events_'[d]
                          /\ e.fd < 0 <=> events_'[d] = {} /\ d \notin bare'
    BY <1>1, <1>3 DEF EntriesMatchEvents
  <2>1. CASE i = k
    <3>1. poller'.pollfds[i] = new /\ events_'[c] = events
      BY <1>0, <1>3, <1>4, <2>1 DEF PollerInv, TypeOK
    <3> QED BY <1>0, <1>2, <1>4, <3>1
  <2>2. CASE i # k
    <3>1. poller'.pollfds[i] = poller.pollfds[i]
      BY <1>3, <2>2
    <3>2. poller.index[poller.channels[Owner(poller.pollfds[i])]] = i - 1
      BY EntryOwner
    <3>3. poller.channels[Owner(poller.pollfds[i])] # c
      BY <1>0, <2>2, <3>2 DEF k, PollerInv, TypeOK, PollerType
    <3>4. poller.channels[Owner(poller.pollfds[i])] \in Channels
      BY EntryOwner DEF PollerInv, TypeOK
    <3>5. events_'[poller.channels[Owner(poller.pollfds[i])]]
            = events_[poller.channels[Owner(poller.pollfds[i])]]
      BY <1>4, <3>3, <3>4 DEF PollerInv, TypeOK
    <3>6. /\ poller.pollfds[i].events
               = events_[poller.channels[Owner(poller.pollfds[i])]]
          /\ poller.pollfds[i].fd < 0
               <=> /\ events_[poller.channels[Owner(poller.pollfds[i])]] = {}
                   /\ poller.channels[Owner(poller.pollfds[i])] \notin bare
      BY EntryOwner
    <3> QED BY <1>4, <3>1, <3>3, <3>5, <3>6
  <2> QED BY <2>1, <2>2
<1> QED BY <1>1, <1>5, <1>6, <1>8, <1>9 DEF PollerInv

(* updateChannel of a channel that is not registered appends its entry. *)
LEMMA InsertKeeps ==
    ASSUME PollerInv, NEW c \in live, ~Registered(poller, fd_[c]),
           NEW events \in SUBSET Events, SetEvents(c, events)
    PROVE  PollerInv'
<1> DEFINE n == Len(poller.pollfds)
           new == [fd |-> fd_[c], events |-> events]
<1>0. /\ c \in Channels /\ fd_[c] \in Fds /\ fd_[c] \in Nat /\ n \in Nat
      /\ fd_[c] \notin DOMAIN poller.channels
      /\ poller.pollfds \in Seq(Entries)
  <2>1. c \in Channels /\ fd_[c] \in Fds
    BY DEF PollerInv, TypeOK
  <2>2. poller.pollfds \in Seq(Entries)
    BY DEF PollerInv, TypeOK, PollerType, Entries
  <2> QED BY <2>1, <2>2, LenProperties, FdsAssumption DEF Registered
<1>1. /\ PollerShape'
      /\ poller'.channels = With(poller.channels, fd_[c], c)
      /\ poller'.index = [poller.index EXCEPT ![c] = n]
      /\ poller'.crashed = poller.crashed
      /\ poller'.pollfds = Append(poller.pollfds, new)
  <2>1. poller' = InsertEntry(poller, c, fd_[c], events)
    BY DEF SetEvents, UpdateChannel
  <2>2. TypeOK /\ PollerShape
    BY DEF PollerInv
  <2>3. /\ poller' = [channels |-> poller'.channels, pollfds |-> poller'.pollfds,
                      index |-> poller'.index, crashed |-> poller'.crashed]
        /\ poller'.channels = With(poller.channels, fd_[c], c)
        /\ poller'.index = [poller.index EXCEPT ![c] = Len(poller.pollfds)]
        /\ poller'.crashed = poller.crashed
        /\ poller'.pollfds = Append(poller.pollfds, [fd |-> fd_[c], events |-> events])
    BY <1>0, <2>1, <2>2, InsertFields
  <2> QED BY <2>3 DEF PollerShape
<1>2. /\ new \in Entries
      /\ Owner(new) = fd_[c]
      /\ new.events = events
      /\ ~(new.fd < 0)
  BY <1>0 DEF Entries, Owner
<1>3. /\ DOMAIN poller'.channels = DOMAIN poller.channels \cup {fd_[c]}
      /\ poller'.channels[fd_[c]] = c
      /\ \A f \in DOMAIN poller.channels : poller'.channels[f] = poller.channels[f]
  BY <1>0, <1>1 DEF With
<1>4. /\ live' = live /\ fd_' = fd_
      /\ events_' = [events_ EXCEPT ![c] = events]
      /\ bare' = IF events = {} THEN bare \cup {c} ELSE bare \ {c}
  BY DEF SetEvents
<1> HIDE DEF new
<1>5. /\ poller'.pollfds \in Seq(Entries)
      /\ Len(poller'.pollfds) = n + 1
      /\ poller'.pollfds[n + 1] = new
      /\ \A i \in 1 .. n : poller'.pollfds[i] = poller.pollfds[i]
  BY <1>0, <1>1, <1>2, AppendProperties
<1> HIDE DEF n
<1>6. \A f \in DOMAIN poller.channels :
         poller.channels[f] # c /\ poller.channels[f] \in Channels
  BY <1>0 DEF PollerInv, MapHoldsOwners, TypeOK
<1>7. /\ poller'.index[c] = n
      /\ events_'[c] = events
      /\ \A f \in DOMAIN poller.channels :
            /\ poller'.index[poller.channels[f]] = poller.index[poller.channels[f]]
            /\ events_'[poller.channels[f]] = events_[poller.channels[f]]
            /\ poller.channels[f] \in bare' <=> poller.channels[f] \in bare
  BY <1>0, <1>1, <1>4, <1>6 DEF PollerInv, TypeOK, PollerType
<1>8. TypeOK'
  <2>1. poller'.pollfds \in Seq([fd : Int, events : SUBSET Events])
    BY <1>5 DEF Entries
  <2>2. DOMAIN poller'.channels \in SUBSET Fds
        /\ poller'.channels \in [DOMAIN poller'.channels -> Channels]
    BY <1>0, <1>1, <1>3, <1>6 DEF PollerInv, TypeOK, PollerType, With
  <2>3. poller'.index \in [Channels -> Nat]
    BY <1>0, <1>1 DEF PollerInv, TypeOK, PollerType
  <2>4. PollerType'
    BY <1>1, <2>1, <2>2, <2>3 DEF PollerInv, TypeOK, PollerType
  <2> QED BY <1>0, <1>4, <2>4 DEF PollerInv, TypeOK
<1>9. DistinctFds' /\ MapHoldsOwners'
  BY <1>3, <1>4 DEF PollerInv, DistinctFds, MapHoldsOwners
<1>10. \A i \in 1 .. n : Owner(poller.pollfds[i]) \in DOMAIN poller.channels
  BY EntryOwner DEF n
<1>11. IndexConsistent'
  <2>1. ASSUME NEW f \in DOMAIN poller'.channels
        PROVE  /\ poller'.index[poller'.channels[f]] < Len(poller'.pollfds)
               /\ Owner(poller'.pollfds[poller'.index[poller'.channels[f]] + 1]) = f
    <3>1. CASE f = fd_[c]
      BY <1>0, <1>2, <1>3, <1>5, <1>7, <3>1
    <3>2. CASE f \in DOMAIN poller.channels
      <4>1. /\ poller.index[poller.channels[f]] < n
            /\ Owner(poller.pollfds[poller.index[poller.channels[f]] + 1]) = f
        BY <3>2 DEF PollerInv, IndexConsistent, Consistent, n
      <4>2. poller.index[poller.channels[f]] \in Nat
        BY <1>6, <3>2 DEF PollerInv, TypeOK, PollerType
      <4>3. poller'.index[poller'.channels[f]] = poller.index[poller.channels[f]]
        BY <1>3, <1>7, <3>2
      <4>4. poller'.pollfds[poller.index[poller.channels[f]] + 1]
              = poller.pollfds[poller.index[poller.channels[f]] + 1]
        <5>1. PICK x \in Nat : x = poller.index[poller.channels[f]]
          BY <4>2
        <5>2. n \in Nat /\ x < n
          BY ONLY <1>0, <4>1, <5>1
        <5>3. x + 1 \in 1 .. n
          BY ONLY <5>2
        <5> QED BY ONLY <1>5, <5>1, <5>3
      <4> QED BY <1>0, <1>5, <4>1, <4>2, <4>3, <4>4
    <3> QED BY <1>3, <3>1, <3>2
  <2>2. ASSUME NEW i \in 1 .. Len(poller'.pollfds)
        PROVE  /\ Owner(poller'.pollfds[i]) \in DOMAIN poller'.channels
               /\ poller'.index[poller'.channels[Owner(poller'.pollfds[i])]] = i - 1
    <3>1. CASE i = n + 1
      <4>1. Owner(poller'.pollfds[i]) = fd_[c]
        BY ONLY <1>2, <1>5, <3>1
      <4>2. i - 1 = n
        BY ONLY <1>0, <3>1
      <4> QED BY ONLY <1>3, <1>7, <4>1, <4>2
    <3>2. CASE i \in 1 .. n
      <4>1. poller'.pollfds[i] = poller.pollfds[i]
        BY <1>5, <3>2
      <4>2. poller.index[poller.channels[Owner(poller.pollfds[i])]] = i - 1
        BY <3>2, EntryOwner DEF n
      <4> QED BY <1>3, <1>7, <1>10, <3>2, <4>1, <4>2
    <3> QED BY <1>0, <1>5, <3>1, <3>2
  <2> QED BY <2>1, <2>2 DEF IndexConsistent, Consistent
<1>12. EntriesMatchEvents'
  <2> SUFFICES ASSUME NEW i \in 1 .. Len(poller'.pollfds)
               PROVE  LET e == poller'.pollfds[i]
                          d == poller'.channels[Owner(e)]
                      IN  /\ e.events = events_'[d]
                          /\ e.fd < 0 <=> events_'[d] = {} /\ d \notin bare'
    BY DEF EntriesMatchEvents
  <2>1. CASE i = n + 1
    <3>1. poller'.pollfds[i] = new /\ poller'.channels[Owner(new)] = c
      BY ONLY <1>2, <1>3, <1>5, <2>1
    <3>2. events = {} <=> c \in bare'
      BY <1>0, <1>4
    <3> QED BY <1>2, <1>7, <3>1, <3>2
  <2>2. CASE i \in 1 .. n
    <3>1. poller'.pollfds[i] = poller.pollfds[i]
      BY <1>5, <2>2
    <3>2. poller'.channels[Owner(poller.pollfds[i])]
            = poller.channels[Owner(poller.pollfds[i])]
      BY <1>3, <1>10, <2>2
    <3>3. events_'[poller.channels[Owner(poller.pollfds[i])]]
            = events_[poller.channels[Owner(poller.pollfds[i])]]
          /\ (poller.channels[Owner(poller.pollfds[i])] \in bare'
                <=> poller.channels[Owner(poller.pollfds[i])] \in bare)
      BY <1>7, <1>10, <2>2
    <3>4. /\ poller.pollfds[i].events
               = events_[poller.channels[Owner(poller.pollfds[i])]]
          /\ poller.pollfds[i].fd < 0
               <=> /\ events_[poller.channels[Owner(poller.pollfds[i])]] = {}
                   /\ poller.channels[Owner(poller.pollfds[i])] \notin bare
      BY <2>2, EntryOwner DEF n
    <3> QED BY <3>1, <3>2, <3>3, <3>4
  <2> QED BY <1>0, <1>5, <2>1, <2>2
<1> QED BY <1>1, <1>8, <1>9, <1>11, <1>12 DEF PollerInv

(* What removeChannel may end in.  Either the last entry, of a hidden      *)
(* channel, is to be moved and its channel is not found; *)
RemoveCrashes(c) ==
    LET n == Len(poller.pollfds) - 1 IN
    /\ poller' = [poller EXCEPT !.crashed = TRUE]
    /\ poller.index[c] # n
    /\ poller.pollfds[n + 1].fd < 0

(* or the channel leaves the map, the last entry takes the place of its    *)
(* entry (k = n + 1 when it was the last one), and the channel of the      *)
(* moved entry, if any, knows its new place.                               *)
RemoveSucceeds(c) ==
    LET n == Len(poller.pollfds) - 1
        k == poller.index[c] + 1
    IN  /\ poller'.channels = Without(poller.channels, fd_[c])
        /\ DOMAIN poller'.channels = DOMAIN poller.channels \ {fd_[c]}
        /\ \A f \in DOMAIN poller'.channels : poller'.channels[f] = poller.channels[f]
        /\ poller'.pollfds \in Seq(Entries)
        /\ Len(poller'.pollfds) = n
        /\ \A i \in 1 .. n :
              poller'.pollfds[i] = IF i = k THEN poller.pollfds[n + 1] ELSE poller.pollfds[i]
        /\ poller'.index \in [Channels -> Nat]
        /\ \A f \in DOMAIN poller'.channels :
              poller'.index[poller.channels[f]] =
                IF k # n + 1 /\ f = Owner(poller.pollfds[n + 1]) THEN k - 1
                ELSE poller.index[poller.channels[f]]
        /\ poller'.crashed = poller.crashed

(* removeChannel of a registered channel ends in one of the two. *)
LEMMA RemoveOutcome ==
    ASSUME PollerInv, NEW c \in live, Registered(poller, fd_[c]),
           poller' = RemoveEntry(poller, c, fd_[c])
    PROVE  PollerShape' /\ (RemoveCrashes(c) \/ RemoveSucceeds(c))
<1> DEFINE n == Len(poller.pollfds) - 1
           k == poller.index[c] + 1
           rest == Without(poller.channels, fd_[c])
           owner == poller.pollfds[n + 1].fd
<1>1. TypeOK /\ PollerShape /\ poller.pollfds \in Seq(Entries)
      /\ poller.index \in [Channels -> Nat]
  BY DEF PollerInv, TypeOK, PollerType, Entries
<1>2. /\ c \in Channels
      /\ fd_[c] \in DOMAIN poller.channels
      /\ poller.channels[fd_[c]] = c
      /\ poller.index[c] + 1 \in 1 .. Len(poller.pollfds)
  BY RegisteredItself DEF Registered
<1>3. n \in Nat /\ k \in 1 .. n + 1 /\ n + 1 \in 1 .. Len(poller.pollfds)
      /\ Len(poller.pollfds) = n + 1 /\ poller.index[c] = k - 1
  <2>1. Len(poller.pollfds) \in Nat /\ poller.index[c] \in Nat
    BY <1>1, <1>2, LenProperties
  <2> QED BY <1>2, <2>1
<1>4. /\ DOMAIN rest = DOMAIN poller.channels \ {fd_[c]}
      /\ \A f \in DOMAIN rest : rest[f] = poller.channels[f]
      /\ \A f \in DOMAIN poller.channels : poller.channels[f] \in Channels
  BY DEF Without, PollerInv, TypeOK, PollerType
<1> HIDE DEF rest
<1>5. CASE k = n + 1
  <2>1. /\ poller' = [channels |-> poller'.channels, pollfds |-> poller'.pollfds,
                      index |-> poller'.index, crashed |-> poller'.crashed]
        /\ poller'.channels = rest
        /\ poller'.index = poller.index
        /\ poller'.crashed = poller.crashed
        /\ poller'.pollfds = SubSeq(poller.pollfds, 1, Len(poller.pollfds) - 1)
    <3>1. poller.index[c] = Len(poller.pollfds) - 1
      BY <1>3, <1>5
    <3> QED BY <1>1, <1>2, <3>1, RemoveLastFields DEF rest
  <2>2. /\ poller'.pollfds \in Seq(Entries)
        /\ Len(poller'.pollfds) = n
        /\ \A i \in 1 .. n : poller'.pollfds[i] = poller.pollfds[i]
    <3> HIDE DEF n
    <3>1. poller'.pollfds = SubSeq(poller.pollfds, 1, n)
      BY <2>1 DEF n
    <3> QED BY <1>1, <1>3, <3>1, PopBack
  <2>3. RemoveSucceeds(c)
    <3>1. \A i \in 1 .. n : i # k
      BY <1>3, <1>5
    <3> QED BY <1>1, <1>4, <1>5, <2>1, <2>2, <3>1 DEF RemoveSucceeds, rest
  <2> QED BY <2>1, <2>3 DEF PollerShape
<1>6. CASE k # n + 1 /\ owner \in DOMAIN rest
  <2>1. /\ poller' = [channels |-> poller'.channels, pollfds |-> poller'.pollfds,
                      index |-> poller'.index, crashed |-> poller'.crashed]
        /\ poller'.channels = rest
        /\ poller'.index = [poller.index EXCEPT ![rest[owner]] = k - 1]
        /\ poller'.crashed = poller.crashed
        /\ poller'.pollfds = SubSeq([poller.pollfds EXCEPT ![k] = poller.pollfds[n + 1]],
                                    1, n)
    <3>1. k - 1 = poller.index[c] /\ k - 1 # n /\ (k - 1) + 1 = k
      BY <1>3, <1>6
    <3>2. /\ poller' = [channels |-> poller'.channels, pollfds |-> poller'.pollfds,
                        index |-> poller'.index, crashed |-> poller'.crashed]
          /\ poller'.channels = rest
          /\ poller'.index = [poller.index EXCEPT ![rest[owner]] = k - 1]
          /\ poller'.crashed = poller.crashed
          /\ poller'.pollfds =
               SubSeq([poller.pollfds EXCEPT ![(k - 1) + 1] = poller.pollfds[n + 1]], 1, n)
      <4>1. owner \in DOMAIN Without(poller.channels, fd_[c])
        BY <1>6 DEF rest
      <4>2. n = Len(poller.pollfds) - 1 /\ owner = poller.pollfds[n + 1].fd
        OBVIOUS
      <4> HIDE DEF k, n, owner
      <4>3. /\ poller' = [channels |-> poller'.channels, pollfds |-> poller'.pollfds,
                          index |-> poller'.index, crashed |-> poller'.crashed]
            /\ poller'.channels = Without(poller.channels, fd_[c])
            /\ poller'.index =
                 [poller.index EXCEPT ![Without(poller.channels, fd_[c])[owner]] = k - 1]
            /\ poller'.crashed = poller.crashed
            /\ poller'.pollfds =
                 SubSeq([poller.pollfds EXCEPT ![(k - 1) + 1] = poller.pollfds[n + 1]], 1, n)
        BY <1>1, <1>2, <3>1, <4>1, <4>2 DEF PollerShape, RemoveEntry, LookupMoved, NewIndex
      <4> QED BY <4>3 DEF rest
    <3> HIDE DEF k, n, owner
    <3> QED BY <3>1, <3>2
  <2>2. /\ poller'.pollfds \in Seq(Entries)
        /\ Len(poller'.pollfds) = n
        /\ \A i \in 1 .. n : poller'.pollfds[i]
               = IF i = k THEN poller.pollfds[n + 1] ELSE poller.pollfds[i]
    <3> HIDE DEF n, k
    <3>1. k \in 1 .. n /\ n \in Nat /\ Len(poller.pollfds) = n + 1
      BY <1>3, <1>6
    <3>2. poller'.pollfds = SubSeq([poller.pollfds EXCEPT ![k] = poller.pollfds[n + 1]], 1, n)
      BY <2>1
    <3>3. poller.pollfds \in Seq(Entries)
      BY <1>1
    <3> QED BY <3>1, <3>2, <3>3, SwapAndPop
  <2>3. poller.pollfds[n + 1] \in Entries
        /\ owner \in DOMAIN poller.channels /\ owner \in Nat
        /\ owner = Owner(poller.pollfds[n + 1])
    <3>1. poller.pollfds[n + 1] \in Entries
      BY <1>3, EntryOwner
    <3>2. owner \in DOMAIN poller.channels
      BY <1>4, <1>6
    <3>3. owner \in Nat
      BY <3>2, FdsAssumption DEF PollerInv, TypeOK, PollerType
    <3> QED BY <3>1, <3>2, <3>3 DEF Owner
  <2>4. rest[owner] \in Channels /\ rest[owner] = poller.channels[owner]
    BY <1>4, <1>6, <2>3
  <2>5. poller'.index \in [Channels -> Nat]
    BY <1>1, <1>3, <2>1, <2>4
  <2>6. ASSUME NEW f \in DOMAIN rest
        PROVE  poller'.index[poller.channels[f]] =
                IF f = owner THEN k - 1 ELSE poller.index[poller.channels[f]]
    <3>1. CASE f = owner
      BY <1>1, <2>1, <2>4, <3>1
    <3>2. CASE f # owner
      <4>1. poller.channels[f] # poller.channels[owner]
        BY <1>4, <2>3, <3>2 DEF PollerInv, MapHoldsOwners
      <4>2. poller.channels[f] \in Channels
        BY <1>4
      <4> QED BY <1>1, <2>1, <2>4, <3>2, <4>1, <4>2
    <3> QED BY <3>1, <3>2
  <2>7. RemoveSucceeds(c)
    BY <1>4, <1>6, <2>1, <2>2, <2>3, <2>5, <2>6 DEF RemoveSucceeds, rest
  <2> QED BY <2>1, <2>7 DEF PollerShape
<1>7. CASE k # n + 1 /\ owner \notin DOMAIN rest
  <2>1. poller' = [poller EXCEPT !.crashed = TRUE]
    <3>1. poller.index[c] # Len(poller.pollfds) - 1
      BY <1>3, <1>7
    <3> QED BY <1>7, <3>1 DEF RemoveEntry, LookupMoved, rest
  <2>2. /\ poller.pollfds[n + 1] \in Entries
        /\ Owner(poller.pollfds[n + 1]) \in DOMAIN poller.channels
        /\ poller.index[poller.channels[Owner(poller.pollfds[n + 1])]] = (n + 1) - 1
    BY <1>3, EntryOwner
  <2>3. Owner(poller.pollfds[n + 1]) # fd_[c]
    BY <1>2, <1>3, <1>7, <2>2
  <2>4. Owner(poller.pollfds[n + 1]) \in DOMAIN rest
    BY <1>4, <2>2, <2>3
  <2>5. owner < 0
    BY <1>7, <2>2, <2>4 DEF Owner, Entries
  <2>6. RemoveCrashes(c)
    BY <1>3, <1>7, <2>1, <2>5 DEF RemoveCrashes
  <2>7. PollerShape'
    BY <1>1, <2>1 DEF PollerShape
  <2> QED BY <2>6, <2>7
<1> QED BY <1>5, <1>6, <1>7

(* removeChannel keeps the invariant, also when it crashes. *)
LEMMA RemoveKeeps ==
    ASSUME PollerInv, NEW c \in live, Registered(poller, fd_[c]),
           poller' = RemoveEntry(poller, c, fd_[c]),
           UNCHANGED <<live, fd_, events_, bare>>
    PROVE  PollerInv'
<1>1. CASE RemoveCrashes(c)
  <2>1. /\ poller'.channels = poller.channels /\ poller'.pollfds = poller.pollfds
        /\ poller'.index = poller.index /\ poller'.crashed = TRUE
    BY <1>1 DEF RemoveCrashes, PollerInv, PollerShape
  <2>2. poller'.crashed \in BOOLEAN
    BY <2>1
  <2>3. TypeOK'
    BY <2>1, <2>2 DEF PollerInv, TypeOK, PollerType
  <2>4. DistinctFds' /\ MapHoldsOwners'
    BY <2>1 DEF PollerInv, DistinctFds, MapHoldsOwners
  <2>5. IndexConsistent'
    BY <2>1 DEF PollerInv, IndexConsistent, Consistent
  <2>6. EntriesMatchEvents'
    <3> SUFFICES ASSUME NEW i \in 1 .. Len(poller.pollfds)
                 PROVE  LET e == poller.pollfds[i]
                            d == poller.channels[Owner(e)]
                        IN  /\ e.events = events_[d]
                            /\ e.fd < 0 <=> events_[d] = {} /\ d \notin bare
      <4>1. events_' = events_ /\ poller'.channels = poller.channels
            /\ poller'.pollfds = poller.pollfds
        BY <2>1
      <4> QED BY <4>1 DEF EntriesMatchEvents
    <3> QED BY EntryOwner
  <2> QED BY <2>3, <2>4, <2>5, <2>6, RemoveOutcome DEF PollerInv
<1>2. CASE RemoveSucceeds(c)
  <2> DEFINE n == Len(poller.pollfds) - 1
             k == poller.index[c] + 1
             own(i) == Owner(poller.pollfds[i])
  <2>1. /\ DOMAIN poller'.channels = DOMAIN poller.channels \ {fd_[c]}
        /\ \A f \in DOMAIN poller'.channels : poller'.channels[f] = poller.channels[f]
        /\ poller'.pollfds \in Seq(Entries)
        /\ Len(poller'.pollfds) = n
        /\ \A i \in 1 .. n :
              poller'.pollfds[i] = IF i = k THEN poller.pollfds[n + 1] ELSE poller.pollfds[i]
        /\ poller'.index \in [Channels -> Nat]
        /\ \A f \in DOMAIN poller'.channels :
              poller'.index[poller.channels[f]] =
                IF k # n + 1 /\ f = own(n + 1) THEN k - 1 ELSE poller.index[poller.channels[f]]
        /\ poller'.crashed = poller.crashed
    BY <1>2 DEF RemoveSucceeds
  <2>2. /\ c \in Channels
        /\ fd_[c] \in DOMAIN poller.channels
        /\ poller.channels[fd_[c]] = c
        /\ k \in 1 .. Len(poller.pollfds)
        /\ own(k) = fd_[c]
    BY RegisteredItself DEF Registered
  <2>3. /\ n \in Nat /\ k \in 1 .. n + 1 /\ Len(poller.pollfds) = n + 1
        /\ poller.index[c] = k - 1
    <3>1. Len(poller.pollfds) \in Nat /\ poller.index[c] \in Nat
      BY <2>2 DEF PollerInv, TypeOK, PollerType
    <3> QED BY <2>2, <3>1
  <2>4. \A i \in 1 .. n + 1 :
           /\ own(i) \in DOMAIN poller.channels
           /\ poller.index[poller.channels[own(i)]] = i - 1
           /\ poller.pollfds[i].events = events_[poller.channels[own(i)]]
           /\ poller.pollfds[i].fd < 0 <=> /\ events_[poller.channels[own(i)]] = {}
                                           /\ poller.channels[own(i)] \notin bare
    BY <2>3, EntryOwner
  <2>5. \A f \in DOMAIN poller.channels :
           /\ poller.channels[f] \in live
           /\ poller.channels[f] \in Channels
           /\ poller.index[poller.channels[f]] + 1 \in 1 .. n + 1
           /\ own(poller.index[poller.channels[f]] + 1) = f
    <3> SUFFICES ASSUME NEW f \in DOMAIN poller.channels
                 PROVE  /\ poller.channels[f] \in live
                        /\ poller.channels[f] \in Channels
                        /\ poller.index[poller.channels[f]] + 1 \in 1 .. n + 1
                        /\ own(poller.index[poller.channels[f]] + 1) = f
      OBVIOUS
    <3>1. poller.channels[f] \in live /\ poller.channels[f] \in Channels
      BY DEF PollerInv, MapHoldsOwners, TypeOK
    <3>2. poller.index[poller.channels[f]] \in Nat
      BY <3>1 DEF PollerInv, TypeOK, PollerType
    <3>3. poller.index[poller.channels[f]] < Len(poller.pollfds)
          /\ own(poller.index[poller.channels[f]] + 1) = f
      BY DEF PollerInv, IndexConsistent, Consistent
    <3> QED BY <2>3, <3>1, <3>2, <3>3
  <2> HIDE DEF n, k, own
  <2>6. \A i \in 1 .. n : /\ poller'.pollfds[i].events
                               = IF i = k THEN poller.pollfds[n + 1].events
                                          ELSE poller.pollfds[i].events
                          /\ Owner(poller'.pollfds[i]) = IF i = k THEN own(n + 1) ELSE own(i)
    BY <2>1 DEF own
  <2>7. TypeOK'
    <3>1. poller'.pollfds \in Seq([fd : Int, events : SUBSET Events])
      BY <2>1 DEF Entries
    <3>2. /\ DOMAIN poller'.channels \in SUBSET Fds
          /\ poller'.channels \in [DOMAIN poller'.channels -> Channels]
      <4>1. poller'.channels = [f \in DOMAIN poller.channels \ {fd_[c]} |-> poller.channels[f]]
        BY <1>2 DEF RemoveSucceeds, Without
      <4>2. DOMAIN poller.channels \in SUBSET Fds
        BY DEF PollerInv, TypeOK, PollerType
      <4> QED BY <2>1, <2>5, <4>1, <4>2
    <3>3. PollerType'
      BY <2>1, <3>1, <3>2 DEF PollerInv, TypeOK, PollerType
    <3> QED BY <3>3 DEF PollerInv, TypeOK
  <2>8. DistinctFds' /\ MapHoldsOwners'
    BY <2>1 DEF PollerInv, DistinctFds, MapHoldsOwners
  <2>9. ASSUME NEW i \in 1 .. n
        PROVE  /\ Owner(poller'.pollfds[i]) \in DOMAIN poller'.channels
               /\ poller'.index[poller.channels[Owner(poller'.pollfds[i])]] = i - 1
    <3>1. CASE i = k
      <4>1. Owner(poller'.pollfds[i]) = own(n + 1) /\ k # n + 1
        BY <2>3, <2>6, <3>1
      <4>2. own(n + 1) \in DOMAIN poller.channels
            /\ poller.index[poller.channels[own(n + 1)]] = n
        BY <2>3, <2>4
      <4>3. own(n + 1) # fd_[c]
        BY <2>2, <2>3, <4>1, <4>2
      <4> QED BY <2>1, <3>1, <4>1, <4>2, <4>3
    <3>2. CASE i # k
      <4>1. Owner(poller'.pollfds[i]) = own(i)
        BY <2>6, <3>2
      <4>2. own(i) \in DOMAIN poller.channels
            /\ poller.index[poller.channels[own(i)]] = i - 1
        BY <2>3, <2>4
      <4>3. own(i) # fd_[c]
        BY <2>2, <2>3, <3>2, <4>2
      <4>4. own(i) # own(n + 1)
        BY <2>3, <2>4, <4>2
      <4> QED BY <2>1, <4>1, <4>2, <4>3, <4>4
    <3> QED BY <3>1, <3>2
  <2>10. ASSUME NEW f \in DOMAIN poller'.channels
         PROVE  /\ poller'.index[poller.channels[f]] < n
                /\ Owner(poller'.pollfds[poller'.index[poller.channels[f]] + 1]) = f
    <3>0. f \in DOMAIN poller.channels /\ f # fd_[c]
      BY <2>1
    <3>1. CASE k # n + 1 /\ f = own(n + 1)
      <4>1. poller'.index[poller.channels[f]] = k - 1 /\ k \in 1 .. n
        BY <2>1, <2>3, <3>1
      <4>2. Owner(poller'.pollfds[k]) = own(n + 1)
        BY <2>6, <4>1
      <4> QED BY <2>3, <3>1, <4>1, <4>2
    <3>2. CASE ~(k # n + 1 /\ f = own(n + 1))
      <4> DEFINE j == poller.index[poller.channels[f]] + 1
      <4>1. poller'.index[poller.channels[f]] = poller.index[poller.channels[f]]
        BY <2>1, <3>2
      <4>2. j \in 1 .. n + 1 /\ own(j) = f /\ poller.index[poller.channels[f]] = j - 1
        <5>1. poller.index[poller.channels[f]] \in Nat
          BY <2>5, <3>0 DEF PollerInv, TypeOK, PollerType
        <5> QED BY <2>5, <3>0, <5>1
      <4> HIDE DEF j
      <4>3. j # k
        BY <2>2, <3>0, <4>2
      <4>4. j # n + 1
        BY <2>3, <3>2, <4>2, <4>3
      <4>5. j \in 1 .. n /\ Owner(poller'.pollfds[j]) = f
        BY <2>3, <2>6, <4>2, <4>3, <4>4
      <4> QED BY <2>3, <4>1, <4>2, <4>5
    <3> QED BY <3>1, <3>2
  <2>11. IndexConsistent'
    BY <2>1, <2>9, <2>10 DEF IndexConsistent, Consistent
  <2>12. EntriesMatchEvents'
    <3> SUFFICES ASSUME NEW i \in 1 .. n
                 PROVE  LET e == poller'.pollfds[i]
                            d == poller'.channels[Owner(e)]
                        IN  /\ e.events = events_[d]
                            /\ e.fd < 0 <=> events_[d] = {} /\ d \notin bare
      BY <2>1 DEF EntriesMatchEvents
    <3>0. i \in 1 .. n + 1 /\ n + 1 \in 1 .. n + 1
      BY ONLY <2>3
    <3>1. PICK j \in 1 .. n + 1 : poller'.pollfds[i] = poller.pollfds[j]
      <4>1. poller'.pollfds[i] = IF i = k THEN poller.pollfds[n + 1] ELSE poller.pollfds[i]
        BY ONLY <2>1
      <4> QED BY ONLY <3>0, <4>1
    <3>2. Owner(poller'.pollfds[i]) = own(j)
      BY <3>1 DEF own
    <3>3. poller'.channels[own(j)] = poller.channels[own(j)]
      BY <2>1, <2>9, <3>2
    <3> QED BY <2>4, <3>1, <3>2, <3>3
  <2> QED BY <2>7, <2>8, <2>11, <2>12, RemoveOutcome DEF PollerInv
<1> QED BY <1>1, <1>2, RemoveOutcome

(* A channel that is not registered is destroyed. *)
LEMMA DestroyKeeps ==
    ASSUME PollerInv, NEW c \in live, Destroy(c)
    PROVE  PollerInv'
<1>1. MapHoldsOwners'
  <2>1. \A f \in DOMAIN poller.channels : poller.channels[f] # c
    BY DEF PollerInv, MapHoldsOwners, Destroy, Registered
  <2> QED BY <2>1 DEF PollerInv, MapHoldsOwners, Destroy
<1>2. TypeOK' /\ PollerShape' /\ DistinctFds'
  BY DEF PollerInv, TypeOK, PollerType, PollerShape, DistinctFds, Destroy
<1>3. IndexConsistent'
  BY DEF PollerInv, IndexConsistent, Consistent, Destroy
<1>4. EntriesMatchEvents'
  <2> SUFFICES ASSUME NEW i \in 1 .. Len(poller.pollfds)
               PROVE  LET e == poller.pollfds[i]
                          d == poller.channels[Owner(e)]
                      IN  /\ e.events = events_[d]
                          /\ e.fd < 0 <=> events_[d] = {} /\ d \notin bare'
    BY DEF Destroy, EntriesMatchEvents
  <2>1. Owner(poller.pollfds[i]) \in DOMAIN poller.channels
    BY EntryOwner
  <2>2. poller.channels[Owner(poller.pollfds[i])] # c /\ bare' = bare \ {c}
    BY <2>1 DEF PollerInv, MapHoldsOwners, Destroy, Registered
  <2> QED BY <2>2, EntryOwner
<1> QED BY <1>1, <1>2, <1>3, <1>4 DEF PollerInv

(* Channel::update keeps the invariant. *)
LEMMA SetEventsKeeps ==
    ASSUME PollerInv, NEW c \in live, NEW events \in SUBSET Events, SetEvents(c, events)
    PROVE  PollerInv'
  BY UpdateKeeps, InsertKeeps

(* Every call keeps the invariant. *)
LEMMA PollerInvNext == PollerInv /\ [Next]_vars => PollerInv'
<1> SUFFICES ASSUME PollerInv, [Next]_vars PROVE PollerInv'
  OBVIOUS
<1>1. CASE UNCHANGED vars
  BY <1>1 DEF vars, PollerInv, TypeOK, PollerType, PollerShape, DistinctFds,
              IndexConsistent, Consistent, MapHoldsOwners, EntriesMatchEvents
<1>2. ASSUME NEW c \in Channels, NEW fd \in Fds, Construct(c, fd)
      PROVE  PollerInv'
  BY <1>2, ConstructKeeps
<1>3. ASSUME NEW c \in Channels, NEW e \in Events, Enable(c, e)
      PROVE  PollerInv'
  <2>1. c \in live /\ events_[c] \cup {e} \in SUBSET Events /\ SetEvents(c, events_[c] \cup {e})
    BY <1>3 DEF Enable, PollerInv, TypeOK
  <2> QED BY <2>1, SetEventsKeeps
<1>4. ASSUME NEW c \in Channels, NEW e \in Events, Disable(c, e)
      PROVE  PollerInv'
  <2>1. c \in live /\ events_[c] \ {e} \in SUBSET Events /\ SetEvents(c, events_[c] \ {e})
    BY <1>4 DEF Disable, PollerInv, TypeOK
  <2> QED BY <2>1, SetEventsKeeps
<1>5. ASSUME NEW c \in Channels, DisableAll(c)
      PROVE  PollerInv'
  <2>1. c \in live /\ {} \in SUBSET Events /\ SetEvents(c, {})
    BY <1>5 DEF DisableAll
  <2> QED BY <2>1, SetEventsKeeps
<1>6. ASSUME NEW c \in Channels, Remove(c)
      PROVE  PollerInv'
  <2>1. c \in live /\ UNCHANGED <<live, fd_, events_, bare>>
        /\ poller' = RemoveChannel(poller, c, fd_[c])
    BY <1>6 DEF Remove
  <2>2. CASE Registered(poller, fd_[c])
    BY <2>1, <2>2, RemoveKeeps DEF RemoveChannel
  <2>3. CASE ~Registered(poller, fd_[c])
    BY <1>1, <2>1, <2>3 DEF RemoveChannel, vars
  <2> QED BY <2>2, <2>3
<1>7. ASSUME NEW c \in Channels, Destroy(c)
      PROVE  PollerInv'
  BY <1>7, DestroyKeeps DEF Destroy
<1> QED BY <1>1, <1>2, <1>3, <1>4, <1>5, <1>6, <1>7 DEF Next

(* For any number of channels and descriptors: the types, and that every   *)
(* registered channel finds its own entry at its own index_.               *)
THEOREM PollerInvariant == Spec => []PollerInv
<1>1. Init => PollerInv
  BY PollerInvInit
<1>2. PollerInv /\ [Next]_vars => PollerInv'
  BY PollerInvNext
<1> QED BY <1>1, <1>2, PTL DEF Spec

(* The types of the poller's state, for any number of channels. *)
THEOREM TypeCorrect == Spec => []TypeOK
<1>1. PollerInv => TypeOK
  BY DEF PollerInv
<1> QED BY <1>1, PollerInvariant, PTL

(* updateChannel and removeChannel, which trust index_, never touch the    *)
(* entry of another channel.                                               *)
THEOREM IndexCorrect == Spec => []IndexConsistent
<1>1. PollerInv => IndexConsistent
  BY DEF PollerInv
<1> QED BY <1>1, PollerInvariant, PTL

(* ::poll is asked for exactly what the registered channels want. *)
THEOREM EntriesCorrect == Spec => []EntriesMatchEvents
<1>1. PollerInv => EntriesMatchEvents
  BY DEF PollerInv
<1> QED BY <1>1, PollerInvariant, PTL

-----------------------------------------------------------------------------
(* Only removeChannel sets the flag. *)
LEMMA OthersDoNotCrash ==
    ASSUME PollerInv, NEW c \in live, NEW events, SetEvents(c, events)
    PROVE  poller'.crashed = poller.crashed
<1>1. TypeOK /\ PollerShape /\ c \in Channels
  BY DEF PollerInv, TypeOK
<1>2. CASE Registered(poller, fd_[c])
  <2>1. poller' = UpdateEntry(poller, c, fd_[c], events)
    BY <1>2 DEF SetEvents, UpdateChannel
  <2> QED BY <1>1, <2>1 DEF UpdateEntry, PollerShape
<1>3. CASE ~Registered(poller, fd_[c])
  <2>1. poller' = InsertEntry(poller, c, fd_[c], events)
    BY <1>3 DEF SetEvents, UpdateChannel
  <2> QED BY <1>1, <2>1 DEF InsertEntry, PollerShape
<1> QED BY <1>2, <1>3

(* A step that ends in the null pointer is a removeChannel while another   *)
(* registered channel is hidden: the last entry holds a negative fd.       *)
LEMMA CrashStep ==
    ASSUME PollerInv, Next, poller'.crashed
    PROVE  \E c, d \in live : /\ c # d
                              /\ Remove(c)
                              /\ Registered(poller, fd_[d])
                              /\ events_[d] = {} /\ d \notin bare
<1>1. poller.crashed = FALSE
  BY DEF Next, Construct, Enable, Disable, DisableAll, Remove, Destroy, Running,
         PollerInv, TypeOK, PollerType
<1>2. ASSUME NEW c \in Channels, NEW fd \in Fds, Construct(c, fd) PROVE FALSE
  BY <1>1, <1>2 DEF Construct, PollerInv, PollerShape
<1>3. ASSUME NEW c \in live, NEW events, SetEvents(c, events) PROVE FALSE
  BY <1>1, <1>3, OthersDoNotCrash
<1>4. ASSUME NEW c \in Channels, Destroy(c) PROVE FALSE
  BY <1>1, <1>4 DEF Destroy
<1>5. PICK c \in Channels : Remove(c)
  BY <1>2, <1>3, <1>4 DEF Next, Enable, Disable, DisableAll
<1>6. c \in live /\ poller' = RemoveChannel(poller, c, fd_[c])
  BY <1>5 DEF Remove
<1>7. Registered(poller, fd_[c]) /\ poller' = RemoveEntry(poller, c, fd_[c])
  BY <1>1, <1>6 DEF RemoveChannel
<1>8. RemoveCrashes(c)
  BY <1>1, <1>6, <1>7, RemoveOutcome DEF RemoveSucceeds
<1> DEFINE n == Len(poller.pollfds)
           d == poller.channels[Owner(poller.pollfds[n])]
<1>9. n \in Nat /\ n \in 1 .. n /\ poller.index[c] # n - 1 /\ poller.pollfds[n].fd < 0
  <2>1. poller.index[c] + 1 \in 1 .. n /\ n \in Nat /\ poller.index[c] \in Nat
    BY <1>6, <1>7, RegisteredItself DEF PollerInv, TypeOK, PollerType
  <2>2. poller.index[c] # n - 1 /\ poller.pollfds[(n - 1) + 1].fd < 0
    BY <1>8 DEF RemoveCrashes
  <2> QED BY <2>1, <2>2
<1>10. /\ d \in live /\ fd_[d] = Owner(poller.pollfds[n])
       /\ Owner(poller.pollfds[n]) \in DOMAIN poller.channels
       /\ poller.index[d] = n - 1
       /\ events_[d] = {} /\ d \notin bare
  BY <1>9, EntryOwner
<1>11. c # d /\ Registered(poller, fd_[d])
  BY <1>9, <1>10 DEF Registered
<1> QED BY <1>5, <1>6, <1>10, <1>11

(* removeChannel dereferences the null pointer in one situation only. *)
THEOREM CrashCorrect == Spec => CrashNeedsHiddenChannel
<1>1. PollerInv /\ [Next]_vars =>
        [poller'.crashed =>
           \E c, d \in live : /\ c # d
                              /\ Remove(c)
                              /\ Registered(poller, fd_[d])
                              /\ events_[d] = {} /\ d \notin bare]_vars
  BY CrashStep
<1> QED BY <1>1, PollerInvariant, PTL DEF Spec, CrashNeedsHiddenChannel

-----------------------------------------------------------------------------
(* The refinement of InterestSet.  Two entries are never for the same      *)
(* descriptor, and one that ::poll looks at holds the descriptor itself.   *)
LEMMA OneEntryEach ==
    ASSUME PollerInv
    PROVE  /\ \A i, j \in 1 .. Len(poller.pollfds) :
                Owner(poller.pollfds[i]) = Owner(poller.pollfds[j]) => i = j
           /\ \A i \in 1 .. Len(poller.pollfds) :
                poller.pollfds[i].fd >= 0 => Owner(poller.pollfds[i]) = poller.pollfds[i].fd
<1>1. \A i \in 1 .. Len(poller.pollfds) :
         poller.index[poller.channels[Owner(poller.pollfds[i])]] = i - 1
  BY EntryOwner
<1>2. ASSUME NEW i \in 1 .. Len(poller.pollfds), NEW j \in 1 .. Len(poller.pollfds),
             Owner(poller.pollfds[i]) = Owner(poller.pollfds[j])
      PROVE  i = j
  <2>1. i - 1 = j - 1
    BY <1>1, <1>2
  <2>2. i \in Int /\ j \in Int
    OBVIOUS
  <2> QED BY <2>1, <2>2
<1> QED BY <1>2 DEF Owner

(* The set is described by its elements. *)
LEMMA WatchedElement ==
    \A w : w \in Watched <=> \E i \in 1 .. Len(poller.pollfds) :
                               poller.pollfds[i].fd >= 0 /\ w = poller.pollfds[i]
  BY DEF Watched

(* The same after a step. *)
LEMMA WatchedElementNext ==
    \A w : w \in Watched' <=> \E i \in 1 .. Len(poller'.pollfds) :
                                poller'.pollfds[i].fd >= 0 /\ w = poller'.pollfds[i]
  BY DEF Watched

(* updateChannel of a registered channel changes what is watched for its   *)
(* descriptor, or hides it.                                                *)
LEMMA UpdateWatches ==
    ASSUME PollerInv, NEW c \in live, Registered(poller, fd_[c]),
           NEW events \in SUBSET Events, SetEvents(c, events)
    PROVE  Watched' = {w \in Watched : w.fd # fd_[c]} \cup
                      (IF events = {} THEN {} ELSE {[fd |-> fd_[c], events |-> events]})
<1> DEFINE k == poller.index[c] + 1
           new == [fd |-> IF events = {} THEN Ignored(fd_[c]) ELSE fd_[c],
                   events |-> events]
<1>1. /\ c \in Channels
      /\ k \in 1 .. Len(poller.pollfds)
      /\ Owner(poller.pollfds[k]) = fd_[c]
      /\ fd_[c] \in Nat
  BY RegisteredItself, FdsAssumption DEF PollerInv, TypeOK
<1>2. poller'.pollfds = [poller.pollfds EXCEPT ![k] = new]
  <2>1. poller' = UpdateEntry(poller, c, fd_[c], events)
    BY DEF SetEvents, UpdateChannel
  <2> QED BY <1>1, <2>1 DEF UpdateEntry, PollerInv, PollerShape
<1>3. new \in Entries /\ (new.fd >= 0 <=> events # {})
      /\ (events # {} => new = [fd |-> fd_[c], events |-> events])
  BY <1>1 DEF Entries, Ignored
<1> HIDE DEF k, new
<1>4. /\ Len(poller'.pollfds) = Len(poller.pollfds)
      /\ \A i \in 1 .. Len(poller.pollfds) :
            poller'.pollfds[i] = IF i = k THEN new ELSE poller.pollfds[i]
  <2>1. poller.pollfds \in Seq(Entries)
    BY DEF PollerInv, TypeOK, PollerType, Entries
  <2> QED BY <1>1, <1>2, <1>3, <2>1, ExceptSeq
<1>5. ASSUME NEW w \in Watched'
      PROVE  \/ w \in Watched /\ w.fd # fd_[c]
             \/ events # {} /\ w = [fd |-> fd_[c], events |-> events]
  <2>1. PICK i \in 1 .. Len(poller.pollfds) :
           poller'.pollfds[i].fd >= 0 /\ w = poller'.pollfds[i]
    BY <1>4, <1>5, WatchedElementNext
  <2>2. CASE i = k
    BY <1>3, <1>4, <2>1, <2>2
  <2>3. CASE i # k
    <3>1. poller'.pollfds[i] = poller.pollfds[i]
      BY <1>4, <2>3
    <3>2. w.fd # fd_[c]
      BY <1>1, <2>1, <2>3, <3>1, OneEntryEach
    <3> QED BY <2>1, <3>1, <3>2, WatchedElement
  <2> QED BY <2>2, <2>3
<1>6. ASSUME NEW w \in Watched, w.fd # fd_[c]
      PROVE  w \in Watched'
  <2>1. PICK i \in 1 .. Len(poller.pollfds) :
           poller.pollfds[i].fd >= 0 /\ w = poller.pollfds[i]
    BY <1>6, WatchedElement
  <2>2. i # k
    BY <1>1, <1>6, <2>1, OneEntryEach
  <2>3. poller'.pollfds[i] = w
    BY <1>4, <2>1, <2>2
  <2> QED BY <1>4, <2>1, <2>3, WatchedElementNext
<1>7. ASSUME events # {}
      PROVE  [fd |-> fd_[c], events |-> events] \in Watched'
  BY <1>1, <1>3, <1>4, <1>7, WatchedElementNext
<1> QED BY <1>5, <1>6, <1>7

(* updateChannel of a channel that is not registered adds it. *)
LEMMA InsertWatches ==
    ASSUME PollerInv, NEW c \in live, ~Registered(poller, fd_[c]),
           NEW events \in SUBSET Events, SetEvents(c, events)
    PROVE  Watched' = {w \in Watched : w.fd # fd_[c]} \cup
                      {[fd |-> fd_[c], events |-> events]}
<1> DEFINE n == Len(poller.pollfds)
           new == [fd |-> fd_[c], events |-> events]
<1>1. c \in Channels /\ fd_[c] \in Nat /\ fd_[c] \notin DOMAIN poller.channels
  BY FdsAssumption DEF PollerInv, TypeOK, Registered
<1>2. poller'.pollfds = Append(poller.pollfds, new)
  <2>1. poller' = InsertEntry(poller, c, fd_[c], events)
    BY DEF SetEvents, UpdateChannel
  <2> QED BY <1>1, <2>1 DEF InsertEntry, PollerInv, PollerShape
<1>3. new \in Entries /\ new.fd >= 0
  BY <1>1 DEF Entries
<1> HIDE DEF new
<1>4. /\ Len(poller'.pollfds) = n + 1 /\ n \in Nat
      /\ poller'.pollfds[n + 1] = new
      /\ \A i \in 1 .. n : poller'.pollfds[i] = poller.pollfds[i]
  <2>1. poller.pollfds \in Seq(Entries)
    BY DEF PollerInv, TypeOK, PollerType, Entries
  <2> QED BY <1>2, <1>3, <2>1, AppendProperties, LenProperties
<1>5. \A w \in Watched : w.fd # fd_[c]
  <2>1. ASSUME NEW i \in 1 .. Len(poller.pollfds), poller.pollfds[i].fd >= 0
        PROVE  poller.pollfds[i].fd \in DOMAIN poller.channels
    BY <2>1, OneEntryEach, EntryOwner
  <2> QED BY <1>1, <2>1, WatchedElement
<1> HIDE DEF n
<1>6. ASSUME NEW w
      PROVE  w \in Watched' <=> w \in Watched \/ w = new
  <2>1. w \in Watched' <=> \E i \in 1 .. n + 1 :
                               poller'.pollfds[i].fd >= 0 /\ w = poller'.pollfds[i]
    BY <1>4, WatchedElementNext
  <2>2. w \in Watched <=> \E i \in 1 .. n :
                              poller.pollfds[i].fd >= 0 /\ w = poller.pollfds[i]
    BY WatchedElement DEF n
  <2>3. 1 .. n + 1 = (1 .. n) \cup {n + 1}
    BY <1>4
  <2> QED BY <1>3, <1>4, <2>1, <2>2, <2>3
<1> QED BY <1>5, <1>6 DEF new

(* removeChannel stops watching the channel's descriptor, or crashes. *)
LEMMA RemoveWatches ==
    ASSUME PollerInv, NEW c \in live, Registered(poller, fd_[c]),
           poller' = RemoveEntry(poller, c, fd_[c])
    PROVE  Watched' = Watched \/ Watched' = {w \in Watched : w.fd # fd_[c]}
<1>1. CASE RemoveCrashes(c)
  <2>1. poller'.pollfds = poller.pollfds
    BY <1>1 DEF RemoveCrashes, PollerInv, PollerShape
  <2> QED BY <2>1 DEF Watched
<1>2. CASE RemoveSucceeds(c)
  <2> DEFINE n == Len(poller.pollfds) - 1
             k == poller.index[c] + 1
  <2>1. /\ Len(poller'.pollfds) = n
        /\ \A i \in 1 .. n :
              poller'.pollfds[i] = IF i = k THEN poller.pollfds[n + 1] ELSE poller.pollfds[i]
    BY <1>2 DEF RemoveSucceeds
  <2>2. /\ c \in Channels
        /\ k \in 1 .. Len(poller.pollfds)
        /\ Owner(poller.pollfds[k]) = fd_[c]
    BY RegisteredItself
  <2>3. n \in Nat /\ Len(poller.pollfds) = n + 1
    <3>1. Len(poller.pollfds) \in Nat /\ poller.index[c] \in Nat
      BY <2>2 DEF PollerInv, TypeOK, PollerType
    <3> QED BY <2>2, <3>1
  <2> HIDE DEF n, k
  <2>4. \A i, j \in 1 .. n + 1 :
           Owner(poller.pollfds[i]) = Owner(poller.pollfds[j]) => i = j
    BY <2>3, OneEntryEach
  <2>5. \A i \in 1 .. n + 1 : poller.pollfds[i].fd >= 0 =>
           Owner(poller.pollfds[i]) = poller.pollfds[i].fd
    BY <2>3, OneEntryEach
  <2>6. ASSUME NEW w \in Watched'
        PROVE  w \in Watched /\ w.fd # fd_[c]
    <3>1. PICK i \in 1 .. n : poller'.pollfds[i].fd >= 0 /\ w = poller'.pollfds[i]
      BY <2>1, <2>6, WatchedElementNext
    <3>2. PICK j \in 1 .. n + 1 : w = poller.pollfds[j] /\ j # k
      BY <2>1, <2>3, <3>1
    <3>3. Owner(poller.pollfds[j]) # fd_[c]
      BY <2>2, <2>3, <2>4, <3>2
    <3> QED BY <2>3, <2>5, <3>1, <3>2, <3>3, WatchedElement
  <2>7. ASSUME NEW w \in Watched, w.fd # fd_[c]
        PROVE  w \in Watched'
    <3>1. PICK j \in 1 .. n + 1 : poller.pollfds[j].fd >= 0 /\ w = poller.pollfds[j]
      BY <2>3, <2>7, WatchedElement
    <3>2. j # k
      BY <2>2, <2>3, <2>5, <2>7, <3>1
    <3>3. PICK i \in 1 .. n : poller'.pollfds[i] = w
      BY <2>1, <2>2, <2>3, <3>1, <3>2
    <3> QED BY <2>1, <3>1, <3>3, WatchedElementNext
  <2> QED BY <2>6, <2>7
<1> QED BY <1>1, <1>2, RemoveOutcome

(* Whatever is swapped, appended or popped in pollfds_, each call changes  *)
(* what is watched for its own descriptor and for no other.                *)
THEOREM InterestRefined == Spec => RefinesInterest
<1>1. Init => Interest!InterestInit
  <2> SUFFICES ASSUME Init PROVE Watched = {}
    BY DEF Interest!InterestInit
  <2>1. Len(poller.pollfds) = 0
    BY EmptySeq DEF Init, EmptyPoller
  <2> QED BY <2>1, WatchedElement
<1>2. PollerInv /\ [Next]_vars => [Interest!InterestNext]_Watched
  <2> SUFFICES ASSUME PollerInv, [Next]_vars
               PROVE  Interest!InterestNext \/ Watched' = Watched
    OBVIOUS
  <2> USE DEF Interest!InterestNext, Interest!Ignore, Interest!WatchFor, Interest!Others
  <2>1. CASE poller'.pollfds = poller.pollfds
    BY <2>1 DEF Watched
  <2>2. ASSUME NEW c \in live, NEW events \in SUBSET Events, SetEvents(c, events)
        PROVE  Interest!InterestNext
    <3>1. fd_[c] \in Fds
      BY DEF PollerInv, TypeOK
    <3>2. \/ Watched' = {w \in Watched : w.fd # fd_[c]}
          \/ Watched' = {w \in Watched : w.fd # fd_[c]} \cup
                          {[fd |-> fd_[c], events |-> events]}
      BY <2>2, UpdateWatches, InsertWatches
    <3> QED BY <3>1, <3>2
  <2>3. ASSUME NEW c \in Channels, NEW e \in Events, Enable(c, e)
        PROVE  Interest!InterestNext
    <3>1. c \in live /\ events_[c] \cup {e} \in SUBSET Events /\ SetEvents(c, events_[c] \cup {e})
      BY <2>3 DEF Enable, PollerInv, TypeOK
    <3> QED BY ONLY <2>2, <3>1
  <2>4. ASSUME NEW c \in Channels, NEW e \in Events, Disable(c, e)
        PROVE  Interest!InterestNext
    <3>1. c \in live /\ events_[c] \ {e} \in SUBSET Events /\ SetEvents(c, events_[c] \ {e})
      BY <2>4 DEF Disable, PollerInv, TypeOK
    <3> QED BY ONLY <2>2, <3>1
  <2>5. ASSUME NEW c \in Channels, DisableAll(c)
        PROVE  Interest!InterestNext
    <3>1. c \in live /\ {} \in SUBSET Events /\ SetEvents(c, {})
      BY <2>5 DEF DisableAll
    <3> QED BY ONLY <2>2, <3>1
  <2>6. ASSUME NEW c \in Channels, Remove(c)
        PROVE  Interest!InterestNext \/ Watched' = Watched
    <3>1. c \in live /\ fd_[c] \in Fds /\ poller' = RemoveChannel(poller, c, fd_[c])
      BY <2>6 DEF Remove, PollerInv, TypeOK
    <3>2. CASE Registered(poller, fd_[c])
      BY <3>1, <3>2, RemoveWatches DEF RemoveChannel
    <3>3. CASE ~Registered(poller, fd_[c])
      BY <2>1, <3>1, <3>3 DEF RemoveChannel
    <3> QED BY <3>2, <3>3
  <2>7. ASSUME NEW c \in Channels, NEW fd \in Fds, Construct(c, fd)
        PROVE  Watched' = Watched
    BY <2>7 DEF Construct, Watched, PollerInv, PollerShape
  <2>8. ASSUME NEW c \in Channels, Destroy(c)
        PROVE  Watched' = Watched
    BY <2>8 DEF Destroy, Watched
  <2>9. CASE UNCHANGED vars
    BY <2>9 DEF vars, Watched
  <2> QED BY <2>3, <2>4, <2>5, <2>6, <2>7, <2>8, <2>9 DEF Next
<1> QED BY <1>1, <1>2, PollerInvariant, PTL
        DEF Spec, RefinesInterest, Interest!InterestSpec
=============================================================================
