---------------------------- MODULE ServerProofs ----------------------------
(***************************************************************************)
(* Proofs about TcpServer and Connector, for any number of connections,    *)
(* descriptors, loops, dials and users: that the remaining actions keep    *)
(* ServerInv, that the specifications do, and what follows from it.        *)
(***************************************************************************)
EXTENDS ServerActionProofs

-----------------------------------------------------------------------------
(* The actions of the Connector.                                           *)

(* What DialOK and AddressOK say of one dial. *)
DialHas(d) ==
    /\ Waits(d) => OpenDial(d) /\ ~dial[d].at_once
    /\ dial[d].sock \in {"connecting", "refused"} => Waits(d)
    /\ dial[d].sock = "connected" /\ ~Waits(d) => Under({"handleConnect", "newConnection"}, d)
    /\ OpenDial(d) => dial[d].fd \in Fds
AddressHas(d) ==
    dial[d].sock # "none" =>
        /\ dial[d].sock = "asked" \/ dial[d].at_once =>
              dial[d].addr = FromText(dial[d].target.text, PortDialled, dial[d].target.ipv6)
        /\ dial[d].at_once => dial[d].addr.family # "inet6"
        /\ dial[d].sock = "asked" => ~dial[d].at_once

(* Nobody else owns the descriptor of d. *)
SoleOwner(d) ==
    OpenDial(d) =>
        /\ \A x \in Dials : OpenDial(x) /\ dial[x].fd = dial[d].fd => x = d
        /\ \A c \in Conns : Linked(c) => conn[c].fd # dial[d].fd

(* The connections and the maps stay as they are. *)
ConnsPut ==
    /\ conn' = conn /\ connection_map_' = connection_map_ /\ thread_pool_' = thread_pool_
    /\ user' = user /\ peer' = peer /\ left' = left
    /\ connector'.loop = connector.loop

(* A step that is about one dial. *)
LEMMA OwnDialStep ==
    ASSUME Base, NEW d \in Dials, ConnsPut,
           \A x \in Dials : x # d => SameDial(x),
           \A m \in Loops, e \in Calls : e.c # d => (Has(todo', m, e) <=> Has(todo, m, e)),
           \A m \in Loops, e \in Calls : Has(todo', m, e) /\ e.c = d => CallOK(m, e)',
           DialMapOK', DialHas(d)', AddressHas(d)', SoleOwner(d)'
    PROVE  /\ \A c \in Conns : SameConn(c)
           /\ CallsOK' /\ ConnOK' /\ MapOK' /\ DialOK' /\ AddressOK' /\ FdOK' /\ UserOK'
<1>0. /\ conn' = conn /\ connection_map_' = connection_map_ /\ user' = user /\ left' = left
      /\ connector'.loop = connector.loop
  BY DEF ConnsPut
<1>1. d \notin Conns
  BY ServerAssumption
<1>2. \A c \in Conns : Dying(c)' <=> Dying(c)
  <2>1. \A c \in Conns : conn[c].loop \in Loops
    BY DEF Base, Types, ConnRec
  <2> QED BY <1>0, <1>1, <2>1 DEF Dying
<1>3. \A c \in Conns : SameConn(c)
  BY <1>0, <1>2 DEF SameConn, InMap
<1>4. \A c : Shared(c)' <=> Shared(c)
  BY <1>0 DEF Shared
<1>5. CallsOK'
  <2> SUFFICES ASSUME NEW m \in Loops, NEW e \in Calls, Has(todo', m, e), e.c # d PROVE CallOK(m, e)'
    BY DEF CallsOK
  <2>1. CallOK(m, e)
    BY DEF Base, CallsOK
  <2> QED BY <1>0, <1>3, <1>4, <2>1, CallFrame
<1>6. \A x \in Dials : x # d => (Under({"handleConnect", "newConnection"}, x)
                                   => Under({"handleConnect", "newConnection"}, x)')
  BY DEF Under
<1>7. ASSUME NEW c \in Conns
      PROVE  /\ Up(c)' => InMap(c)' /\ conn'[c].downs = 0 /\ "in" \in conn'[c].events
             /\ Down(c)' => conn'[c].events = {} /\ conn'[c].downs = 1
             /\ ~Made(c)' => conn'[c].events = {} /\ conn'[c].downs = 0
             /\ conn'[c].state = "connecting" => InMap(c)'
             /\ conn'[c].state = "none" => ~InMap(c)'
             /\ Linked(c)' <=> Linked(c)
  BY <1>3, ConnFrame DEF Base
<1>8. ConnOK'
  BY <1>7 DEF ConnOK
<1>9. MapOK'
  BY <1>0 DEF Base, MapOK
<1>10. ASSUME NEW x \in Dials PROVE DialHas(x)' /\ AddressHas(x)'
  <2>1. CASE x # d
    <3>1. SameDial(x) /\ DialHas(x) /\ AddressHas(x)
      BY <2>1 DEF Base, DialOK, AddressOK, DialHas, AddressHas
    <3> QED BY <1>6, <2>1, <3>1 DEF SameDial, DialHas, AddressHas, OpenDial
  <2> QED BY <2>1
<1>11. DialOK' /\ AddressOK'
  BY <1>10 DEF DialOK, AddressOK, DialHas, AddressHas
<1>12. FdOK'
  <2>0. /\ \A b, c \in Conns : Linked(b) /\ Linked(c) /\ conn[b].fd = conn[c].fd => b = c
        /\ \A x, e \in Dials : OpenDial(x) /\ OpenDial(e) /\ dial[x].fd = dial[e].fd => x = e
        /\ \A c \in Conns, x \in Dials : Linked(c) /\ OpenDial(x) => conn[c].fd # dial[x].fd
        /\ left.fails = 1 => \A c \in Conns : conn[c].state # "none" => conn[c].fd # BadFd
    BY DEF Base, FdOK
  <2>1. \A x \in Dials : x # d => (OpenDial(x)' <=> OpenDial(x)) /\ dial'[x] = dial[x]
    BY DEF SameDial, OpenDial
  <2>2. \A x \in Dials, e \in Dials : OpenDial(x)' /\ OpenDial(e)' /\ dial'[x].fd = dial'[e].fd => x = e
    BY <2>0, <2>1 DEF SoleOwner
  <2>3. \A c \in Conns, x \in Dials : Linked(c)' /\ OpenDial(x)' => conn'[c].fd # dial'[x].fd
    BY <1>0, <1>7, <2>0, <2>1 DEF SoleOwner
  <2>4. \A b, c \in Conns : Linked(b)' /\ Linked(c)' /\ conn'[b].fd = conn'[c].fd => b = c
    BY <1>0, <1>7, <2>0
  <2> QED BY <1>0, <2>0, <2>2, <2>3, <2>4 DEF FdOK
<1>13. UserOK'
  BY <1>0 DEF Base, UserOK, Made, Up, Down
<1> QED BY <1>3, <1>5, <1>8, <1>9, <1>11, <1>12, <1>13

(* The channels that are still to be handled, if d is not one of them. *)
LEMMA OwnDialActive ==
    ASSUME Base, NEW d \in Dials, ConnsPut, round' = round,
           \A x \in Dials : x # d => SameDial(x),
           \A m \in Loops, e \in Calls : e.c # d => (Has(todo', m, e) <=> Has(todo, m, e)),
           \A m \in Loops : \A j \in DOMAIN work'[m] :
              work'[m][j].c = d \/ \E i \in DOMAIN work[m] : work[m][i] = work'[m][j],
           \A m \in Loops : ActiveAt(m, d) => ActiveAt(m, d)'
    PROVE  ActiveOK'
<1>0. conn' = conn /\ connector'.loop = connector.loop /\ d \notin Conns
  BY ServerAssumption DEF ConnsPut
<1> SUFFICES ASSUME NEW m \in Loops, NEW i \in DOMAIN round'[m].active,
                    NEW c, c = round'[m].active[i].c
             PROVE  /\ \A j \in DOMAIN round'[m].active : round'[m].active[j].c = c => i = j
                    /\ ActiveAt(m, c)'
  BY ActiveNext
<1>1. /\ \A j \in DOMAIN round[m].active : round[m].active[j].c = c => i = j
      /\ ActiveAt(m, c)
  BY ActiveIs DEF Base
<1>2. CASE c = d
  BY <1>1, <1>2
<1>3. CASE c # d
  <2>1. c \in Conns => ActiveAt(m, c)'
    <3> SUFFICES ASSUME c \in Conns PROVE ActiveAt(m, c)'
      OBVIOUS
    <3>1. /\ Up(c) /\ conn[c].loop = m /\ c \notin Dials
          /\ \A j \in DOMAIN work[m] : work[m][j].c # c
      BY <1>1, ServerAssumption DEF ActiveAt
    <3>2. \A j \in DOMAIN work'[m] : work'[m][j].c # c
      BY <1>3, <3>1
    <3>3. Up(c)' /\ conn'[c].loop = m
      BY <1>0, <3>1 DEF Up
    <3> QED BY <3>1, <3>2, <3>3 DEF ActiveAt
  <2>2. c \in Dials => ActiveAt(m, c)'
    <3> SUFFICES ASSUME c \in Dials PROVE ActiveAt(m, c)'
      OBVIOUS
    <3>1. /\ Waits(c) /\ dial[c].sock \in {"connected", "refused"} /\ c \notin Conns
          /\ m = connector.loop /\ ~Under({"handleConnect"}, c)
      BY <1>1, ServerAssumption DEF ActiveAt
    <3>2. Waits(c)' /\ dial'[c] = dial[c]
      BY <1>3, <3>1 DEF SameDial
    <3>3. ~Under({"handleConnect"}, c)'
      BY <1>3, <3>1 DEF Under
    <3> QED BY <1>0, <3>1, <3>2, <3>3 DEF ActiveAt
  <2>3. c \notin Conns \cup Dials => ActiveAt(m, c)'
    BY DEF ActiveAt
  <2> QED BY <1>1, <2>1, <2>2, <2>3
<1> QED BY <1>2, <1>3

(* A dial for which no call is under way that moves it on has nothing to   *)
(* be called but error_cb_.                                                *)
LEMMA OnlyErrorCb ==
    ASSUME Base, NEW d \in Dials, NEW m \in Loops, NEW e \in Calls, Has(todo, m, e), e.c = d,
           e.fn \notin LifeFns
    PROVE  e.fn = "errorCb"
<1>1. CallOK(m, e) /\ d \notin Conns
  BY ServerAssumption DEF Base, CallsOK
<1> QED BY <1>1 DEF CallOK, DialFns, LifeFns

(* It relies on nothing that changes. *)
LEMMA ErrorCbStays ==
    ASSUME NEW m, NEW e, CallOK(m, e), e.fn = "errorCb", connector'.loop = connector.loop
    PROVE  CallOK(m, e)'
  BY DEF CallOK, DialFns

(* What a call for the dial d calls and queues is for d as well, ... *)
DialCalls(d, s, ts) ==
    /\ \A i \in DOMAIN s : s[i].c = d
    /\ \A t \in ts : t \in Calls /\ t.c = d /\ t.fn \in TaskFns

(* ... and what is to be called after it. *)
DialMembers(l, s, k, ts, d) ==
    /\ \A m \in Loops, e \in Calls : e.c # d => (Has(todo', m, e) <=> Has(todo, m, e))
    /\ \A m \in Loops, e \in Calls :
         Has(todo', m, e) => \/ Has(Pop(todo, l), m, e)
                             \/ m = l /\ \E i \in DOMAIN s : s[i] = e
                             \/ m = k /\ e \in ts
    /\ \A m \in Loops, e \in Calls : Has(Pop(todo, l), m, e) => Has(todo, m, e)
    /\ \A m \in Loops : \A j \in DOMAIN work'[m] :
         work'[m][j].c = d \/ \E i \in DOMAIN work[m] : work[m][i] = work'[m][j]
    /\ work' \in [Loops -> Seq(Calls)] /\ tasks' \in [Loops -> Seq(Calls)] /\ round' = round

(* A call for a dial returns. *)
LEMMA DialReturn ==
    ASSUME Base, NEW l \in Loops, work[l] # <<>>, NEW s \in Seq(Calls), NEW k, NEW ts,
           Steps(l, s, k, ts), Fits(work[l], s), NEW d \in Dials, d = Callee(l), DialCalls(d, s, ts)
    PROVE  StageOK' /\ OrderOK' /\ RestOK' /\ DialMembers(l, s, k, ts, d)
<1>1. Types /\ StageOK /\ OrderOK /\ RestOK
  BY DEF Base
<1>2. StageOK' /\ OrderOK' /\ RestOK'
  BY <1>1, StepsKeep DEF DialCalls
<1>3. todo \in Vectors /\ todo[l] # <<>> /\ Head(todo[l]) = Head(work[l]) /\ work \in Vectors
  BY <1>1, TodoIs
<1>4. \A m \in Loops, e \in Calls :
        /\ Has(Pop(todo, l), m, e) => Has(todo, m, e)
        /\ Has(todo, m, e) => Has(Pop(todo, l), m, e) \/ (m = l /\ e = Head(todo[l]))
  BY <1>3, HasPop
<1>5. \A m \in Loops, e \in Calls :
         Has(todo', m, e) <=> \/ Has(Pop(todo, l), m, e)
                              \/ m = l /\ \E i \in DOMAIN s : s[i] = e
                              \/ m = k /\ e \in ts
  BY DEF Steps
<1>6. \A m \in Loops, e \in Calls : e.c # d => (Has(todo', m, e) <=> Has(todo, m, e))
  <2>1. Head(todo[l]).c = d
    BY <1>3 DEF Callee
  <2> QED BY <1>4, <1>5, <2>1 DEF DialCalls
<1>7. ASSUME NEW m \in Loops, NEW j \in DOMAIN work'[m]
      PROVE  work'[m][j].c = d \/ \E i \in DOMAIN work[m] : work[m][i] = work'[m][j]
  <2>1. CASE m # l
    BY <1>7, <2>1 DEF Steps
  <2>2. CASE m = l
    <3>1. PICK w \in Seq(Calls) : w = work[l]
      BY <1>3 DEF Vectors
    <3>2. w # <<>> /\ Tail(w) \in Seq(Calls) /\ Len(Tail(w)) = Len(w) - 1 /\ Len(w) \in Nat
          /\ DOMAIN w = 1 .. Len(w) /\ \A i \in 1 .. Len(w) - 1 : Tail(w)[i] = w[i + 1]
      BY <3>1
    <3>3. PICK t \in Seq(Calls) : t = Tail(w)
      BY <3>2
    <3>4. /\ s \o t \in Seq(Calls) /\ Len(s \o t) = Len(s) + Len(t)
          /\ \A i \in 1 .. Len(s) + Len(t) :
                (s \o t)[i] = IF i <= Len(s) THEN s[i] ELSE t[i - Len(s)]
      <4>1. \A x, y \in Seq(Calls) :
               /\ x \o y \in Seq(Calls) /\ Len(x \o y) = Len(x) + Len(y)
               /\ \A i \in 1 .. Len(x) + Len(y) :
                     (x \o y)[i] = IF i <= Len(x) THEN x[i] ELSE y[i - Len(x)]
        BY ConcatProperties
      <4> QED BY <4>1
    <3>5. work'[l] = s \o t
      BY <3>1, <3>3 DEF Steps
    <3>6. j \in 1 .. Len(s) + Len(t) /\ Len(s) \in Nat /\ DOMAIN s = 1 .. Len(s) /\ Len(t) = Len(w) - 1
      BY <1>7, <2>2, <3>2, <3>3, <3>4, <3>5
    <3>7. CASE j <= Len(s)
      <4>1. j \in DOMAIN s
        BY <3>6, <3>7
      <4>2. work'[l][j] = s[j]
        BY <3>4, <3>5, <3>6, <3>7
      <4> QED BY <2>2, <4>1, <4>2 DEF DialCalls
    <3>8. CASE j > Len(s)
      <4>1. j - Len(s) \in 1 .. Len(w) - 1
        BY <3>2, <3>6, <3>8
      <4>2. work'[l][j] = t[j - Len(s)]
        BY <3>4, <3>5, <3>6, <3>8
      <4>3. t[j - Len(s)] = w[j - Len(s) + 1] /\ j - Len(s) + 1 \in DOMAIN w
        BY <3>2, <3>3, <4>1
      <4> QED BY <2>2, <3>1, <4>2, <4>3
    <3> QED BY <3>6, <3>7, <3>8
  <2> QED BY <2>1, <2>2
<1>8. work' \in [Loops -> Seq(Calls)] /\ tasks' \in [Loops -> Seq(Calls)] /\ round' = round
  BY DEF Steps, Vectors
<1> QED BY <1>2, <1>4, <1>5, <1>6, <1>7, <1>8 DEF DialMembers

(* error_cb_ of the Connector. *)
LEMMA ErrorCbKeeps ==
    ASSUME ServerInv, NEW l \in Loops, ErrorCb(l)
    PROVE  ServerInv'
<1>1. /\ Calling(l, "errorCb") /\ Return(l, <<>>)
      /\ conn' = conn /\ tasks' = tasks /\ round' = round /\ user' = user
      /\ connection_map_' = connection_map_ /\ thread_pool_' = thread_pool_
      /\ connector' = connector /\ dial' = dial /\ poller' = poller /\ fault' = fault
      /\ peer' = peer /\ left' = left
  BY DEF ErrorCb, serverVars, connectorVars, outside
<1>2. PICK d \in Dials : d = Callee(l)
  BY <1>1, CalleeOK DEF DialFns
<1>3. /\ Base /\ Wired /\ Running /\ work[l] # <<>> /\ Head(work[l]).fn = "errorCb"
      /\ Types /\ StageOK /\ OnceOK
  BY <1>1, CalleeOK DEF Base
<1>4. PICK s \in Seq(Calls) : s = <<>>
  BY NoCall
<1>5. DOMAIN s = {} /\ Fits(work[l], s)
  BY <1>4, NoCall
<1>6. Steps(l, s, 0, {}) /\ OnceOK'
  BY <1>1, <1>3, <1>4, <1>5, StepsReturn
<1>7. /\ StageOK' /\ OrderOK' /\ RestOK'
      /\ \A m \in Loops, e \in Calls : e.c # d => (Has(todo', m, e) <=> Has(todo, m, e))
      /\ \A m \in Loops, e \in Calls : Has(todo', m, e) => Has(todo, m, e)
      /\ \A m \in Loops : \A j \in DOMAIN work'[m] :
           work'[m][j].c = d \/ \E i \in DOMAIN work[m] : work[m][i] = work'[m][j]
      /\ work' \in [Loops -> Seq(Calls)]
  <2>1. DialCalls(d, s, {})
    BY <1>5 DEF DialCalls
  <2>2. StageOK' /\ OrderOK' /\ RestOK' /\ DialMembers(l, s, 0, {}, d)
    BY ONLY <1>2, <1>3, <1>5, <1>6, <2>1, DialReturn, l \in Loops
  <2> QED BY <1>5, <2>2 DEF DialMembers
<1>8. ConnsPut
  BY <1>1 DEF ConnsPut
<1>9. \A x \in Dials : SameDial(x) /\ (Waits(x)' <=> Waits(x)) /\ (OpenDial(x)' <=> OpenDial(x))
  BY <1>1 DEF SameDial, Waits, OpenDial
<1>10. ASSUME NEW m \in Loops, NEW e \in Calls, Has(todo', m, e), e.c = d PROVE CallOK(m, e)'
  <2>1. CallOK(m, e) /\ d \notin Conns
    BY <1>3, <1>7, <1>10, ServerAssumption DEF Base, CallsOK
  <2> QED BY <1>1, <1>9, <1>10, <2>1, CallFrame
<1>11. Under({"handleConnect", "newConnection"}, d) => Under({"handleConnect", "newConnection"}, d)'
  <2>1. todo \in Vectors /\ todo[l] # <<>> /\ Head(todo[l]) = Head(work[l])
    BY <1>3, TodoIs
  <2>2. \A m \in Loops, e \in Calls : e # Head(work[l]) => (Has(todo, m, e) => Has(todo', m, e))
    BY <1>6, <2>1, HasPop DEF Steps
  <2> QED BY <1>3, <2>2 DEF Under
<1>12. DialMapOK' /\ AddressHas(d)' /\ DialHas(d)'
  <2>1. DialMapOK /\ AddressHas(d) /\ DialHas(d)
    BY <1>3 DEF Base, DialOK, AddressOK, DialHas, AddressHas
  <2>2. DialMapOK' /\ AddressHas(d)'
    BY <1>1, <2>1 DEF DialMapOK, AddressHas
  <2>3. DialHas(d)'
    BY <1>1, <1>9, <1>11, <2>1 DEF DialHas
  <2> QED BY <2>2, <2>3
<1>13. SoleOwner(d)'
  <2>1. \A c \in Conns : Dying(c)' => Dying(c)
    <3>1. \A c \in Conns : conn[c].loop \in Loops
      BY <1>3 DEF Types, ConnRec
    <3> QED BY <1>1, <1>7, <3>1 DEF Dying
  <2>2. \A c \in Conns : Linked(c)' => Linked(c)
    BY <1>1, <2>1 DEF Linked, InMap
  <2>3. SoleOwner(d)
    BY <1>3 DEF Base, FdOK, SoleOwner
  <2> QED BY <1>1, <1>9, <2>2, <2>3 DEF SoleOwner
<1>14. /\ \A c \in Conns : SameConn(c)
       /\ CallsOK' /\ ConnOK' /\ MapOK' /\ DialOK' /\ AddressOK' /\ FdOK' /\ UserOK'
  BY <1>3, <1>7, <1>8, <1>9, <1>10, <1>12, <1>13, OwnDialStep
<1>15. \A m \in Loops : ActiveAt(m, d) => ActiveAt(m, d)'
  <2>1. d \notin Conns
    BY ServerAssumption
  <2>2. Under({"handleConnect"}, d)' => Under({"handleConnect"}, d)
    BY <1>7 DEF Under
  <2> QED BY <1>1, <1>9, <2>1, <2>2 DEF ActiveAt
<1>16. ActiveOK'
  BY <1>1, <1>3, <1>7, <1>8, <1>9, <1>15, OwnDialActive
<1>17. Wired' /\ UpReg'
  <2>1. SameMaps /\ SamePollers
    BY <1>1, <1>3, PollersStay DEF SameMaps
  <2> QED BY <1>3, <1>14, <2>1, WiredQuiet
<1>18. Types'
  BY <1>1, <1>3, <1>7 DEF Types
<1> QED BY <1>6, <1>7, <1>12, <1>14, <1>16, <1>17, <1>18 DEF ServerInv, Base

(* Nobody owns the descriptor f. *)
FreshFd(f) ==
    /\ \A x \in Dials : OpenDial(x) => dial[x].fd # f
    /\ \A c \in Conns : Linked(c) => conn[c].fd # f

(* Only what is to be called for d changes, ... *)
DialWork(d) ==
    /\ \A m \in Loops, e \in Calls : e.c # d => (Has(todo', m, e) <=> Has(todo, m, e))
    /\ \A m \in Loops : \A j \in DOMAIN work'[m] :
         work'[m][j].c = d \/ \E i \in DOMAIN work[m] : work[m][i] = work'[m][j]
    /\ work' \in [Loops -> Seq(Calls)] /\ tasks' \in [Loops -> Seq(Calls)] /\ round' = round
    /\ StageOK' /\ OrderOK' /\ RestOK' /\ OnceOK'

(* ... and d itself, but not where it waits. *)
DialPut(d) ==
    /\ ConnsPut /\ connector' = connector /\ poller' = poller /\ fault' = fault
    /\ dial' \in [Dials -> NoDial \cup DialRec]
    /\ \A x \in Dials : x # d => dial'[x] = dial[x]
    /\ Waits(d) => dial'[d].fd = dial[d].fd

(* Then the pollers and the maps are still right. *)
LEMMA DialChange ==
    ASSUME ServerInv, Running, NEW d \in Dials, DialPut(d), DialWork(d),
           \A m \in Loops, e \in Calls : Has(todo', m, e) /\ e.c = d => CallOK(m, e)',
           DialHas(d)', AddressHas(d)',
           NEW f, f = dial'[d].fd,
           OpenDial(d)' => (OpenDial(d) /\ f = dial[d].fd) \/ FreshFd(f),
           \A m \in Loops : ActiveAt(m, d) => ActiveAt(m, d)'
    PROVE  ServerInv'
<1>1. Base /\ Wired /\ Types /\ StageOK /\ DialMapOK
  BY DEF ServerInv, Base
<1>2. /\ ConnsPut /\ connector' = connector /\ poller' = poller /\ fault' = fault
      /\ dial' \in [Dials -> NoDial \cup DialRec]
      /\ \A x \in Dials : x # d => dial'[x] = dial[x]
      /\ Waits(d) => dial'[d].fd = dial[d].fd
  BY DEF DialPut
<1>3. /\ \A m \in Loops, e \in Calls : e.c # d => (Has(todo', m, e) <=> Has(todo, m, e))
      /\ \A m \in Loops : \A j \in DOMAIN work'[m] :
           work'[m][j].c = d \/ \E i \in DOMAIN work[m] : work[m][i] = work'[m][j]
      /\ work' \in [Loops -> Seq(Calls)] /\ tasks' \in [Loops -> Seq(Calls)] /\ round' = round
      /\ StageOK' /\ OrderOK' /\ RestOK' /\ OnceOK'
  BY DEF DialWork
<1>4. \A x \in Dials : x # d => SameDial(x) /\ (OpenDial(x)' <=> OpenDial(x))
  BY <1>2 DEF SameDial, Waits, OpenDial
<1>5. DialMapOK'
  <2> SUFFICES ASSUME NEW g \in DOMAIN connector.conn_map
               PROVE  dial'[connector.conn_map[g]].fd = g
    BY <1>2 DEF DialMapOK
  <2>1. PICK x : x = connector.conn_map[g]
    OBVIOUS
  <2>2. dial[x].fd = g
    BY <1>1, <2>1 DEF DialMapOK
  <2>3. x \in Dials
    BY <1>1, <2>1 DEF Types, Partial
  <2>4. Waits(x)
    BY <2>1, <2>2 DEF Waits
  <2> QED BY <1>2, <2>1, <2>2, <2>3, <2>4
<1>6. SoleOwner(d)'
  <2>1. d \notin Conns /\ conn' = conn /\ connection_map_' = connection_map_
    BY <1>2, ServerAssumption DEF ConnsPut
  <2>2. \A c \in Conns : Dying(c)' => Dying(c)
    <3>1. \A c \in Conns : conn[c].loop \in Loops
      BY <1>1 DEF Types, ConnRec
    <3> QED BY <1>3, <2>1, <3>1 DEF Dying
  <2>3. \A c \in Conns : Linked(c)' => Linked(c)
    BY <2>1, <2>2 DEF Linked, InMap
  <2> SUFFICES ASSUME OpenDial(d)' PROVE SoleOwner(d)'
    BY DEF SoleOwner
  <2>4. (SoleOwner(d) /\ OpenDial(d) /\ f = dial[d].fd) \/ FreshFd(f)
    BY <1>1 DEF Base, FdOK, SoleOwner
  <2>5. \A x \in Dials : OpenDial(x)' /\ dial'[x].fd = f => x = d
    BY <1>2, <1>4, <2>4 DEF SoleOwner, FreshFd
  <2>6. \A c \in Conns : Linked(c)' => conn'[c].fd # f
    BY <2>1, <2>3, <2>4 DEF SoleOwner, FreshFd
  <2> QED BY <2>5, <2>6 DEF SoleOwner
<1>7. /\ \A c \in Conns : SameConn(c)
      /\ CallsOK' /\ ConnOK' /\ MapOK' /\ DialOK' /\ AddressOK' /\ FdOK' /\ UserOK'
  BY <1>1, <1>2, <1>3, <1>4, <1>5, <1>6, OwnDialStep
<1>8. ActiveOK'
  BY <1>1, <1>2, <1>3, <1>4, OwnDialActive
<1>9. Wired' /\ UpReg'
  <2>1. SameMaps /\ SamePollers
    BY <1>1, <1>2, PollersStay DEF SameMaps, ConnsPut
  <2> QED BY <1>1, <1>7, <2>1, WiredQuiet
<1>10. Types'
  BY <1>1, <1>2, <1>3 DEF Types, ConnsPut
<1> QED BY <1>3, <1>5, <1>7, <1>8, <1>9, <1>10 DEF ServerInv, Base

(* ::connect has an outcome. *)
LEMMA ResolveKeeps ==
    ASSUME ServerInv, NEW d \in Dials, Resolve(d)
    PROVE  ServerInv'
<1>1. Base /\ Types /\ StageOK /\ OrderOK /\ RestOK /\ OnceOK /\ DialOK /\ AddressOK
  BY DEF ServerInv, Base
<1>2. PICK r \in {"connected", "refused"} : dial' = [dial EXCEPT ![d].sock = r]
  BY DEF Resolve
<1>3. /\ Running /\ dial[d].sock = "connecting"
      /\ conn' = conn /\ tasks' = tasks /\ round' = round /\ user' = user /\ work' = work
      /\ connection_map_' = connection_map_ /\ thread_pool_' = thread_pool_
      /\ connector' = connector /\ poller' = poller /\ fault' = fault
      /\ peer' = peer /\ left' = left
  BY DEF Resolve, outside
<1>4. rest' = rest /\ todo' = todo
  BY <1>3 DEF rest, todo
<1>5. dial \in [Dials -> NoDial \cup DialRec] /\ dial[d] \in DialRec
  BY <1>1, <1>3 DEF Types, NoDial
<1>6. /\ dial' \in [Dials -> NoDial \cup DialRec]
      /\ \A x \in Dials : x # d => dial'[x] = dial[x]
      /\ dial'[d].sock = r /\ dial'[d].fd = dial[d].fd /\ dial'[d].at_once = dial[d].at_once
      /\ dial'[d].addr = dial[d].addr /\ dial'[d].target = dial[d].target
  <2>1. dial' = [dial EXCEPT ![d] = [dial[d] EXCEPT !.sock = r]]
    BY <1>2, <1>5
  <2>2. [dial[d] EXCEPT !.sock = r] \in DialRec
    BY <1>5 DEF DialRec, Socks
  <2>3. /\ dial' \in [Dials -> NoDial \cup DialRec]
        /\ dial'[d] = [dial[d] EXCEPT !.sock = r]
        /\ \A x \in Dials : x # d => dial'[x] = dial[x]
    BY <1>5, <2>1, <2>2
  <2> QED BY <1>5, <2>3 DEF DialRec
<1>7. DialPut(d)
  BY <1>3, <1>6 DEF DialPut, ConnsPut
<1>8. DialWork(d)
  BY <1>1, <1>3, <1>4 DEF DialWork, Types, StageOK, OrderOK, RestOK, OnceOK
<1>9. Waits(d) /\ Waits(d)' /\ OpenDial(d) /\ OpenDial(d)' /\ DialHas(d) /\ AddressHas(d)
  BY <1>1, <1>3, <1>6 DEF DialOK, AddressOK, DialHas, AddressHas, OpenDial, Waits
<1>10. ASSUME NEW m \in Loops, NEW e \in Calls, Has(todo', m, e), e.c = d PROVE CallOK(m, e)'
  <2>1. CallOK(m, e) /\ d \notin Conns
    BY <1>1, <1>4, <1>10, ServerAssumption DEF Base, CallsOK
  <2>2. e.fn = "errorCb"
    BY <1>3, <1>9, <1>10, <2>1 DEF CallOK, DialFns
  <2> QED BY <1>3, <2>1, <2>2, ErrorCbStays
<1>11. DialHas(d)' /\ AddressHas(d)'
  BY <1>6, <1>9 DEF DialHas, AddressHas
<1>12. SoleOwner(d)
  BY <1>1 DEF Base, FdOK, SoleOwner
<1>13. \A m \in Loops : ~ActiveAt(m, d)
  BY <1>3 DEF ActiveAt
<1> QED BY <1>3, <1>6, <1>7, <1>8, <1>9, <1>10, <1>11, <1>12, <1>13, DialChange

(* Nothing is under way for a dial that was not made. *)
LEMMA NoDialCalls ==
    ASSUME Base, NEW d \in Dials, dial[d].sock = "none"
    PROVE  /\ \A m \in Loops, e \in Calls : Has(todo, m, e) /\ e.c = d => e.fn = "errorCb"
           /\ NoLife(todo, d)
<1>1. ASSUME NEW m \in Loops, NEW e \in Calls, Has(todo, m, e), e.c = d PROVE e.fn = "errorCb"
  <2>1. CallOK(m, e) /\ d \notin Conns
    BY <1>1, ServerAssumption DEF Base, CallsOK
  <2> QED BY <1>1, <2>1 DEF CallOK, DialFns
<1>2. todo \in Vectors
  BY TodoIs DEF Base
<1>3. "errorCb" \notin LifeFns
  BY DEF LifeFns
<1> QED BY <1>1, <1>2, <1>3, NoLifeHas

(* Connector::connect, whoever calls it. *)
LEMMA NewDialStep ==
    ASSUME ServerInv, Running, NEW d \in Dials, NEW t \in Targets, dial[d].sock = "none",
           dial' = [dial EXCEPT ![d] = NewDial(t)],
           ConnsPut, connector' = connector, poller' = poller, fault' = fault, DialWork(d),
           \A m \in Loops, e \in Calls : Has(todo', m, e) /\ e.c = d =>
              Has(todo, m, e) \/ (m = connector.loop /\ e = Call("connectInLoop", d, FALSE))
    PROVE  ServerInv'
<1>1. Base /\ Types /\ DialOK
  BY DEF ServerInv, Base
<1>2. dial \in [Dials -> NoDial \cup DialRec]
  BY <1>1 DEF Types
<1>3. PICK r : r = NewDial(t)
  OBVIOUS
<1>4. /\ r \in DialRec /\ r.sock = "asked" /\ r.fd = BadFd /\ r.at_once = FALSE /\ r.target = t
      /\ r.addr = FromText(t.text, PortDialled, t.ipv6)
  <2>1. /\ r.sock = "asked" /\ r.fd = BadFd /\ r.at_once = FALSE /\ r.target = t
        /\ r.addr = FromText(t.text, PortDialled, t.ipv6)
        /\ r = [sock |-> r.sock, fd |-> r.fd, at_once |-> r.at_once, target |-> r.target,
                addr |-> r.addr]
    BY <1>3 DEF NewDial
  <2>2. r.addr \in Addresses
    BY <2>1 DEF Addresses
  <2>3. r \in DialRec
    BY <2>1, <2>2 DEF DialRec, Socks, SomeFds
  <2> QED BY <2>1, <2>3
<1>5. /\ dial' \in [Dials -> NoDial \cup DialRec] /\ dial'[d] = r
      /\ \A x \in Dials : x # d => dial'[x] = dial[x]
  BY <1>2, <1>3, <1>4
<1>6. ~Waits(d) /\ ~Waits(d)' /\ ~OpenDial(d)'
  <2>1. ~Waits(d)
    BY <1>1 DEF DialOK, OpenDial
  <2>2. BadFd \notin DOMAIN connector.conn_map
    <3>1. connector.conn_map \in Partial(Fds, Dials)
      BY <1>1 DEF Types
    <3>2. DOMAIN connector.conn_map \subseteq Fds
      BY <3>1 DEF Partial
    <3> QED BY <3>2, ServerAssumption DEF BadFd
  <2>3. ~Waits(d)' /\ ~OpenDial(d)'
    BY <1>4, <1>5, <2>2 DEF Waits, OpenDial
  <2> QED BY <2>1, <2>3
<1>7. DialPut(d)
  BY <1>5, <1>6 DEF DialPut
<1>8. DialHas(d)' /\ AddressHas(d)'
  BY <1>4, <1>5, <1>6 DEF DialHas, AddressHas
<1>9. ASSUME NEW m \in Loops, NEW e \in Calls, Has(todo', m, e), e.c = d PROVE CallOK(m, e)'
  <2>1. CASE Has(todo, m, e)
    <3>1. CallOK(m, e) /\ e.fn = "errorCb"
      BY <1>1, <1>9, <2>1, NoDialCalls DEF Base, CallsOK
    <3> QED BY <3>1, ErrorCbStays
  <2>2. CASE m = connector.loop /\ e = Call("connectInLoop", d, FALSE)
    <3>1. e.fn = "connectInLoop" /\ e.c = d /\ ~e.ref
      BY <2>2 DEF Call
    <3> QED BY <1>4, <1>5, <2>2, <3>1 DEF CallOK, DialFns
  <2> QED BY <1>9, <2>1, <2>2
<1>10. \A m \in Loops : ~ActiveAt(m, d)
  BY <1>6 DEF ActiveAt
<1> QED BY <1>6, <1>7, <1>8, <1>9, <1>10, DialChange

(* ... a thread that does not run the connector's loop, ... *)
LEMMA ConnectKeeps ==
    ASSUME ServerInv, NEW d \in Dials, NEW t \in Targets, Connect(d, t)
    PROVE  ServerInv'
<1>1. Base /\ Types /\ StageOK /\ OrderOK /\ RestOK /\ OnceOK
  BY DEF ServerInv, Base
<1>2. /\ Running /\ dial[d].sock = "none" /\ dial' = [dial EXCEPT ![d] = NewDial(t)]
      /\ conn' = conn /\ round' = round /\ user' = user /\ work' = work
      /\ connection_map_' = connection_map_ /\ thread_pool_' = thread_pool_
      /\ connector' = connector /\ poller' = poller /\ fault' = fault
      /\ peer' = peer /\ left' = left
      /\ Queue(connector.loop, Call("connectInLoop", d, FALSE))
  BY DEF Connect, NextDial, outside
<1>3. PICK k \in Loops : k = connector.loop
  BY <1>1 DEF Types
<1>4. PICK e \in Calls : e = Call("connectInLoop", d, FALSE)
  BY DEF Calls, Call, Functions
<1>5. e.fn = "connectInLoop" /\ e.c = d
  BY <1>4 DEF Call
<1>6. SameBatch
  BY <1>2 DEF SameBatch
<1>7. rest' = Add(rest, k, e) /\ todo' = Add(todo, k, e)
  BY <1>1, <1>2, <1>3, <1>4, <1>6, QueueIs
<1>8. rest \in Vectors /\ todo \in Vectors
  BY <1>1, TodoIs
<1>9. \A m \in Loops, x \in Calls :
         /\ Has(rest', m, x) <=> Has(rest, m, x) \/ (m = k /\ x = e)
         /\ Has(todo', m, x) <=> Has(todo, m, x) \/ (m = k /\ x = e)
  BY <1>7, <1>8, HasAdd
<1>10. OnceOK'
  BY <1>1, <1>2, <1>5, <1>7, <1>8, NoDialCalls, OnceAdd DEF OnceOK
<1>11. RestOK'
  BY <1>1, <1>5, <1>9 DEF RestOK, TaskFns
<1>12. StageOK' /\ OrderOK' /\ tasks' \in [Loops -> Seq(Calls)] /\ work' \in [Loops -> Seq(Calls)]
  <2>1. StageOK' /\ OrderOK' /\ work' \in [Loops -> Seq(Calls)]
    BY <1>1, <1>2 DEF StageOK, OrderOK, Types
  <2>2. Queue(k, e) /\ tasks \in [Loops -> Seq(Calls)]
    BY <1>1, <1>2, <1>3, <1>4 DEF Types
  <2>3. tasks' \in [Loops -> Seq(Calls)]
    BY <2>2 DEF Queue
  <2> QED BY <2>1, <2>3
<1>13. DialWork(d)
  BY <1>2, <1>5, <1>9, <1>10, <1>11, <1>12 DEF DialWork
<1>14. ConnsPut
  BY <1>2 DEF ConnsPut
<1> QED BY <1>2, <1>3, <1>4, <1>9, <1>13, <1>14, NewDialStep

(* A callback on the loop pushes its call on top of itself. *)
LEMMA OrderFront ==
    ASSUME NEW w \in Seq(Calls), Ordered(w), w # <<>>, NEW e \in Calls, e.fn = "connectInLoop",
           Head(w).fn \in {"connectCb", "messageCb", "writeCb", "errorCb"}
    PROVE  Ordered(<<e>> \o w)
<1> DEFINE v == <<e>> \o w
<1>1. /\ Len(w) \in Nat /\ DOMAIN w = 1 .. Len(w) /\ 1 \in DOMAIN w /\ Head(w) = w[1]
      /\ v \in Seq(Calls) /\ Len(v) = Len(w) + 1 /\ DOMAIN v = 1 .. Len(w) + 1
      /\ v[1] = e /\ \A i \in 1 .. Len(w) : v[1 + i] = w[i]
  <2>1. <<e>> \in Seq(Calls) /\ Len(<<e>>) = 1 /\ <<e>>[1] = e
    BY OneCall
  <2>2. \A x, y \in Seq(Calls) :
           /\ x \o y \in Seq(Calls) /\ Len(x \o y) = Len(x) + Len(y)
           /\ \A i \in 1 .. Len(x) + Len(y) :
                 (x \o y)[i] = IF i <= Len(x) THEN x[i] ELSE y[i - Len(x)]
    BY ConcatProperties
  <2>3. PICK u \in Seq(Calls) : u = <<e>>
    BY <2>1
  <2>4. /\ u \o w \in Seq(Calls) /\ Len(u \o w) = 1 + Len(w)
        /\ \A i \in 1 .. 1 + Len(w) : (u \o w)[i] = IF i <= 1 THEN u[i] ELSE w[i - 1]
    BY ONLY <2>1, <2>2, <2>3, w \in Seq(Calls)
  <2>5. Len(w) \in Nat /\ DOMAIN w = 1 .. Len(w) /\ 1 \in DOMAIN w /\ Head(w) = w[1]
    OBVIOUS
  <2>6. v = u \o w
    BY <2>3
  <2> HIDE DEF v
  <2>7. v \in Seq(Calls) /\ Len(v) = Len(w) + 1 /\ DOMAIN v = 1 .. Len(w) + 1
    BY <2>4, <2>5, <2>6
  <2>8. v[1] = e
    BY <2>1, <2>3, <2>4, <2>5, <2>6
  <2>9. \A i \in 1 .. Len(w) : v[1 + i] = w[i]
    BY <2>4, <2>5, <2>6
  <2> QED BY <2>5, <2>7, <2>8, <2>9
<1> HIDE DEF v
<1>2. /\ \A i \in DOMAIN w : /\ w[i].fn = "handleClose" => i = 1
                             /\ w[i].fn = "handleRead" => \A j \in 1 .. i - 1 : w[j].fn \in AboveRead
                             /\ w[i].fn = "messageCb" => \A j \in 1 .. i - 1 : w[j].fn \in AboveMessage
                             /\ w[i].fn \in LastCalls => Len(w) = 1
  BY DEF Ordered
<1>3. \A i \in DOMAIN w : i # 1 => 1 \in 1 .. i - 1
  BY <1>1
<1>4. w[1].fn \notin AboveRead \cup LastCalls \cup {"handleClose", "handleRead"}
  BY <1>1 DEF AboveRead, LastCalls
<1>5. \A i \in DOMAIN w : w[i].fn \notin LastCalls \cup {"handleClose", "handleRead"}
  <2> SUFFICES ASSUME NEW i \in DOMAIN w, w[i].fn \in LastCalls \cup {"handleClose", "handleRead"}
               PROVE  FALSE
    OBVIOUS
  <2>1. CASE i = 1
    BY <1>4, <2>1
  <2>2. CASE i # 1 /\ w[i].fn \in LastCalls
    <3>1. Len(w) = 1
      BY <1>2, <2>2
    <3> QED BY <1>1, <2>2, <3>1
  <2>3. CASE i # 1 /\ w[i].fn = "handleClose"
    BY <1>2, <2>3
  <2>4. CASE i # 1 /\ w[i].fn = "handleRead"
    BY <1>2, <1>3, <1>4, <2>4
  <2> QED BY <2>1, <2>2, <2>3, <2>4
<1>6. ASSUME NEW i \in DOMAIN v
      PROVE  /\ v[i].fn \notin LastCalls \cup {"handleClose", "handleRead"}
             /\ v[i].fn = "messageCb" => \A j \in 1 .. i - 1 : v[j].fn \in AboveMessage
  <2>1. CASE i = 1
    BY <1>1, <2>1 DEF LastCalls
  <2>2. CASE i # 1
    <3>1. i - 1 \in DOMAIN w /\ v[i] = w[i - 1]
      <4>1. i - 1 \in 1 .. Len(w) /\ 1 + (i - 1) = i
        BY <1>1, <2>2
      <4> QED BY <1>1, <4>1
    <3>2. ASSUME NEW j \in 1 .. i - 1, v[i].fn = "messageCb" PROVE v[j].fn \in AboveMessage
      <4>1. CASE j = 1
        BY <1>1, <4>1 DEF AboveMessage
      <4>2. CASE j # 1
        <5>1. j - 1 \in 1 .. Len(w) /\ 1 + (j - 1) = j /\ j - 1 \in 1 .. (i - 1) - 1
          BY <1>1, <4>2
        <5>2. v[j] = w[j - 1]
          BY <1>1, <5>1
        <5> QED BY <1>2, <3>1, <3>2, <5>1, <5>2
      <4> QED BY <4>1, <4>2
    <3> QED BY <1>5, <3>1, <3>2
  <2> QED BY <2>1, <2>2
<1>7. Ordered(v)
  BY <1>6 DEF Ordered
<1> QED BY <1>7 DEF v

(* ... or a callback on that loop. *)
LEMMA ConnectInPlaceKeeps ==
    ASSUME ServerInv, NEW d \in Dials, NEW t \in Targets, ConnectInPlace(d, t)
    PROVE  ServerInv'
<1>1. Base /\ Types /\ StageOK /\ OrderOK /\ RestOK /\ OnceOK
  BY DEF ServerInv, Base
<1>3. PICK k \in Loops : k = connector.loop
  BY <1>1 DEF Types
<1>2. /\ Running /\ dial[d].sock = "none" /\ dial' = [dial EXCEPT ![d] = NewDial(t)]
      /\ conn' = conn /\ round' = round /\ user' = user /\ tasks' = tasks
      /\ connection_map_' = connection_map_ /\ thread_pool_' = thread_pool_
      /\ connector' = connector /\ poller' = poller /\ fault' = fault
      /\ peer' = peer /\ left' = left
      /\ work[k] # <<>> /\ Head(work[k]).fn \in {"connectCb", "messageCb", "writeCb", "errorCb"}
      /\ work' = [work EXCEPT ![k] = <<Call("connectInLoop", d, FALSE)>> \o work[k]]
  BY <1>3 DEF ConnectInPlace, NextDial, outside
<1>4. PICK e \in Calls : e = Call("connectInLoop", d, FALSE)
  BY DEF Calls, Call, Functions
<1>5. e.fn = "connectInLoop" /\ e.c = d
  BY <1>4 DEF Call
<1>6. PICK s \in Seq(Calls) : s = <<e>>
  BY OneCall
<1>60. DOMAIN s = {1} /\ s[1] = e
  BY <1>6, OneCall
<1>7. rest' = rest
  BY <1>2 DEF rest
<1>70. work' = [work EXCEPT ![k] = s \o work[k]]
  BY <1>2, <1>4, <1>6
<1>8. work' = Put(work, k, s) /\ todo' = Put(todo, k, s)
  BY ONLY <1>1, <1>7, <1>70, PutIs, k \in Loops, s \in Seq(Calls)
<1>9. todo \in Vectors /\ work \in Vectors
  BY <1>1, TodoIs
<1>10. \A m \in Loops, x \in Calls :
          /\ Has(todo', m, x) <=> Has(todo, m, x) \/ (m = k /\ x = e)
  BY <1>8, <1>60, <1>9, HasPut
<1>11. OnceOK'
  BY <1>1, <1>2, <1>5, <1>60, <1>8, <1>9, NoDialCalls, OncePut DEF OnceOK
<1>12. /\ work' \in [Loops -> Seq(Calls)] /\ work'[k] = s \o work[k]
       /\ \A m \in Loops : m # k => work'[m] = work[m]
  BY <1>70, <1>8, <1>9, VecPut DEF Vectors
<1>13. OrderOK'
  <2>1. Ordered(<<e>> \o work[k])
    BY <1>1, <1>2, <1>5, <1>9, OrderFront DEF OrderOK, Vectors
  <2> QED BY <1>1, <1>12, <1>6, <2>1 DEF OrderOK
<1>14. RestOK' /\ StageOK' /\ tasks' \in [Loops -> Seq(Calls)]
  BY <1>1, <1>12, <1>2, <1>7 DEF RestOK, StageOK, Types
<1>15. ASSUME NEW m \in Loops, NEW j \in DOMAIN work'[m]
       PROVE  work'[m][j].c = d \/ \E i \in DOMAIN work[m] : work[m][i] = work'[m][j]
  <2>1. PICK x \in Calls : x = work'[m][j]
    BY <1>12
  <2>2. Has(work', m, x)
    BY <2>1 DEF Has
  <2>3. Has(work, m, x) \/ x = e
    BY <1>60, <1>8, <1>9, <2>2, HasPut
  <2> QED BY <1>5, <2>1, <2>3 DEF Has
<1>16. DialWork(d)
  BY <1>2, <1>5, <1>10, <1>11, <1>12, <1>13, <1>14, <1>15 DEF DialWork
<1>17. ConnsPut
  BY <1>2 DEF ConnsPut
<1> QED BY <1>2, <1>3, <1>4, <1>10, <1>16, <1>17, NewDialStep

(* A descriptor the kernel hands out belongs to nobody. *)
LEMMA FreeIs ==
    ASSUME Base, NEW f \in FreeFds
    PROVE  /\ f \in Fds /\ f # BadFd /\ FreshFd(f) /\ f \notin DOMAIN connector.conn_map
           /\ f \notin DOMAIN connection_map_
<1>1. f \in Fds /\ f # BadFd
  BY ServerAssumption DEF FreeFds, BadFd
<1>2. ASSUME NEW c \in Conns, Linked(c) PROVE conn[c].fd # f
  <2>1. ~Freed(c)
    BY <1>2, LinkedHeld
  <2>2. conn[c].state # "none"
    <3>1. CASE InMap(c)
      BY <3>1 DEF Base, ConnOK
    <3>2. CASE Dying(c)
      <4>1. conn[c].loop \in Loops
        BY DEF Base, Types, ConnRec
      <4>2. Down(c)
        BY <3>2, <4>1 DEF Dying, Base, CallsOK, CallOK
      <4> QED BY <4>2 DEF Down
    <3> QED BY <1>2, <3>1, <3>2 DEF Linked
  <2> QED BY <2>1, <2>2 DEF FreeFds
<1>3. ASSUME NEW x \in Dials, OpenDial(x) PROVE dial[x].fd # f
  BY <1>3 DEF FreeFds, OpenDial
<1>4. f \notin DOMAIN connector.conn_map
  <2> SUFFICES ASSUME f \in DOMAIN connector.conn_map PROVE FALSE
    OBVIOUS
  <2>1. PICK x : x = connector.conn_map[f]
    OBVIOUS
  <2>2. x \in Dials /\ dial[x].fd = f
    BY <2>1 DEF Base, Types, Partial, DialMapOK
  <2>3. Waits(x)
    BY <2>1, <2>2 DEF Waits
  <2> QED BY <1>3, <2>2, <2>3 DEF Base, DialOK
<1>5. f \notin DOMAIN connection_map_
  <2> SUFFICES ASSUME f \in DOMAIN connection_map_ PROVE FALSE
    OBVIOUS
  <2>1. PICK x : x = connection_map_[f]
    OBVIOUS
  <2>2. x \in Conns /\ conn[x].fd = f
    BY <2>1 DEF Base, Types, Partial, MapOK
  <2>3. InMap(x)
    BY <2>1, <2>2 DEF InMap
  <2> QED BY <1>2, <2>2, <2>3 DEF Linked
<1> QED BY <1>1, <1>2, <1>3, <1>4, <1>5 DEF FreshFd

(* ... and no poller knows it. *)
LEMMA FreeUnknown ==
    ASSUME Base, Wired, NEW f \in FreeFds, NEW l \in Loops
    PROVE  f \notin DOMAIN poller[l].channels
<1> SUFFICES ASSUME f \in DOMAIN poller[l].channels PROVE FALSE
  OBVIOUS
<1>1. PICK c : c = poller[l].channels[f]
  OBVIOUS
<1>2. f \in Fds /\ FreshFd(f) /\ f \notin DOMAIN connector.conn_map /\ f # TimerFd
  BY FreeIs, ServerAssumption
<1>3. /\ c \in Conns
      /\ conn[c].fd = f /\ conn[c].loop = l
  BY <1>1, <1>2 DEF Wired, PollOK, Owned
<1>4. Reg(c)
  BY <1>1, <1>3 DEF Reg
<1>5. Linked(c)
  BY <1>3, <1>4 DEF Wired, RegOK
<1> QED BY <1>2, <1>3, <1>5 DEF FreshFd

(* A dial that does not wait has no channel in a poller. *)
LEMMA NoChannel ==
    ASSUME Base, Wired, NEW d \in Dials, ~Waits(d), NEW l \in Loops
    PROVE  \A g \in DOMAIN poller[l].channels : poller[l].channels[g] # d
<1> SUFFICES ASSUME NEW g \in DOMAIN poller[l].channels, poller[l].channels[g] = d PROVE FALSE
  OBVIOUS
<1>1. d \notin Conns /\ d # Timer
  BY ServerAssumption
<1>2. g \in DOMAIN connector.conn_map /\ connector.conn_map[g] = d
  BY <1>1 DEF Wired, PollOK, Owned
<1>3. dial[d].fd = g
  BY <1>2 DEF Base, DialMapOK
<1> QED BY <1>2, <1>3 DEF Waits

(* What of d is left to be called after connectInLoop or handleConnect. *)
LEMMA DialMoved ==
    ASSUME Base, NEW l \in Loops, work[l] # <<>>, NEW s \in Seq(Calls), NEW k, NEW ts,
           NEW d \in Dials, d = Callee(l), Head(work[l]).fn \in LifeFns,
           DialMembers(l, s, k, ts, d), connector'.loop = connector.loop,
           \A i \in DOMAIN s : CallOK(l, s[i])',
           \A t \in ts : CallOK(k, t)'
    PROVE  \A m \in Loops, e \in Calls : Has(todo', m, e) /\ e.c = d => CallOK(m, e)'
<1> SUFFICES ASSUME NEW m \in Loops, NEW e \in Calls, Has(todo', m, e), e.c = d PROVE CallOK(m, e)'
  OBVIOUS
<1>1. CASE Has(Pop(todo, l), m, e)
  <2>1. NoLife(Pop(todo, l), d)
    BY MovedOn DEF Base, MovesOn
  <2>2. Pop(todo, l) \in Vectors
    BY TodoIs, VecPop DEF Base
  <2>3. e.fn \notin LifeFns
    BY <1>1, <2>1, <2>2, NoLifeHas
  <2>4. Has(todo, m, e)
    BY <1>1 DEF DialMembers
  <2>5. e.fn = "errorCb" /\ CallOK(m, e)
    BY <2>3, <2>4, OnlyErrorCb DEF Base, CallsOK
  <2> QED BY <2>5, ErrorCbStays
<1>2. CASE m = l /\ \E i \in DOMAIN s : s[i] = e
  BY <1>2
<1>3. CASE m = k /\ e \in ts
  BY <1>3
<1> QED BY <1>1, <1>2, <1>3 DEF DialMembers

(* The variables a call of the Connector leaves alone. *)
LEMMA DialCallee ==
    ASSUME ServerInv, NEW l \in Loops, NEW fn \in {"connectInLoop", "handleConnect"}, Calling(l, fn)
    PROVE  /\ Base /\ Wired /\ Running /\ Types /\ StageOK /\ OnceOK
           /\ work[l] # <<>> /\ Head(work[l]).fn = fn
           /\ Callee(l) \in Dials /\ Callee(l) \notin Conns /\ l = connector.loop
           /\ dial[Callee(l)] \in DialRec
           /\ dial \in [Dials -> NoDial \cup DialRec]
           /\ CallOK(l, Head(work[l])) /\ Has(todo, l, Head(work[l])) /\ Head(work[l]) \in Calls
<1>1. /\ Base /\ Wired /\ Running /\ Types /\ StageOK /\ OnceOK
      /\ work[l] # <<>> /\ Head(work[l]).fn = fn
      /\ CallOK(l, Head(work[l])) /\ Callee(l) \in Dials
      /\ Has(todo, l, Head(work[l])) /\ Head(work[l]) \in Calls
  BY CalleeOK DEF Base, DialFns
<1>2. Callee(l) \notin Conns
  BY <1>1, ServerAssumption
<1>3. l = connector.loop /\ dial[Callee(l)].sock \in {"asked", "connected", "refused"}
  BY <1>1 DEF CallOK, Callee, DialFns
<1>4. dial \in [Dials -> NoDial \cup DialRec]
  BY <1>1 DEF Types
<1>5. dial[Callee(l)] \in DialRec
  BY <1>1, <1>3, <1>4 DEF NoDial
<1> QED BY <1>1, <1>2, <1>3, <1>4, <1>5

(* What connectInLoop does to its dial. *)
AtOnce(d, f)    == dial' = [dial EXCEPT ![d].sock = "connected", ![d].fd = f, ![d].at_once = TRUE]
Awaits(d, f)    == dial' = [dial EXCEPT ![d].sock = "connecting", ![d].fd = f]
Fails(d, f, r)  == dial' = [dial EXCEPT ![d].sock = r, ![d].fd = f]

(* ::connect connected at once, and handleWrite is called. *)
LEMMA ConnectAtOnce ==
    ASSUME ServerInv, NEW l \in Loops, Calling(l, "connectInLoop"),
           NEW d, d = Callee(l), NEW f \in FreeFds, dial[d].addr.family # "inet6",
           AtOnce(d, f),
           Return(l, <<Call("handleConnect", d, FALSE)>>),
           tasks' = tasks, round' = round,
           ConnsPut, connector' = connector, poller' = poller, fault' = fault
    PROVE  ServerInv'
<1>1. /\ Base /\ Wired /\ Running /\ Types /\ StageOK /\ OnceOK
      /\ work[l] # <<>> /\ Head(work[l]).fn = "connectInLoop"
      /\ d \in Dials /\ d \notin Conns /\ l = connector.loop
      /\ dial[d] \in DialRec /\ dial \in [Dials -> NoDial \cup DialRec]
      /\ CallOK(l, Head(work[l]))
  BY DialCallee
<1>2. dial[d].sock = "asked"
  BY ONLY <1>1, d = Callee(l) DEF CallOK, Callee
<1>3. /\ f \in Fds /\ FreshFd(f) /\ f \notin DOMAIN connector.conn_map
  BY <1>1, FreeIs
<1>4. /\ dial' \in [Dials -> NoDial \cup DialRec]
      /\ \A x \in Dials : x # d => dial'[x] = dial[x]
      /\ dial'[d].sock = "connected" /\ dial'[d].fd = f /\ dial'[d].at_once = TRUE
      /\ dial'[d].addr = dial[d].addr /\ dial'[d].target = dial[d].target
  <2>1. dial' = [dial EXCEPT ![d] = [dial[d] EXCEPT !.sock = "connected", !.fd = f, !.at_once = TRUE]]
    BY <1>1 DEF AtOnce
  <2>2. [dial[d] EXCEPT !.sock = "connected", !.fd = f, !.at_once = TRUE] \in DialRec
    BY <1>1, <1>3 DEF DialRec, Socks, SomeFds
  <2>3. /\ dial' \in [Dials -> NoDial \cup DialRec]
        /\ dial'[d] = [dial[d] EXCEPT !.sock = "connected", !.fd = f, !.at_once = TRUE]
        /\ \A x \in Dials : x # d => dial'[x] = dial[x]
    BY <1>1, <2>1, <2>2
  <2> QED BY <1>1, <2>3 DEF DialRec
<1>5. PICK e \in Calls : e = Call("handleConnect", d, FALSE)
  BY <1>1 DEF Calls, Call, Functions
<1>6. e.fn = "handleConnect" /\ e.c = d /\ ~e.ref
  BY <1>5 DEF Call
<1>7. PICK s \in Seq(Calls) : s = <<e>>
  BY OneCall
<1>8. DOMAIN s = {1} /\ s[1] = e
  BY <1>7, OneCall
<1>9. Return(l, s)
  BY <1>5, <1>7
<1>10. Steps(l, s, 0, {}) /\ OnceOK'
  <2>1. \A i, j \in DOMAIN s : i = j
    BY <1>8
  <2>2. \A i \in DOMAIN s : s[i].c = Callee(l) /\ MovesOn(l)
    BY <1>1, <1>6, <1>8 DEF MovesOn, LifeFns
  <2> QED BY <1>1, <1>9, <2>1, <2>2, StepsReturn
<1>11. Fits(work[l], s)
  <2>1. Fits(work[l], <<e>>)
    BY <1>1, <1>6, FitsOne DEF LastCalls, AboveRead, AboveMessage
  <2> QED BY <1>7, <2>1
<1>12. DialCalls(d, s, {})
  BY <1>6, <1>8 DEF DialCalls
<1>13. StageOK' /\ OrderOK' /\ RestOK' /\ DialMembers(l, s, 0, {}, d)
  BY ONLY <1>1, <1>10, <1>11, <1>12, DialReturn, l \in Loops, s \in Seq(Calls), d = Callee(l)
<1>14. DialWork(d)
  BY <1>10, <1>13 DEF DialWork, DialMembers
<1>15. ~Waits(d) /\ ~Waits(d)'
  BY <1>1, <1>2, <1>3, <1>4 DEF Waits, Base, DialOK, OpenDial
<1>16. DialPut(d)
  BY <1>4, <1>15 DEF DialPut
<1>17. CallOK(l, e)'
  BY <1>1, <1>4, <1>6, <1>15 DEF CallOK, DialFns
<1>18. \A m \in Loops, x \in Calls : Has(todo', m, x) /\ x.c = d => CallOK(m, x)'
  <2>1. \A i \in DOMAIN s : CallOK(l, s[i])'
    BY <1>8, <1>17
  <2>2. \A x \in {} : CallOK(0, x)'
    OBVIOUS
  <2>3. Head(work[l]).fn \in LifeFns /\ connector'.loop = connector.loop
    BY <1>1 DEF LifeFns
  <2> QED BY ONLY <1>1, <1>13, <2>1, <2>2, <2>3, DialMoved, l \in Loops, s \in Seq(Calls), d = Callee(l)
<1>19. Under({"handleConnect", "newConnection"}, d)'
  <2>1. Has(todo', l, e)
    BY <1>8, <1>10 DEF Steps
  <2> QED BY <1>6, <2>1 DEF Under
<1>20. DialHas(d)' /\ AddressHas(d)'
  <2>1. AddressHas(d)
    BY <1>1 DEF Base, AddressOK, AddressHas
  <2>2. AddressHas(d)'
    BY <1>2, <1>4, <2>1 DEF AddressHas
  <2>3. DialHas(d)'
    BY <1>3, <1>4, <1>15, <1>19 DEF DialHas
  <2> QED BY <2>2, <2>3
<1>21. \A m \in Loops : ~ActiveAt(m, d)
  BY <1>1, <1>15 DEF ActiveAt
<1>22. f = dial'[d].fd
  BY <1>4
<1> QED BY ONLY ServerInv, <1>1, <1>3, <1>14, <1>16, <1>18, <1>20, <1>21, <1>22, DialChange

(* ::socket or ::connect failed; the socket, if any, is forgotten. *)
LEMMA ConnectFails ==
    ASSUME ServerInv, NEW l \in Loops, Calling(l, "connectInLoop"),
           NEW d, d = Callee(l), NEW f \in FreeFds \cup {BadFd},
           NEW r \in {"closed", "leaked"},
           Fails(d, f, r),
           Return(l, <<>>),
           tasks' = tasks, round' = round,
           ConnsPut, connector' = connector, poller' = poller, fault' = fault
    PROVE  ServerInv'
<1>1. /\ Base /\ Wired /\ Running /\ Types /\ StageOK /\ OnceOK
      /\ work[l] # <<>> /\ Head(work[l]).fn = "connectInLoop"
      /\ d \in Dials /\ d \notin Conns /\ l = connector.loop
      /\ dial[d] \in DialRec /\ dial \in [Dials -> NoDial \cup DialRec]
      /\ CallOK(l, Head(work[l]))
  BY DialCallee
<1>2. dial[d].sock = "asked"
  BY ONLY <1>1, d = Callee(l) DEF CallOK, Callee
<1>3. f \in SomeFds /\ f \notin DOMAIN connector.conn_map
  <2>1. CASE f \in FreeFds
    BY <1>1, <2>1, FreeIs DEF SomeFds
  <2>2. CASE f = BadFd
    <3>1. connector.conn_map \in Partial(Fds, Dials)
      BY <1>1 DEF Types
    <3>2. DOMAIN connector.conn_map \subseteq Fds
      BY <3>1 DEF Partial
    <3> QED BY <2>2, <3>2, ServerAssumption DEF BadFd, SomeFds
  <2> QED BY <2>1, <2>2
<1>4. /\ dial' \in [Dials -> NoDial \cup DialRec]
      /\ \A x \in Dials : x # d => dial'[x] = dial[x]
      /\ dial'[d].sock = r /\ dial'[d].fd = f /\ dial'[d].at_once = dial[d].at_once
      /\ dial'[d].addr = dial[d].addr /\ dial'[d].target = dial[d].target
  <2>1. dial' = [dial EXCEPT ![d] = [dial[d] EXCEPT !.sock = r, !.fd = f]]
    BY <1>1 DEF Fails
  <2>2. [dial[d] EXCEPT !.sock = r, !.fd = f] \in DialRec
    BY <1>1, <1>3 DEF DialRec, Socks
  <2>3. /\ dial' \in [Dials -> NoDial \cup DialRec]
        /\ dial'[d] = [dial[d] EXCEPT !.sock = r, !.fd = f]
        /\ \A x \in Dials : x # d => dial'[x] = dial[x]
    BY <1>1, <2>1, <2>2
  <2> QED BY <1>1, <2>3 DEF DialRec
<1>7. PICK s \in Seq(Calls) : s = <<>>
  BY NoCall
<1>8. DOMAIN s = {} /\ Fits(work[l], s)
  BY <1>7, NoCall
<1>10. Steps(l, s, 0, {}) /\ OnceOK'
  BY <1>1, <1>7, <1>8, StepsReturn
<1>12. DialCalls(d, s, {})
  BY <1>8 DEF DialCalls
<1>13. StageOK' /\ OrderOK' /\ RestOK' /\ DialMembers(l, s, 0, {}, d)
  BY ONLY <1>1, <1>8, <1>10, <1>12, DialReturn, l \in Loops, s \in Seq(Calls), d = Callee(l)
<1>14. DialWork(d)
  BY <1>10, <1>13 DEF DialWork, DialMembers
<1>15. ~Waits(d) /\ ~Waits(d)' /\ ~OpenDial(d)'
  BY <1>1, <1>2, <1>3, <1>4 DEF Waits, Base, DialOK, OpenDial
<1>16. DialPut(d)
  BY <1>4, <1>15 DEF DialPut
<1>18. \A m \in Loops, x \in Calls : Has(todo', m, x) /\ x.c = d => CallOK(m, x)'
  <2>1. \A i \in DOMAIN s : CallOK(l, s[i])'
    BY <1>8
  <2>2. \A x \in {} : CallOK(0, x)'
    OBVIOUS
  <2>3. Head(work[l]).fn \in LifeFns /\ connector'.loop = connector.loop
    BY <1>1 DEF LifeFns
  <2> QED BY ONLY <1>1, <1>13, <2>1, <2>2, <2>3, DialMoved, l \in Loops, s \in Seq(Calls), d = Callee(l)
<1>20. DialHas(d)' /\ AddressHas(d)'
  <2>1. AddressHas(d)
    BY <1>1 DEF Base, AddressOK, AddressHas
  <2>2. AddressHas(d)'
    BY <1>2, <1>4, <2>1 DEF AddressHas
  <2>3. DialHas(d)'
    BY <1>4, <1>15 DEF DialHas, OpenDial
  <2> QED BY <2>2, <2>3
<1>21. \A m \in Loops : ~ActiveAt(m, d)
  BY <1>1, <1>15 DEF ActiveAt
<1>22. f = dial'[d].fd
  BY <1>4
<1> QED BY ONLY ServerInv, <1>1, <1>14, <1>15, <1>16, <1>18, <1>20, <1>21, <1>22, DialChange

(* EINPROGRESS: the channel waits in conn_map_ and in the poller. *)
LEMMA ConnectWaits ==
    ASSUME ServerInv, NEW l \in Loops, Calling(l, "connectInLoop"),
           NEW d, d = Callee(l), NEW f \in FreeFds,
           Awaits(d, f),
           NEW g, g = connector.conn_map,
           connector' = [connector EXCEPT !.conn_map = With(g, f, d)],
           poller' = [poller EXCEPT ![l] = UpdateChannel(poller[l], d, f, DialEvents)],
           Return(l, <<>>),
           tasks' = tasks, round' = round, fault' = fault,
           conn' = conn, connection_map_' = connection_map_, thread_pool_' = thread_pool_,
           user' = user, peer' = peer, left' = left
    PROVE  ServerInv'
<1>1. /\ Base /\ Wired /\ Running /\ Types /\ StageOK /\ OnceOK
      /\ work[l] # <<>> /\ Head(work[l]).fn = "connectInLoop"
      /\ d \in Dials /\ d \notin Conns /\ l = connector.loop
      /\ dial[d] \in DialRec /\ dial \in [Dials -> NoDial \cup DialRec]
      /\ CallOK(l, Head(work[l]))
  BY DialCallee
<1>2. dial[d].sock = "asked"
  BY ONLY <1>1, d = Callee(l) DEF CallOK, Callee
<1>3. /\ f \in Fds /\ FreshFd(f) /\ f \notin DOMAIN g
  BY <1>1, FreeIs
<1>4. /\ dial' \in [Dials -> NoDial \cup DialRec]
      /\ \A x \in Dials : x # d => dial'[x] = dial[x]
      /\ dial'[d].sock = "connecting" /\ dial'[d].fd = f /\ dial'[d].at_once = dial[d].at_once
      /\ dial'[d].addr = dial[d].addr /\ dial'[d].target = dial[d].target
  <2>1. dial' = [dial EXCEPT ![d] = [dial[d] EXCEPT !.sock = "connecting", !.fd = f]]
    BY <1>1 DEF Awaits
  <2>2. [dial[d] EXCEPT !.sock = "connecting", !.fd = f] \in DialRec
    BY <1>1, <1>3 DEF DialRec, Socks, SomeFds
  <2>3. /\ dial' \in [Dials -> NoDial \cup DialRec]
        /\ dial'[d] = [dial[d] EXCEPT !.sock = "connecting", !.fd = f]
        /\ \A x \in Dials : x # d => dial'[x] = dial[x]
    BY <1>1, <2>1, <2>2
  <2> QED BY <1>1, <2>3 DEF DialRec
<1>5. PICK h : h = With(g, f, d)
  OBVIOUS
<1>6. /\ DOMAIN h = DOMAIN g \cup {f} /\ h[f] = d /\ \A x \in DOMAIN g : h[x] = g[x]
  BY <1>3, <1>5 DEF With
<1>60. connector \in [loop : Loops, conn_map : Partial(Fds, Dials)]
  BY <1>1 DEF Types
<1>61. g \in [DOMAIN g -> Dials] /\ DOMAIN g \subseteq Fds
  BY <1>60 DEF Partial
<1>62. h \in [DOMAIN h -> Dials] /\ DOMAIN h \subseteq Fds
  BY <1>1, <1>3, <1>5, <1>6, <1>61 DEF With
<1>63. h \in Partial(Fds, Dials)
  BY <1>62, PartialIs
<1>64. /\ connector' \in [loop : Loops, conn_map : Partial(Fds, Dials)]
       /\ connector'.conn_map = h /\ connector'.loop = connector.loop
  BY <1>5, <1>60, <1>63
<1>65. ConnsPut
  BY <1>64 DEF ConnsPut
<1>7. PICK s \in Seq(Calls) : s = <<>>
  BY NoCall
<1>8. DOMAIN s = {} /\ Fits(work[l], s)
  BY <1>7, NoCall
<1>80. Return(l, s) /\ tasks' = tasks /\ round' = round
  BY <1>7
<1>10. Steps(l, s, 0, {}) /\ OnceOK'
  BY ONLY <1>1, <1>8, <1>80, StepsReturn, l \in Loops, s \in Seq(Calls)
<1>12. DialCalls(d, s, {})
  BY <1>8 DEF DialCalls
<1>13. StageOK' /\ OrderOK' /\ RestOK' /\ DialMembers(l, s, 0, {}, d)
  BY ONLY <1>1, <1>8, <1>10, <1>12, DialReturn, l \in Loops, s \in Seq(Calls), d = Callee(l)
<1>14. /\ \A m \in Loops, e \in Calls : e.c # d => (Has(todo', m, e) <=> Has(todo, m, e))
       /\ \A m \in Loops : \A j \in DOMAIN work'[m] :
            work'[m][j].c = d \/ \E i \in DOMAIN work[m] : work[m][i] = work'[m][j]
       /\ work' \in [Loops -> Seq(Calls)]
  BY <1>13 DEF DialMembers
<1>15. ~Waits(d) /\ ~dial[d].at_once
  BY <1>1, <1>2 DEF Base, DialOK, OpenDial, AddressOK
<1>16. Waits(d)' /\ OpenDial(d)'
  BY <1>4, <1>6, <1>64 DEF Waits, OpenDial
<1>17. \A x \in Dials : x # d => SameDial(x) /\ (OpenDial(x)' <=> OpenDial(x))
  BY <1>3, <1>4, <1>6, <1>64 DEF SameDial, Waits, OpenDial
<1>18. \A m \in Loops, x \in Calls : Has(todo', m, x) /\ x.c = d => CallOK(m, x)'
  <2>1. \A i \in DOMAIN s : CallOK(l, s[i])'
    BY <1>8
  <2>2. \A x \in {} : CallOK(0, x)'
    OBVIOUS
  <2>3. Head(work[l]).fn \in LifeFns /\ connector'.loop = connector.loop
    BY <1>1, <1>64 DEF LifeFns
  <2> QED BY ONLY <1>1, <1>13, <2>1, <2>2, <2>3, DialMoved, l \in Loops, s \in Seq(Calls), d = Callee(l)
<1>19. DialMapOK'
  <2>1. \A x \in DOMAIN g : dial[g[x]].fd = x
    BY <1>1 DEF Base, DialMapOK
  <2>2. \A x \in DOMAIN g : g[x] # d
    BY <1>15, <2>1 DEF Waits
  <2>3. \A x \in DOMAIN h : dial'[h[x]].fd = x
    BY <1>4, <1>6, <1>61, <2>1, <2>2
  <2> QED BY <1>64, <2>3 DEF DialMapOK
<1>20. DialHas(d)' /\ AddressHas(d)'
  <2>1. AddressHas(d)
    BY <1>1 DEF Base, AddressOK, AddressHas
  <2>2. AddressHas(d)'
    BY <1>2, <1>4, <2>1 DEF AddressHas
  <2>3. DialHas(d)'
    BY <1>3, <1>4, <1>15, <1>16 DEF DialHas
  <2> QED BY <2>2, <2>3
<1>21. SoleOwner(d)'
  <2>1. \A c \in Conns : Linked(c)' => Linked(c)
    <3>1. \A c \in Conns : conn[c].loop \in Loops
      BY <1>1 DEF Types, ConnRec
    <3>2. \A c \in Conns : Dying(c)' => Dying(c)
      BY <1>1, <1>14, <3>1 DEF Dying
    <3> QED BY <3>2 DEF Linked, InMap
  <2>2. \A x \in Dials : OpenDial(x)' /\ dial'[x].fd = f => x = d
    BY <1>3, <1>4, <1>17 DEF FreshFd
  <2>3. \A c \in Conns : Linked(c)' => conn'[c].fd # f
    BY <1>3, <2>1 DEF FreshFd
  <2> QED BY <1>4, <2>2, <2>3 DEF SoleOwner
<1>22. /\ \A c \in Conns : SameConn(c)
       /\ CallsOK' /\ ConnOK' /\ MapOK' /\ DialOK' /\ AddressOK' /\ FdOK' /\ UserOK'
  BY ONLY <1>1, <1>14, <1>17, <1>18, <1>19, <1>20, <1>21, <1>65, OwnDialStep
<1>23. \A m \in Loops : ~ActiveAt(m, d)
  BY <1>1, <1>15 DEF ActiveAt
<1>24. ActiveOK'
  BY ONLY <1>1, <1>14, <1>17, <1>23, <1>65, <1>80, OwnDialActive
<1>25. /\ poller' \in [Loops -> PollerRec]
       /\ \A k \in Loops :
             /\ PollerOK(poller'[k])
             /\ DOMAIN poller'[k].channels
                  = DOMAIN poller[k].channels \cup (IF k = l THEN {f} ELSE {})
             /\ \A x \in DOMAIN poller[k].channels :
                   /\ poller'[k].channels[x] = poller[k].channels[x]
                   /\ EntryOf(poller'[k], x) = EntryOf(poller[k], x)
       /\ poller'[l].channels[f] = d /\ EntryOf(poller'[l], f).fd = f
  <2>1. f \notin DOMAIN poller[l].channels
    BY <1>1, FreeUnknown
  <2>2. \A x \in DOMAIN poller[l].channels : poller[l].channels[x] # d
    BY <1>1, <1>15, NoChannel
  <2>3. f \in PollFds /\ d \in Channels /\ DialEvents \in SUBSET Events
    BY <1>1, <1>3 DEF PollFds, SomeFds, Channels, DialEvents, Events
  <2>4. PICK ev : ev = DialEvents
    OBVIOUS
  <2>5. /\ ev \in SUBSET Events
        /\ poller' = [poller EXCEPT ![l] = UpdateChannel(poller[l], d, f, ev)]
    BY <2>3, <2>4
  <2>6. Base /\ Wired /\ l \in Loops /\ f \in PollFds /\ d \in Channels /\ ev \in SUBSET Events
    BY <1>1, <2>3, <2>5
  <2>7. poller' = [poller EXCEPT ![l] = UpdateChannel(poller[l], d, f, ev)]
    BY <2>5
  <2> HIDE DEF PollFds, Channels
  <2> QED BY ONLY <2>1, <2>2, <2>6, <2>7, InsertPollers
<1>26. ASSUME NEW c \in Conns PROVE Reg(c)' <=> Reg(c)
  <2>1. PICK k \in Loops : k = conn[c].loop
    BY <1>1 DEF Types, ConnRec
  <2>2. PICK x : x = conn[c].fd
    OBVIOUS
  <2>3. d # c
    BY <1>1
  <2>4. f \notin DOMAIN poller[l].channels
    BY <1>1, FreeUnknown
  <2>5. (x \in DOMAIN poller'[k].channels /\ poller'[k].channels[x] = c)
          <=> (x \in DOMAIN poller[k].channels /\ poller[k].channels[x] = c)
    BY <1>25, <2>3, <2>4
  <2> QED BY <2>1, <2>2, <2>5 DEF Reg
<1>27. RegOK'
  <2>1. \A c \in Conns : (Made(c)' <=> Made(c)) /\ (Linked(c)' <=> Linked(c))
    BY <1>1, <1>22, ConnFrame DEF Base
  <2> QED BY <1>1, <1>26, <2>1 DEF Wired, RegOK
<1>28. UpReg'
  BY <1>1, <1>26 DEF Base, UpReg, Up
<1>29. WaitsOK'
  <2>1. \A x \in DOMAIN g : x \in DOMAIN poller[l].channels /\ poller[l].channels[x] = g[x]
    BY <1>1 DEF Wired, WaitsOK
  <2>2. \A x \in DOMAIN h : x \in DOMAIN poller'[l].channels /\ poller'[l].channels[x] = h[x]
    BY <1>6, <1>25, <2>1
  <2> QED BY <1>1, <1>64, <2>2 DEF WaitsOK
<1>30. PollOK'
  <2> SUFFICES ASSUME NEW k \in Loops, NEW x \in DOMAIN poller'[k].channels PROVE Owned(k, x)'
    BY <1>25 DEF PollOK
  <2>1. CASE x \in DOMAIN poller[k].channels
    <3>1. Owned(k, x)
      BY <1>1, <2>1 DEF Wired, PollOK
    <3>2. poller'[k].channels[x] = poller[k].channels[x] /\ EntryOf(poller'[k], x) = EntryOf(poller[k], x)
      BY <1>25, <2>1
    <3>3. \A y \in DOMAIN connector.conn_map :
             y \in DOMAIN connector'.conn_map /\ connector'.conn_map[y] = connector.conn_map[y]
      BY <1>6, <1>64
    <3>4. conn' = conn
      OBVIOUS
    <3> QED BY ONLY <1>64, <3>1, <3>2, <3>3, <3>4 DEF Owned
  <2>2. CASE x \notin DOMAIN poller[k].channels
    <3>1. k = l /\ x = f
      BY <1>25, <2>2
    <3> QED BY <1>1, <1>6, <1>25, <1>64, <3>1 DEF Owned
  <2> QED BY <2>1, <2>2
<1>31. Types'
  BY <1>1, <1>4, <1>14, <1>25, <1>64, <1>80 DEF Types
<1> QED BY <1>10, <1>13, <1>19, <1>22, <1>24, <1>27, <1>28, <1>29, <1>30, <1>31
    DEF ServerInv, Base, Wired

(* Connector::connectInLoop *)
LEMMA ConnectInLoopKeeps ==
    ASSUME ServerInv, NEW l \in Loops, ConnectInLoop(l)
    PROVE  ServerInv'
<1>2. /\ Calling(l, "connectInLoop")
      /\ conn' = conn /\ connection_map_' = connection_map_ /\ thread_pool_' = thread_pool_
      /\ tasks' = tasks /\ round' = round /\ user' = user /\ peer' = peer /\ left' = left
      /\ fault' = fault
  BY DEF ConnectInLoop, outside
<1>3. Base
  BY DEF ServerInv
<1> DEFINE d == Callee(l)
<1>40. \E f \in FreeFds \cup {BadFd} : \E r \in ConnectResults(f, dial[d].addr) :
          \/ /\ r = "success"
             /\ AtOnce(d, f)
             /\ Return(l, <<Call("handleConnect", d, FALSE)>>)
             /\ connector' = connector /\ poller' = poller
          \/ /\ r = "inProgress"
             /\ Awaits(d, f)
             /\ connector' = [connector EXCEPT !.conn_map =
                                IF f \in DOMAIN connector.conn_map THEN connector.conn_map
                                ELSE With(connector.conn_map, f, d)]
             /\ poller' = [poller EXCEPT ![l] = UpdateChannel(poller[l], d, f, DialEvents)]
             /\ Return(l, <<>>)
          \/ /\ r = "error"
             /\ Fails(d, f, IF f = BadFd THEN "closed" ELSE "leaked")
             /\ Return(l, <<>>)
             /\ connector' = connector /\ poller' = poller
  BY Zenon DEF ConnectInLoop, AtOnce, Awaits, Fails
<1>1. PICK b : b = Callee(l)
  OBVIOUS
<1>41. PICK f \in FreeFds \cup {BadFd} : \E r \in ConnectResults(f, dial[b].addr) :
          \/ /\ r = "success"
             /\ AtOnce(b, f)
             /\ Return(l, <<Call("handleConnect", b, FALSE)>>)
             /\ connector' = connector /\ poller' = poller
          \/ /\ r = "inProgress"
             /\ Awaits(b, f)
             /\ connector' = [connector EXCEPT !.conn_map =
                                IF f \in DOMAIN connector.conn_map THEN connector.conn_map
                                ELSE With(connector.conn_map, f, b)]
             /\ poller' = [poller EXCEPT ![l] = UpdateChannel(poller[l], b, f, DialEvents)]
             /\ Return(l, <<>>)
          \/ /\ r = "error"
             /\ Fails(b, f, IF f = BadFd THEN "closed" ELSE "leaked")
             /\ Return(l, <<>>)
             /\ connector' = connector /\ poller' = poller
  BY <1>1, <1>40
<1>4. PICK r \in ConnectResults(f, dial[b].addr) :
          \/ /\ r = "success"
             /\ AtOnce(b, f)
             /\ Return(l, <<Call("handleConnect", b, FALSE)>>)
             /\ connector' = connector /\ poller' = poller
          \/ /\ r = "inProgress"
             /\ Awaits(b, f)
             /\ connector' = [connector EXCEPT !.conn_map =
                                IF f \in DOMAIN connector.conn_map THEN connector.conn_map
                                ELSE With(connector.conn_map, f, b)]
             /\ poller' = [poller EXCEPT ![l] = UpdateChannel(poller[l], b, f, DialEvents)]
             /\ Return(l, <<>>)
          \/ /\ r = "error"
             /\ Fails(b, f, IF f = BadFd THEN "closed" ELSE "leaked")
             /\ Return(l, <<>>)
             /\ connector' = connector /\ poller' = poller
  BY <1>41
<1>5. r # "error" => f \in FreeFds /\ dial[b].addr.family # "inet6"
  BY DEF ConnectResults
<1>6. CASE r = "success"
  <2>1. /\ AtOnce(b, f)
        /\ Return(l, <<Call("handleConnect", b, FALSE)>>)
        /\ connector' = connector /\ poller' = poller
    BY <1>4, <1>6
  <2>2. ConnsPut
    BY <1>2, <2>1 DEF ConnsPut
  <2>3. f \in FreeFds /\ dial[b].addr.family # "inet6"
    BY <1>5, <1>6
  <2>4. tasks' = tasks /\ round' = round /\ fault' = fault /\ Calling(l, "connectInLoop")
    BY <1>2
  <2> QED BY ONLY ServerInv, l \in Loops, <1>1, <2>1, <2>2, <2>3, <2>4, ConnectAtOnce
<1>7. CASE r = "inProgress"
  <2>1. f \in FreeFds /\ f \notin DOMAIN connector.conn_map
    BY <1>3, <1>5, <1>7, FreeIs
  <2>2. PICK g : g = connector.conn_map
    OBVIOUS
  <2>3. /\ Awaits(b, f)
        /\ connector' = [connector EXCEPT !.conn_map = With(g, f, b)]
        /\ poller' = [poller EXCEPT ![l] = UpdateChannel(poller[l], b, f, DialEvents)]
        /\ Return(l, <<>>)
    BY <1>4, <1>7, <2>1, <2>2
  <2> QED BY ONLY ServerInv, l \in Loops, <1>1, <1>2, <2>1, <2>2, <2>3, ConnectWaits
<1>8. CASE r = "error"
  <2>1. PICK x \in {"closed", "leaked"} : x = IF f = BadFd THEN "closed" ELSE "leaked"
    OBVIOUS
  <2>2. /\ Fails(b, f, x)
        /\ Return(l, <<>>)
        /\ connector' = connector /\ poller' = poller
    BY <1>4, <1>8, <2>1
  <2>3. ConnsPut
    BY <1>2, <2>2 DEF ConnsPut
  <2>4. tasks' = tasks /\ round' = round /\ fault' = fault /\ Calling(l, "connectInLoop")
    BY <1>2
  <2> QED BY ONLY ServerInv, l \in Loops, <1>1, f \in FreeFds \cup {BadFd}, x \in {"closed", "leaked"},
                  <2>2, <2>3, <2>4, ConnectFails
<1> QED BY <1>4, <1>6, <1>7, <1>8

(* handleWrite for a dial that connected at once: it is not in conn_map_.  *)
LEMMA HandOver ==
    ASSUME ServerInv, NEW l \in Loops, Calling(l, "handleConnect"), NEW d, d = Callee(l),
           dial[d].fd \notin DOMAIN connector.conn_map,
           Queue(0, Call("newConnection", d, FALSE)), Return(l, <<>>), round' = round,
           ConnsPut, connector' = connector, dial' = dial, poller' = poller, fault' = fault
    PROVE  ServerInv'
<1>1. /\ Base /\ Wired /\ Running /\ Types /\ StageOK /\ OnceOK
      /\ work[l] # <<>> /\ Head(work[l]).fn = "handleConnect"
      /\ d \in Dials /\ d \notin Conns /\ l = connector.loop
      /\ dial[d] \in DialRec /\ dial \in [Dials -> NoDial \cup DialRec]
      /\ CallOK(l, Head(work[l])) /\ Has(todo, l, Head(work[l])) /\ Head(work[l]) \in Calls
  BY DialCallee
<1>2. ~Waits(d)
  BY DEF Waits
<1>3. dial[d].sock = "connected" /\ dial[d].at_once
  <2>1. dial[d].sock \in {"connected", "refused"} /\ (Waits(d) <=> ~dial[d].at_once)
    BY ONLY <1>1, d = Callee(l) DEF CallOK, Callee
  <2>2. dial[d].at_once \in BOOLEAN
    BY <1>1 DEF DialRec
  <2> QED BY <1>1, <1>2, <2>1, <2>2 DEF Base, DialOK
<1>4. PICK z \in Loops : z = 0
  BY BaseLoop
<1>5. PICK t \in Calls : t = Call("newConnection", d, FALSE)
  BY <1>1 DEF Calls, Call, Functions
<1>6. t.fn = "newConnection" /\ t.c = d /\ ~t.ref
  BY <1>5 DEF Call
<1>7. PICK s \in Seq(Calls) : s = <<>>
  BY NoCall
<1>8. DOMAIN s = {} /\ Fits(work[l], s)
  BY <1>7, NoCall
<1>9. Return(l, s) /\ Queue(z, t)
  BY <1>4, <1>5, <1>7
<1>90. MovesOn(l)
  BY <1>1 DEF MovesOn, LifeFns
<1>91. \A i \in DOMAIN s : s[i].fn \notin LifeFns
  BY <1>8
<1>92. t.fn \in LifeFns => t.c = Callee(l) /\ MovesOn(l)
  BY <1>6, <1>90
<1>10. Steps(l, s, z, {t}) /\ OnceOK'
  BY ONLY <1>1, <1>9, <1>91, <1>92, StepsQueue, l \in Loops, s \in Seq(Calls), z \in Loops,
          t \in Calls, round' = round
<1>11. DialCalls(d, s, {t})
  BY <1>6, <1>8 DEF DialCalls, TaskFns
<1>12. StageOK' /\ OrderOK' /\ RestOK' /\ DialMembers(l, s, z, {t}, d)
  BY ONLY <1>1, <1>8, <1>10, <1>11, DialReturn, l \in Loops, s \in Seq(Calls), d = Callee(l)
<1>13. DialWork(d)
  BY <1>10, <1>12 DEF DialWork, DialMembers
<1>14. DialPut(d)
  BY <1>1 DEF DialPut
<1>15. ~Waits(d)' /\ dial'[d] = dial[d]
  BY <1>2 DEF Waits
<1>16. CallOK(z, t)'
  BY <1>1, <1>3, <1>4, <1>6, <1>15 DEF CallOK, DialFns
<1>17. \A m \in Loops, x \in Calls : Has(todo', m, x) /\ x.c = d => CallOK(m, x)'
  <2>1. \A i \in DOMAIN s : CallOK(l, s[i])'
    BY <1>8
  <2>2. \A x \in {t} : CallOK(z, x)'
    BY <1>16
  <2>3. Head(work[l]).fn \in LifeFns /\ connector'.loop = connector.loop
    BY <1>1 DEF LifeFns
  <2> QED BY ONLY <1>1, <1>12, <2>1, <2>2, <2>3, DialMoved, l \in Loops, s \in Seq(Calls), d = Callee(l)
<1>18. Under({"handleConnect", "newConnection"}, d)'
  <2>1. Has(todo', z, t)
    BY <1>10 DEF Steps
  <2> QED BY <1>6, <2>1 DEF Under
<1>19. DialHas(d)' /\ AddressHas(d)'
  <2>1. AddressHas(d) /\ DialHas(d)
    BY <1>1 DEF Base, AddressOK, AddressHas, DialOK, DialHas
  <2> QED BY <1>3, <1>15, <1>18, <2>1 DEF AddressHas, DialHas, OpenDial
<1>20. \A m \in Loops : ~ActiveAt(m, d)
  BY <1>1, <1>2 DEF ActiveAt
<1>21. PICK f : f = dial'[d].fd
  OBVIOUS
<1>22. OpenDial(d)' => OpenDial(d) /\ f = dial[d].fd
  BY <1>15, <1>21 DEF OpenDial
<1> QED BY ONLY ServerInv, <1>1, <1>13, <1>14, <1>17, <1>19, <1>20, <1>21, <1>22, DialChange

(* A dial that waits leaves conn_map_ and the poller: it is handed over or *)
(* closed.                                                                 *)
DialLeaves(d, r) ==
    /\ dial' \in [Dials -> NoDial \cup DialRec]
    /\ \A x \in Dials : x # d => dial'[x] = dial[x]
    /\ dial'[d].sock = r /\ dial'[d].fd = dial[d].fd /\ dial'[d].at_once = dial[d].at_once

(* The calls that follow. *)
LeaveCalls(d, r, s, k, ts) ==
    /\ DialCalls(d, s, ts)
    /\ \A i \in DOMAIN s : s[i].fn = "errorCb" /\ ~s[i].ref
    /\ \A t \in ts : t.fn = "newConnection" /\ ~t.ref
    /\ k = 0 /\ k \in Loops
    /\ (r = "connected" /\ ts # {}) \/ (r = "closed" /\ ts = {})

(* handleWrite for a dial that waits. *)
LEMMA LeaveKeeps ==
    ASSUME ServerInv, NEW l \in Loops, Calling(l, "handleConnect"), NEW d, d = Callee(l),
           NEW f, f = dial[d].fd, NEW g, g = connector.conn_map, f \in DOMAIN g,
           poller' = [poller EXCEPT ![l] = RemoveChannel(poller[l], d, f)],
           fault' = IF poller'[l].crashed THEN "null" ELSE fault,
           connector' = [connector EXCEPT !.conn_map = Without(g, f)],
           NEW r, r = "connected" => dial[d].sock = "connected", DialLeaves(d, r),
           NEW s \in Seq(Calls), NEW k, NEW ts, Steps(l, s, k, ts), OnceOK', Fits(work[l], s),
           LeaveCalls(d, r, s, k, ts),
           conn' = conn, connection_map_' = connection_map_, thread_pool_' = thread_pool_,
           user' = user, peer' = peer, left' = left
    PROVE  ServerInv'
<1>1. /\ Base /\ Wired /\ Running /\ Types /\ StageOK /\ OnceOK
      /\ work[l] # <<>> /\ Head(work[l]).fn = "handleConnect"
      /\ d \in Dials /\ d \notin Conns /\ l = connector.loop
      /\ dial[d] \in DialRec /\ dial \in [Dials -> NoDial \cup DialRec]
      /\ CallOK(l, Head(work[l])) /\ Has(todo, l, Head(work[l])) /\ Head(work[l]) \in Calls
  BY DialCallee
<1>2. dial[d].sock \in {"connected", "refused"} /\ (Waits(d) <=> ~dial[d].at_once)
  BY ONLY <1>1, d = Callee(l) DEF CallOK, Callee
<1>3. connector \in [loop : Loops, conn_map : Partial(Fds, Dials)]
  BY <1>1 DEF Types
<1>4. g \in [DOMAIN g -> Dials] /\ DOMAIN g \subseteq Fds
  BY <1>3 DEF Partial
<1>5. g[f] = d /\ Waits(d) /\ OpenDial(d) /\ ~dial[d].at_once
  <2>1. PICK x \in Dials : x = g[f]
    BY <1>4
  <2>2. dial[x].fd = f
    BY <1>1, <2>1 DEF Base, DialMapOK
  <2>3. Waits(x)
    BY <2>1, <2>2 DEF Waits
  <2>4. OpenDial(x) /\ OpenDial(d)
    BY <1>1, <1>2, <2>3 DEF Base, DialOK, OpenDial
  <2>5. x = d
    BY <1>1, <2>2, <2>4 DEF Base, FdOK
  <2> QED BY <1>2, <2>1, <2>3, <2>4, <2>5
<1>6. PICK h : h = Without(g, f)
  OBVIOUS
<1>7. DOMAIN h = DOMAIN g \ {f} /\ \A x \in DOMAIN h : h[x] = g[x]
  BY <1>6 DEF Without
<1>8. h \in [DOMAIN h -> Dials] /\ DOMAIN h \subseteq Fds
  BY <1>4, <1>6, <1>7 DEF Without
<1>9. h \in Partial(Fds, Dials)
  BY <1>8, PartialIs
<1>10. /\ connector' \in [loop : Loops, conn_map : Partial(Fds, Dials)]
       /\ connector'.conn_map = h /\ connector'.loop = connector.loop
  BY <1>3, <1>6, <1>9
<1>11. ConnsPut
  BY <1>10 DEF ConnsPut
<1>12. /\ dial' \in [Dials -> NoDial \cup DialRec]
       /\ \A x \in Dials : x # d => dial'[x] = dial[x]
       /\ dial'[d].sock = r /\ dial'[d].fd = f /\ dial'[d].at_once = dial[d].at_once
  BY DEF DialLeaves
<1>13. StageOK' /\ OrderOK' /\ RestOK' /\ DialMembers(l, s, k, ts, d)
  <2>1. DialCalls(d, s, ts)
    BY DEF LeaveCalls
  <2> QED BY ONLY <1>1, <2>1, DialReturn, l \in Loops, s \in Seq(Calls), d = Callee(l),
                  Steps(l, s, k, ts), Fits(work[l], s)
<1>14. /\ \A m \in Loops, e \in Calls : e.c # d => (Has(todo', m, e) <=> Has(todo, m, e))
       /\ \A m \in Loops : \A j \in DOMAIN work'[m] :
            work'[m][j].c = d \/ \E i \in DOMAIN work[m] : work[m][i] = work'[m][j]
       /\ work' \in [Loops -> Seq(Calls)] /\ tasks' \in [Loops -> Seq(Calls)] /\ round' = round
  BY <1>13 DEF DialMembers
<1>15. ~Waits(d)'
  BY <1>7, <1>10, <1>12 DEF Waits
<1>16. \A x \in Dials : x # d => SameDial(x) /\ (OpenDial(x)' <=> OpenDial(x))
  BY <1>5, <1>7, <1>10, <1>12 DEF SameDial, Waits, OpenDial
<1>17. \A m \in Loops, x \in Calls : Has(todo', m, x) /\ x.c = d => CallOK(m, x)'
  <2>1. \A i \in DOMAIN s : CallOK(l, s[i])'
    <3> SUFFICES ASSUME NEW i \in DOMAIN s PROVE CallOK(l, s[i])'
      OBVIOUS
    <3>1. PICK e : e = s[i]
      OBVIOUS
    <3>2. e.fn = "errorCb" /\ e.c = d /\ ~e.ref
      BY <3>1 DEF LeaveCalls, DialCalls
    <3>3. CallOK(l, e)'
      BY ONLY <1>1, <1>10, <3>2 DEF CallOK, DialFns
    <3> QED BY <3>1, <3>3
  <2>2. \A x \in ts : CallOK(k, x)'
    <3> SUFFICES ASSUME NEW x \in ts PROVE CallOK(k, x)'
      OBVIOUS
    <3>1. x.fn = "newConnection" /\ x.c = d /\ ~x.ref /\ k = 0 /\ r = "connected"
      BY DEF LeaveCalls, DialCalls
    <3> QED BY ONLY <1>1, <1>12, <1>15, <3>1 DEF CallOK, DialFns
  <2>3. Head(work[l]).fn \in LifeFns /\ connector'.loop = connector.loop
    BY <1>1, <1>10 DEF LifeFns
  <2> QED BY ONLY <1>1, <1>13, <2>1, <2>2, <2>3, DialMoved, l \in Loops, s \in Seq(Calls), d = Callee(l)
<1>18. DialMapOK'
  <2>1. \A x \in DOMAIN g : dial[g[x]].fd = x
    BY <1>1 DEF Base, DialMapOK
  <2>2. \A x \in DOMAIN h : dial'[h[x]].fd = x
    BY <1>4, <1>7, <1>12, <2>1
  <2> QED BY <1>10, <2>2 DEF DialMapOK
<1>19. DialHas(d)' /\ AddressHas(d)'
  <2>1. r = "connected" => Under({"handleConnect", "newConnection"}, d)'
    <3> SUFFICES ASSUME r = "connected" PROVE Under({"handleConnect", "newConnection"}, d)'
      OBVIOUS
    <3>1. PICK t \in ts : t \in Calls /\ t.c = d /\ t.fn = "newConnection" /\ k \in Loops
      BY DEF LeaveCalls, DialCalls
    <3>2. Has(todo', k, t)
      BY <3>1 DEF Steps
    <3> QED BY <3>1, <3>2 DEF Under
  <2>2. r \in {"connected", "closed"}
    BY DEF LeaveCalls
  <2>3. f \in Fds
    BY <1>4
  <2>4. DialHas(d)'
    BY <1>12, <1>15, <2>1, <2>2, <2>3 DEF DialHas, OpenDial
  <2>5. AddressHas(d)'
    BY <1>5, <1>12, <2>2 DEF AddressHas
  <2> QED BY <2>4, <2>5
<1>20. SoleOwner(d)'
  <2>1. \A c \in Conns : Linked(c)' => Linked(c)
    <3>1. \A c \in Conns : conn[c].loop \in Loops
      BY <1>1 DEF Types, ConnRec
    <3>2. \A c \in Conns : Dying(c)' => Dying(c)
      BY <1>1, <1>14, <3>1 DEF Dying
    <3> QED BY <3>2 DEF Linked, InMap
  <2>2. /\ \A x \in Dials : OpenDial(x) /\ dial[x].fd = f => x = d
        /\ \A c \in Conns : Linked(c) => conn[c].fd # f
    BY <1>1, <1>5 DEF Base, FdOK
  <2>3. \A x \in Dials : OpenDial(x)' /\ dial'[x].fd = f => x = d
    BY <1>12, <1>16, <2>2
  <2>4. \A c \in Conns : Linked(c)' => conn'[c].fd # f
    BY <2>1, <2>2
  <2> QED BY <1>12, <2>3, <2>4 DEF SoleOwner
<1>21. /\ \A c \in Conns : SameConn(c)
       /\ CallsOK' /\ ConnOK' /\ MapOK' /\ DialOK' /\ AddressOK' /\ FdOK' /\ UserOK'
  BY ONLY <1>1, <1>11, <1>14, <1>16, <1>17, <1>18, <1>19, <1>20, OwnDialStep
<1>22. \A m \in Loops : ~ActiveAt(m, d)
  <2>1. Under({"handleConnect"}, d)
    BY <1>1 DEF Under, Callee
  <2> QED BY <1>1, <2>1 DEF ActiveAt
<1>23. ActiveOK'
  BY ONLY <1>1, <1>11, <1>14, <1>16, <1>22, OwnDialActive
<1>24. f \in DOMAIN poller[l].channels /\ poller[l].channels[f] = d
  BY <1>1, <1>5 DEF Wired, WaitsOK
<1>25. /\ poller' \in [Loops -> PollerRec]
       /\ \/ /\ poller'[l].crashed
             /\ \A m \in Loops : poller'[m].channels = poller[m].channels
          \/ \A m \in Loops :
                /\ PollerOK(poller'[m])
                /\ DOMAIN poller'[m].channels
                     = DOMAIN poller[m].channels \ (IF m = l THEN {f} ELSE {})
                /\ \A x \in DOMAIN poller'[m].channels :
                      /\ poller'[m].channels[x] = poller[m].channels[x]
                      /\ EntryOf(poller'[m], x) = EntryOf(poller[m], x)
  <2>1. poller' = [poller EXCEPT ![l] = RemoveChannel(poller[l], poller[l].channels[f], f)]
    BY <1>24
  <2>2. Base /\ Wired /\ l \in Loops /\ f \in DOMAIN poller[l].channels
    BY <1>1, <1>24
  <2> QED BY ONLY <2>1, <2>2, RemovePollers
<1>26. ASSUME NEW c \in Conns PROVE Reg(c)' <=> Reg(c)
  <2>1. PICK m \in Loops : m = conn[c].loop
    BY <1>1 DEF Types, ConnRec
  <2>2. PICK x : x = conn[c].fd
    OBVIOUS
  <2>3. d # c
    BY <1>1
  <2>5. (x \in DOMAIN poller'[m].channels /\ poller'[m].channels[x] = c)
          <=> (x \in DOMAIN poller[m].channels /\ poller[m].channels[x] = c)
    BY ONLY <1>24, <1>25, <2>3, m \in Loops
  <2> QED BY <2>1, <2>2, <2>5 DEF Reg
<1>28. UpReg'
  BY <1>1, <1>26 DEF Base, UpReg, Up
<1>29. fault' \in {"none", "null"}
  BY <1>1 DEF Running
<1>30. Types'
  BY <1>1, <1>10, <1>12, <1>14, <1>25, <1>29 DEF Types
<1>31. Base'
  BY <1>13, <1>18, <1>21, <1>23, <1>28, <1>30 DEF Base
<1>32. CASE poller'[l].crashed
  BY <1>31, <1>32 DEF ServerInv, Running
<1>33. CASE ~poller'[l].crashed
  <2>0. \A m \in Loops :
           /\ PollerOK(poller'[m])
           /\ DOMAIN poller'[m].channels
                = DOMAIN poller[m].channels \ (IF m = l THEN {f} ELSE {})
           /\ \A x \in DOMAIN poller'[m].channels :
                 /\ poller'[m].channels[x] = poller[m].channels[x]
                 /\ EntryOf(poller'[m], x) = EntryOf(poller[m], x)
    BY <1>25, <1>33
  <2>1. RegOK'
    <3>1. \A c \in Conns : (Made(c)' <=> Made(c)) /\ (Linked(c)' <=> Linked(c))
      BY <1>1, <1>21, ConnFrame DEF Base
    <3> QED BY <1>1, <1>26, <3>1 DEF Wired, RegOK
  <2>2. WaitsOK'
    <3>1. \A x \in DOMAIN g : x \in DOMAIN poller[l].channels /\ poller[l].channels[x] = g[x]
      BY <1>1 DEF Wired, WaitsOK
    <3>2. \A x \in DOMAIN h : x \in DOMAIN poller'[l].channels /\ poller'[l].channels[x] = h[x]
      BY <1>7, <2>0, <3>1
    <3> QED BY <1>1, <1>10, <3>2 DEF WaitsOK
  <2>3. PollOK'
    <3> SUFFICES ASSUME NEW m \in Loops, NEW x \in DOMAIN poller'[m].channels PROVE Owned(m, x)'
      BY <2>0 DEF PollOK
    <3>1. x \in DOMAIN poller[m].channels /\ (m = l => x # f)
      BY <2>0
    <3>2. Owned(m, x)
      BY <1>1, <3>1 DEF Wired, PollOK
    <3>3. poller'[m].channels[x] = poller[m].channels[x] /\ EntryOf(poller'[m], x) = EntryOf(poller[m], x)
      BY <2>0
    <3>4. conn' = conn
      OBVIOUS
    <3>5. \A y \in DOMAIN g : y # f => y \in DOMAIN connector'.conn_map /\ connector'.conn_map[y] = g[y]
      BY <1>7, <1>10
    <3>6. g = connector.conn_map
      OBVIOUS
    <3> QED BY ONLY <1>1, <1>10, <3>1, <3>2, <3>3, <3>4, <3>5, <3>6 DEF Owned
  <2> QED BY <1>31, <2>1, <2>2, <2>3 DEF ServerInv, Wired
<1> QED BY <1>32, <1>33

(* The address is read through the dangling reference, and the socket is   *)
(* handed over or closed.                                                  *)
Reread(d, a)       == dial' = [dial EXCEPT ![d].addr = a]
RereadClosed(d, a) == dial' = [dial EXCEPT ![d].addr = a, ![d].sock = SocketClosed(d)]

(* What becomes of the dial in both cases. *)
LEMMA RereadIs ==
    ASSUME NEW d \in Dials, dial \in [Dials -> NoDial \cup DialRec], dial[d] \in DialRec,
           NEW a \in Addresses
    PROVE  /\ Reread(d, a) => DialLeaves(d, dial[d].sock)
           /\ RereadClosed(d, a) => DialLeaves(d, "closed")
<1>1. [dial[d] EXCEPT !.addr = a] \in DialRec
  BY DEF DialRec
<1>2. ASSUME Reread(d, a) PROVE DialLeaves(d, dial[d].sock)
  <2>1. dial' = [dial EXCEPT ![d] = [dial[d] EXCEPT !.addr = a]]
    BY <1>2 DEF Reread
  <2>2. dial'[d] = [dial[d] EXCEPT !.addr = a]
    BY <2>1
  <2>3. dial'[d].sock = dial[d].sock /\ dial'[d].fd = dial[d].fd
        /\ dial'[d].at_once = dial[d].at_once
    BY <2>2 DEF DialRec
  <2>4. dial' \in [Dials -> NoDial \cup DialRec]
    BY <1>1, <2>1
  <2>5. \A x \in Dials : x # d => dial'[x] = dial[x]
    BY <2>1
  <2> QED BY <2>3, <2>4, <2>5 DEF DialLeaves
<1>3. ASSUME RereadClosed(d, a) PROVE DialLeaves(d, "closed")
  <2>0. PICK z : z = [dial[d] EXCEPT !.addr = a, !.sock = "closed"]
    OBVIOUS
  <2>1. dial' = [dial EXCEPT ![d] = z]
    BY <1>3, <2>0 DEF RereadClosed, SocketClosed
  <2>2. dial'[d] = z
    BY <2>1
  <2>3. z.sock = "closed" /\ z.fd = dial[d].fd /\ z.at_once = dial[d].at_once
    BY <2>0 DEF DialRec
  <2>4. z \in DialRec
    BY <2>0 DEF DialRec, Socks
  <2>5. dial' \in [Dials -> NoDial \cup DialRec]
    BY <2>1, <2>4
  <2>6. \A x \in Dials : x # d => dial'[x] = dial[x]
    BY <2>1
  <2> QED BY <2>2, <2>3, <2>5, <2>6 DEF DialLeaves
<1> QED BY <1>2, <1>3

(* Connector::handleWrite *)
LEMMA HandleConnectKeeps ==
    ASSUME ServerInv, NEW l \in Loops, HandleConnect(l)
    PROVE  ServerInv'
<1>1. /\ Calling(l, "handleConnect")
      /\ conn' = conn /\ connection_map_' = connection_map_ /\ thread_pool_' = thread_pool_
      /\ round' = round /\ user' = user /\ peer' = peer /\ left' = left
  BY DEF HandleConnect
<1> DEFINE b == Callee(l)
<1>2. IF dial[b].fd \notin DOMAIN connector.conn_map
      THEN /\ Queue(0, Call("newConnection", b, FALSE))
           /\ Return(l, <<>>)
           /\ connector' = connector /\ dial' = dial /\ poller' = poller /\ fault' = fault
      ELSE /\ poller' = [poller EXCEPT ![l] = RemoveChannel(poller[l], b, dial[b].fd)]
           /\ fault' = IF poller'[l].crashed THEN "null" ELSE fault
           /\ connector' = [connector EXCEPT !.conn_map = Without(connector.conn_map, dial[b].fd)]
           /\ \E a \in {dial[b].addr, Garbage} :
                IF dial[b].sock = "connected"
                THEN /\ Queue(0, Call("newConnection", b, FALSE))
                     /\ Reread(b, a)
                     /\ Return(l, <<>>)
                ELSE /\ RereadClosed(b, a)
                     /\ Return(l, <<Call("errorCb", b, FALSE)>>)
                     /\ tasks' = tasks
  BY Zenon DEF HandleConnect, Reread, RereadClosed, ChannelRemoved
<1>3. PICK d : d = Callee(l)
  OBVIOUS
<1>4. PICK f : f = dial[d].fd
  OBVIOUS
<1>5. PICK g : g = connector.conn_map
  OBVIOUS
<1>6. CASE f \notin DOMAIN g
  <2>1. /\ Queue(0, Call("newConnection", d, FALSE))
        /\ Return(l, <<>>)
        /\ connector' = connector /\ dial' = dial /\ poller' = poller /\ fault' = fault
    BY <1>2, <1>3, <1>4, <1>5, <1>6
  <2>2. ConnsPut
    BY <1>1, <2>1 DEF ConnsPut
  <2>3. dial[d].fd \notin DOMAIN connector.conn_map
    BY <1>4, <1>5, <1>6
  <2> QED BY ONLY ServerInv, l \in Loops, <1>1, <1>3, <2>1, <2>2, <2>3, HandOver
<1>7. CASE f \in DOMAIN g
  <2>1. /\ poller' = [poller EXCEPT ![l] = RemoveChannel(poller[l], d, f)]
        /\ fault' = IF poller'[l].crashed THEN "null" ELSE fault
        /\ connector' = [connector EXCEPT !.conn_map = Without(g, f)]
        /\ \E a \in {dial[d].addr, Garbage} :
             IF dial[d].sock = "connected"
             THEN /\ Queue(0, Call("newConnection", d, FALSE))
                  /\ Reread(d, a)
                  /\ Return(l, <<>>)
             ELSE /\ RereadClosed(d, a)
                  /\ Return(l, <<Call("errorCb", d, FALSE)>>)
                  /\ tasks' = tasks
    BY <1>2, <1>3, <1>4, <1>5, <1>7
  <2>2. /\ Base /\ Running /\ Types /\ StageOK /\ OnceOK
        /\ work[l] # <<>> /\ Head(work[l]).fn = "handleConnect"
        /\ d \in Dials
        /\ dial[d] \in DialRec /\ dial \in [Dials -> NoDial \cup DialRec]
    BY <1>1, <1>3, DialCallee
  <2>3. PICK a \in {dial[d].addr, Garbage} :
             IF dial[d].sock = "connected"
             THEN /\ Queue(0, Call("newConnection", d, FALSE))
                  /\ Reread(d, a)
                  /\ Return(l, <<>>)
             ELSE /\ RereadClosed(d, a)
                  /\ Return(l, <<Call("errorCb", d, FALSE)>>)
                  /\ tasks' = tasks
    BY <2>1
  <2>4. a \in Addresses
    BY <2>2 DEF DialRec, Addresses
  <2>5. /\ Reread(d, a) => DialLeaves(d, dial[d].sock)
        /\ RereadClosed(d, a) => DialLeaves(d, "closed")
    BY ONLY <2>2, <2>4, RereadIs
  <2>6. PICK z \in Loops : z = 0
    BY BaseLoop
  <2>7. MovesOn(l)
    BY <2>2 DEF MovesOn, LifeFns
  <2>8. CASE dial[d].sock = "connected"
    <3>1. PICK t \in Calls : t = Call("newConnection", d, FALSE)
      BY <2>2 DEF Calls, Call, Functions
    <3>2. t.fn = "newConnection" /\ t.c = d /\ ~t.ref
      BY <3>1 DEF Call
    <3>3. Queue(z, t) /\ Reread(d, a) /\ Return(l, <<>>)
      BY <2>3, <2>6, <2>8, <3>1
    <3>4. PICK s \in Seq(Calls) : s = <<>>
      <4>1. <<>> \in Seq(Calls)
        OBVIOUS
      <4> QED BY <4>1
    <3>5. Return(l, s) /\ DOMAIN s = {}
      BY <3>3, <3>4
    <3>6. Steps(l, s, z, {t}) /\ OnceOK'
      BY ONLY <1>1, <1>3, <2>2, <2>7, <3>2, <3>3, <3>5, l \in Loops, s \in Seq(Calls),
              z \in Loops, t \in Calls, StepsQueue
    <3>7. Fits(work[l], s)
      BY <3>5 DEF Fits, Ordered
    <3>8. PICK ts : ts = {t}
      OBVIOUS
    <3>9. PICK r : r = "connected"
      OBVIOUS
    <3>10. LeaveCalls(d, r, s, z, ts)
      BY <2>6, <3>2, <3>5, <3>8, <3>9 DEF LeaveCalls, DialCalls, TaskFns
    <3>11. DialLeaves(d, r) /\ (r = "connected" => dial[d].sock = "connected")
      BY <2>5, <2>8, <3>3, <3>9
    <3>12. Steps(l, s, z, ts) /\ OnceOK'
      BY <3>6, <3>8
    <3> QED BY ONLY ServerInv, l \in Loops, <1>1, <1>3, <1>4, <1>5, <1>7, <2>1, <3>7, <3>10, <3>11,
                    <3>12, s \in Seq(Calls), LeaveKeeps
  <2>9. CASE dial[d].sock # "connected"
    <3>1. PICK e \in Calls : e = Call("errorCb", d, FALSE)
      BY <2>2 DEF Calls, Call, Functions
    <3>2. e.fn = "errorCb" /\ e.c = d /\ ~e.ref
      BY <3>1 DEF Call
    <3>3. PICK s \in Seq(Calls) : s = <<e>>
      <4>1. <<e>> \in Seq(Calls)
        OBVIOUS
      <4> QED BY <4>1
    <3>4. Return(l, s) /\ tasks' = tasks /\ RereadClosed(d, a)
      BY <2>3, <2>9, <3>1, <3>3
    <3>5. DOMAIN s = {1} /\ s[1] = e
      BY <3>3
    <3>6. \A i \in DOMAIN s : s[i].fn \notin LifeFns
      BY <3>2, <3>5 DEF LifeFns
    <3>7. Steps(l, s, 0, {}) /\ OnceOK'
      BY ONLY <1>1, <2>2, <3>4, <3>6, l \in Loops, s \in Seq(Calls), StepsReturn
    <3>8. Fits(work[l], s)
      <4>1. e.fn \notin LastCalls /\ e.fn \in AboveMessage /\ Head(work[l]).fn \notin AboveRead
        BY <2>2, <3>2 DEF LastCalls, AboveMessage, AboveRead
      <4>2. Fits(work[l], <<e>>)
        BY <4>1, FitsOne
      <4> QED BY <3>3, <4>2
    <3>9. PICK ts : ts = {}
      OBVIOUS
    <3>10. PICK r : r = "closed"
      OBVIOUS
    <3>11. LeaveCalls(d, r, s, z, ts)
      BY <2>6, <3>2, <3>5, <3>9, <3>10 DEF LeaveCalls, DialCalls
    <3>12. DialLeaves(d, r) /\ (r = "connected" => dial[d].sock = "connected")
      BY <2>5, <3>4, <3>10
    <3>13. Steps(l, s, z, ts) /\ OnceOK'
      BY <2>6, <3>7, <3>9
    <3> QED BY ONLY ServerInv, l \in Loops, <1>1, <1>3, <1>4, <1>5, <1>7, <2>1, <3>8, <3>11, <3>12,
                    <3>13, s \in Seq(Calls), LeaveKeeps
  <2> QED BY <2>8, <2>9
<1> QED BY <1>6, <1>7

-----------------------------------------------------------------------------
(* A new connection c with descriptor f, on loop m.                        *)
Enters(c, f, m) ==
    /\ conn[c].state = "none" /\ f \notin DOMAIN connection_map_
    /\ conn' = [conn EXCEPT ![c] = NewConn(f, m)]
    /\ connection_map_' = With(connection_map_, f, c)
    /\ poller' = poller /\ user' = user /\ fault' = fault /\ connector' = connector
    /\ left'.fails = 1 => left.fails = 1 /\ f # BadFd

(* A dial stays as it is, or its socket becomes that of the connection.    *)
Taken(d) ==
    /\ ~Waits(d) /\ dial'[d].sock = "taken"
    /\ dial'[d].fd = dial[d].fd /\ dial'[d].at_once = dial[d].at_once
    /\ dial'[d].addr = dial[d].addr /\ dial'[d].target = dial[d].target
    /\ dial[d].sock = "connected"
DialsStay == \A d \in Dials : SameDial(d) \/ Taken(d)

(* What there is to call then. *)
NewCalls(c, m) ==
    /\ \A k \in Loops, e \in Calls : Has(todo', k, e) =>
          \/ Has(todo, k, e)
          \/ e.c = c /\ k = m /\ e.fn = "connectComplete" /\ e.ref
    /\ \A k \in Loops, e \in Calls : Has(todo, k, e) =>
          Has(todo', k, e) \/ (e.c \in Dials /\ ~SameDial(e.c))
    /\ \A k \in Loops, e \in Calls : Has(todo', k, e) /\ e.c \in Dials =>
          SameDial(e.c) \/ e.fn = "errorCb"

(* Nobody else will own the descriptor. *)
Unowned(f) ==
    /\ \A c \in Conns : Linked(c) => conn[c].fd # f
    /\ \A d \in Dials : OpenDial(d) /\ SameDial(d) => dial[d].fd # f

(* Nothing is to be called for a connection that does not exist, ... *)
LEMMA NoConnCalls ==
    ASSUME Base, NEW c \in Conns, conn[c].state = "none"
    PROVE  /\ \A k \in Loops, e \in Calls : Has(todo, k, e) => e.c # c
           /\ ~InMap(c) /\ ~Dying(c) /\ ~Linked(c) /\ ~Made(c)
<1>1. ~Made(c) /\ ~Up(c) /\ ~Down(c) /\ ~InMap(c)
  BY DEF Made, Up, Down, Base, ConnOK
<1>2. ASSUME NEW k \in Loops, NEW e \in Calls, Has(todo, k, e), e.c = c PROVE FALSE
  <2>1. CallOK(k, e)
    BY <1>2 DEF Base, CallsOK
  <2>2. c \notin Dials
    BY ServerAssumption
  <2>3. e.fn \in Functions
    BY DEF Calls
  <2> QED BY ONLY <1>1, <1>2, <2>1, <2>2, <2>3, conn[c].state = "none" DEF CallOK, DialFns, Functions
<1>3. conn[c].loop \in Loops
  BY DEF Base, Types, ConnRec
<1>4. ~Dying(c)
  BY <1>2, <1>3 DEF Dying
<1> QED BY <1>1, <1>2, <1>4 DEF Linked

(* ... and no poller knows it. *)
LEMMA NoConnChannel ==
    ASSUME Base, Wired, NEW c \in Conns, conn[c].state = "none", NEW k \in Loops,
           NEW f \in DOMAIN poller[k].channels
    PROVE  poller[k].channels[f] # c
<1>1. ~Made(c)
  BY NoConnCalls
<1>2. Owned(k, f)
  BY DEF Wired, PollOK
<1>3. SUFFICES ASSUME poller[k].channels[f] = c PROVE FALSE
  OBVIOUS
<1>4. c # Timer /\ c \notin Dials
  BY ServerAssumption
<1>5. conn[c].fd = f /\ conn[c].loop = k
  BY <1>2, <1>3, <1>4 DEF Owned
<1>6. Reg(c)
  BY <1>3, <1>5 DEF Reg
<1> QED BY <1>1, <1>6 DEF Wired, RegOK

(* What becomes of the connections. *)
LEMMA EntersIs ==
    ASSUME Base, NEW c \in Conns, NEW f \in SomeFds, NEW m \in Loops, Enters(c, f, m),
           NewCalls(c, m), DialsStay
    PROVE  /\ conn' \in [Conns -> ConnRec] /\ connection_map_' \in Partial(SomeFds, Conns)
           /\ \A b \in Conns : b # c => SameConn(b) /\ conn'[b] = conn[b]
           /\ conn'[c].state = "connecting" /\ conn'[c].fd = f /\ conn'[c].loop = m
           /\ conn'[c].events = {} /\ conn'[c].downs = 0
           /\ InMap(c)' /\ Linked(c)' /\ ~Made(c)' /\ MapOK'
<1>1. /\ conn \in [Conns -> ConnRec] /\ connection_map_ \in Partial(SomeFds, Conns)
      /\ conn' = [conn EXCEPT ![c] = NewConn(f, m)]
  BY DEF Base, Types, Enters
<1>2. NewConn(f, m) \in ConnRec
  BY DEF NewConn, ConnRec, States
<1>3. conn' \in [Conns -> ConnRec] /\ conn'[c] = NewConn(f, m)
      /\ \A b \in Conns : b # c => conn'[b] = conn[b]
  BY <1>1, <1>2
<1>4. /\ conn'[c].state = "connecting" /\ conn'[c].fd = f /\ conn'[c].loop = m
      /\ conn'[c].events = {} /\ conn'[c].downs = 0
  BY <1>3 DEF NewConn
<1>5. PICK g : g = connection_map_
  OBVIOUS
<1>6. g \in [DOMAIN g -> Conns] /\ DOMAIN g \subseteq SomeFds /\ f \notin DOMAIN g
  BY <1>1, <1>5 DEF Partial, Enters
<1>7. PICK h : h = connection_map_'
  OBVIOUS
<1>8. h = [x \in DOMAIN g \cup {f} |-> IF x = f THEN c ELSE g[x]]
  BY <1>5, <1>7 DEF Enters, With
<1>9. DOMAIN h = DOMAIN g \cup {f} /\ h[f] = c /\ \A x \in DOMAIN g : h[x] = g[x]
  BY <1>6, <1>8
<1>10. h \in [DOMAIN h -> Conns] /\ DOMAIN h \subseteq SomeFds
  BY <1>6, <1>8, <1>9
<1>11. h \in Partial(SomeFds, Conns)
  BY <1>10, PartialIs
<1>12. \A b \in Conns : b # c => (InMap(b)' <=> InMap(b))
  BY <1>3, <1>5, <1>6, <1>7, <1>9 DEF InMap
<1>13. \A b \in Conns : b # c => (Dying(b)' <=> Dying(b))
  <2> SUFFICES ASSUME NEW b \in Conns, b # c PROVE Dying(b)' <=> Dying(b)
    OBVIOUS
  <2>1. conn[b].loop \in Loops /\ conn'[b].loop = conn[b].loop
    BY <1>1, <1>3 DEF ConnRec
  <2>2. b \notin Dials
    BY ServerAssumption
  <2>3. \A e \in Calls : e.c = b => (Has(todo', conn[b].loop, e) <=> Has(todo, conn[b].loop, e))
    BY <2>1, <2>2 DEF NewCalls
  <2> QED BY <2>1, <2>3 DEF Dying
<1>14. \A b \in Conns : b # c => SameConn(b)
  BY <1>3, <1>12, <1>13 DEF SameConn
<1>15. InMap(c)' /\ ~Made(c)'
  BY <1>4, <1>7, <1>9 DEF InMap, Made, Up, Down
<1>16. MapOK'
  <2>1. \A x \in DOMAIN g : conn[g[x]].fd = x /\ g[x] \in Conns
    BY <1>5, <1>6 DEF Base, MapOK
  <2>2. \A x \in DOMAIN g : g[x] # c
    <3>1. ~InMap(c)
      BY NoConnCalls DEF Enters
    <3> QED BY <1>5, <2>1, <3>1 DEF InMap
  <2>3. \A x \in DOMAIN h : conn'[h[x]].fd = x
    BY <1>3, <1>4, <1>9, <2>1, <2>2
  <2> QED BY <1>7, <2>3 DEF MapOK
<1> QED BY <1>3, <1>4, <1>7, <1>11, <1>14, <1>15, <1>16 DEF Linked

(* The channels that are still to be handled are not those of c.           *)
LEMMA EntersActive ==
    ASSUME Base, NEW c \in Conns, NEW f \in SomeFds, NEW m \in Loops, Enters(c, f, m),
           NewCalls(c, m), DialsStay, NEW k \in Loops,
           \A j \in DOMAIN work'[k] :
              work'[k][j].c = c \/ \E i \in DOMAIN work[k] : work[k][i].c = work'[k][j].c,
           NEW x, ActiveAt(k, x)
    PROVE  ActiveAt(k, x)'
<1>1. \A b \in Conns : b # c => SameConn(b) /\ conn'[b] = conn[b]
  BY EntersIs
<1>2. conn[c].state = "none" /\ connector' = connector
  BY DEF Enters
<1>3. ASSUME x \in Conns
      PROVE  Up(x)' /\ conn'[x].loop = k /\ \A j \in DOMAIN work'[k] : work'[k][j].c # x
  <2>1. Up(x) /\ conn[x].loop = k /\ \A j \in DOMAIN work[k] : work[k][j].c # x
    BY <1>3 DEF ActiveAt
  <2>2. x # c
    BY <1>2, <2>1 DEF Up
  <2>3. conn'[x] = conn[x]
    BY <1>1, <1>3, <2>2
  <2> QED BY <2>1, <2>2, <2>3 DEF Up
<1>4. ASSUME x \in Dials
      PROVE  /\ Waits(x)' /\ dial'[x].sock \in {"connected", "refused"}
             /\ k = connector'.loop /\ ~Under({"handleConnect"}, x)'
  <2>1. /\ Waits(x) /\ dial[x].sock \in {"connected", "refused"}
        /\ k = connector.loop /\ ~Under({"handleConnect"}, x)
    BY <1>4 DEF ActiveAt
  <2>2. SameDial(x)
    BY <1>4, <2>1 DEF DialsStay, Taken
  <2>3. ~Under({"handleConnect"}, x)'
    BY <2>1 DEF NewCalls, Under
  <2> QED BY <1>2, <2>1, <2>2, <2>3 DEF SameDial
<1> QED BY <1>3, <1>4 DEF ActiveAt

(* TcpServer::newConnection keeps the rest of the invariant. *)
LEMMA EntersKeeps ==
    ASSUME ServerInv, Running, NEW c \in Conns, NEW f \in SomeFds, NEW m \in Loops,
           Enters(c, f, m), NewCalls(c, m), DialsStay, Unowned(f),
           Types', StageOK', OrderOK', RestOK', OnceOK', ActiveOK'
    PROVE  ServerInv'
<1>1. Base /\ Wired
  BY DEF ServerInv
<1>2. /\ conn[c].state = "none"
      /\ poller' = poller /\ user' = user /\ fault' = fault /\ connector' = connector
      /\ left'.fails = 1 => left.fails = 1 /\ f # BadFd
  BY DEF Enters
<1>3. /\ \A b \in Conns : b # c => SameConn(b) /\ conn'[b] = conn[b]
      /\ conn'[c].state = "connecting" /\ conn'[c].fd = f /\ conn'[c].loop = m
      /\ conn'[c].events = {} /\ conn'[c].downs = 0
      /\ InMap(c)' /\ Linked(c)' /\ ~Made(c)' /\ MapOK'
  BY ONLY <1>1, EntersIs, c \in Conns, f \in SomeFds, m \in Loops, Enters(c, f, m), NewCalls(c, m),
          DialsStay
<1>4. /\ \A k \in Loops, e \in Calls : Has(todo, k, e) => e.c # c
      /\ ~InMap(c) /\ ~Dying(c) /\ ~Linked(c) /\ ~Made(c)
  BY ONLY <1>1, <1>2, NoConnCalls, c \in Conns
<1>5. Conns \cap Dials = {} /\ Timer \notin Conns \cup Dials
  BY ServerAssumption
<1>6. \A b \in Conns : b # c =>
        /\ Up(b)' <=> Up(b)
        /\ Made(b)' <=> Made(b)
        /\ Linked(b)' <=> Linked(b)
  BY <1>1, <1>3, ConnFrame DEF Base
<1>7. CallsOK'
  <2> SUFFICES ASSUME NEW k \in Loops, NEW e \in Calls, Has(todo', k, e) PROVE CallOK(k, e)'
    BY DEF CallsOK
  <2>1. CASE e.c = c
    <3>1. k = m /\ e.fn = "connectComplete" /\ e.ref
      BY <1>4, <2>1 DEF NewCalls
    <3> QED BY ONLY <1>3, <2>1, <3>1, c \in Conns DEF CallOK, DialFns
  <2>2. CASE e.c # c
    <3>1. Has(todo, k, e)
      BY <2>2 DEF NewCalls
    <3>2. CallOK(k, e)
      BY <1>1, <3>1 DEF Base, CallsOK
    <3>3. CASE e.c \in Dials /\ ~SameDial(e.c)
      <4>1. e.fn = "errorCb"
        BY <3>3 DEF NewCalls
      <4> QED BY ONLY <1>2, <3>2, <3>3, <4>1 DEF CallOK, DialFns
    <3>4. CASE ~(e.c \in Dials /\ ~SameDial(e.c))
      <4>1. connector'.loop = connector.loop /\ (Shared(e.c) => Shared(e.c)')
        BY <1>2 DEF Shared
      <4>2. e.c \in Conns => SameConn(e.c)
        BY <1>3, <2>2
      <4> QED BY ONLY <3>2, <3>4, <4>1, <4>2, CallFrame
    <3> QED BY <3>3, <3>4
  <2> QED BY <2>1, <2>2
<1>8. ConnOK'
  <2> SUFFICES ASSUME NEW b \in Conns
      PROVE  /\ Up(b)' => InMap(b)' /\ conn'[b].downs = 0 /\ "in" \in conn'[b].events
             /\ Down(b)' => conn'[b].events = {} /\ conn'[b].downs = 1
             /\ ~Made(b)' => conn'[b].events = {} /\ conn'[b].downs = 0
             /\ conn'[b].state = "connecting" => InMap(b)'
             /\ conn'[b].state = "none" => ~InMap(b)'
    BY DEF ConnOK
  <2>1. CASE b = c
    BY <1>3, <2>1 DEF Made
  <2>2. CASE b # c
    BY <1>1, <1>3, <2>2, ConnFrame DEF Base
  <2> QED BY <2>1, <2>2
<1>9. DialMapOK'
  <2>1. \A d \in Dials : dial'[d].fd = dial[d].fd
    BY DEF DialsStay, SameDial, Taken
  <2>2. \A x \in DOMAIN connector.conn_map : connector.conn_map[x] \in Dials
    BY <1>1 DEF Base, Types, Partial
  <2> QED BY <1>1, <1>2, <2>1, <2>2 DEF Base, DialMapOK
<1>10. \A d \in Dials : Waits(d)' <=> Waits(d)
  <2>1. \A d \in Dials : dial'[d].fd = dial[d].fd
    BY DEF DialsStay, SameDial, Taken
  <2> QED BY <1>2, <2>1 DEF Waits
<1>11. DialOK' /\ AddressOK'
  <2>1. ASSUME NEW d \in Dials, SameDial(d)
        PROVE  Under({"handleConnect", "newConnection"}, d)
                 => Under({"handleConnect", "newConnection"}, d)'
    BY <2>1 DEF NewCalls, Under
  <2>2. ASSUME NEW d \in Dials PROVE DialHas(d)' /\ AddressHas(d)'
    <3>1. CASE SameDial(d)
      <4>1. (DialHas(d) => DialHas(d)') /\ (AddressHas(d) => AddressHas(d)')
        BY <2>1, <3>1 DEF DialHas, AddressHas, SameDial, OpenDial
      <4>2. DialHas(d) /\ AddressHas(d)
        BY <1>1 DEF Base, DialOK, AddressOK, DialHas, AddressHas
      <4> QED BY <4>1, <4>2
    <3>2. CASE Taken(d)
      <4>1. AddressHas(d)
        BY <1>1 DEF Base, AddressOK, AddressHas
      <4> QED BY <1>10, <3>2, <4>1 DEF Taken, DialHas, AddressHas, OpenDial
    <3> QED BY <3>1, <3>2 DEF DialsStay
  <2> QED BY <2>2 DEF DialOK, AddressOK, DialHas, AddressHas
<1>12. FdOK'
  <2>1. \A d \in Dials : OpenDial(d)' => OpenDial(d) /\ SameDial(d) /\ dial'[d].fd = dial[d].fd
    BY DEF DialsStay, SameDial, Taken, OpenDial
  <2>2. \A b, x \in Conns : Linked(b)' /\ Linked(x)' /\ conn'[b].fd = conn'[x].fd => b = x
    BY <1>1, <1>3, <1>6 DEF Base, FdOK, Unowned
  <2>3. \A d, x \in Dials : OpenDial(d)' /\ OpenDial(x)' /\ dial'[d].fd = dial'[x].fd => d = x
    BY <1>1, <2>1 DEF Base, FdOK
  <2>4. \A b \in Conns, d \in Dials : Linked(b)' /\ OpenDial(d)' => conn'[b].fd # dial'[d].fd
    BY <1>1, <1>3, <1>6, <2>1 DEF Base, FdOK, Unowned
  <2>5. left'.fails = 1 => \A b \in Conns : conn'[b].state # "none" => conn'[b].fd # BadFd
    BY <1>1, <1>2, <1>3 DEF Base, FdOK
  <2> QED BY <2>2, <2>3, <2>4, <2>5 DEF FdOK
<1>13. UserOK'
  <2>1. \A u \in Users : \A b \in user[u].holds : Made(b) /\ b \in Conns
    BY <1>1 DEF Base, UserOK, Types, UserRec
  <2>2. \A u \in Users : \A b \in user[u].holds : Made(b)'
    BY <1>4, <1>6, <2>1
  <2> QED BY <1>1, <1>2, <2>2 DEF Base, UserOK
<1>14. \A b \in Conns : b # c => (Reg(b)' <=> Reg(b))
  BY <1>2, <1>3 DEF Reg
<1>15. ~Reg(c)'
  <2>1. ASSUME NEW x \in DOMAIN poller[m].channels PROVE poller[m].channels[x] # c
    BY <1>1, <1>2, NoConnChannel
  <2> QED BY <1>2, <1>3, <2>1 DEF Reg
<1>16. UpReg' /\ RegOK'
  <2>1. ~Up(c)'
    BY <1>3 DEF Made
  <2>2. UpReg'
    BY <1>1, <1>6, <1>14, <2>1 DEF Base, UpReg
  <2>3. RegOK'
    BY <1>1, <1>3, <1>6, <1>14, <1>15 DEF Wired, RegOK
  <2> QED BY <2>2, <2>3
<1>17. WaitsOK'
  BY <1>1, <1>2 DEF Wired, WaitsOK
<1>18. PollOK'
  <2> SUFFICES ASSUME NEW k \in Loops, NEW x \in DOMAIN poller[k].channels PROVE Owned(k, x)'
    BY <1>1, <1>2 DEF Wired, PollOK
  <2>1. Owned(k, x)
    BY <1>1 DEF Wired, PollOK
  <2>2. poller[k].channels[x] # c
    BY <1>1, <1>2, NoConnChannel
  <2>3. \A b \in Conns : b # c => conn'[b] = conn[b]
    BY <1>3
  <2> QED BY ONLY <1>2, <2>1, <2>2, <2>3 DEF Owned
<1> QED BY <1>3, <1>7, <1>8, <1>9, <1>11, <1>12, <1>13, <1>16, <1>17, <1>18
        DEF ServerInv, Base, Wired

(* getLoopForNewConnection picks a loop of the server. *)
NewLoop == IF thread_pool_.thread_num = 0 THEN 0 ELSE PoolIndex + 1
NewPool == [thread_pool_ EXCEPT !.next_loop_index = NewLoop]

(* The next loop is one of the pool's, and the pool stays in its range.    *)
LEMMA PoolLoop ==
    ASSUME Types
    PROVE  /\ NewLoop \in Loops
           /\ NewPool \in [thread_num : ThreadNums, next_loop_index : Nat]
           /\ NewPool.next_loop_index <= NewPool.thread_num
<1>1. /\ thread_pool_ \in [thread_num : ThreadNums, next_loop_index : Nat]
      /\ thread_pool_.next_loop_index <= thread_pool_.thread_num
  BY DEF Types
<1>2. PICK n : n = thread_pool_.thread_num
  OBVIOUS
<1>3. PICK i : i = thread_pool_.next_loop_index
  OBVIOUS
<1>4. n \in ThreadNums /\ n \in Nat /\ i \in Nat /\ i <= n
  BY <1>1, <1>2, <1>3, ServerAssumption
<1>5. NewLoop = IF n = 0 THEN 0 ELSE (IF i >= n THEN 0 ELSE i) + 1
  BY <1>2, <1>3 DEF NewLoop, PoolIndex
<1>6. NewLoop \in Nat /\ NewLoop <= n
  BY <1>4, <1>5
<1>7. NewLoop \in 0 .. n
  BY <1>4, <1>6
<1>8. NewLoop \in Loops
  BY <1>4, <1>7 DEF Loops
<1>9. /\ NewPool \in [thread_num : ThreadNums, next_loop_index : Nat]
      /\ NewPool.next_loop_index = NewLoop /\ NewPool.thread_num = n
  BY <1>1, <1>2, <1>6 DEF NewPool
<1> QED BY <1>6, <1>8, <1>9

(* A call for a new object lands on a stack ... *)
LEMMA LandHere ==
    ASSUME NEW T \in Vectors, NEW l \in Loops, NEW e \in Calls, Once(T), NoLife(T, e.c)
    PROVE  /\ Once(Put(T, l, <<e>>))
           /\ \A k \in Loops, x \in Calls : Has(Put(T, l, <<e>>), k, x) <=> Has(T, k, x) \/ (k = l /\ x = e)
<1>1. PICK s : s = <<e>>
  OBVIOUS
<1>2. s \in Seq(Calls) /\ DOMAIN s = {1} /\ s[1] = e
  BY <1>1, OneCall
<1>3. \A k \in Loops, x \in Calls : Has(Put(T, l, s), k, x) <=> Has(T, k, x) \/ (k = l /\ x = e)
  <2>1. \A k \in Loops, x \in Calls :
          Has(Put(T, l, s), k, x) <=> Has(T, k, x) \/ (k = l /\ \E i \in DOMAIN s : s[i] = x)
    BY <1>2, HasPut
  <2> QED BY <1>2, <2>1
<1>4. Once(Put(T, l, s))
  BY <1>2, OncePut
<1> QED BY <1>1, <1>3, <1>4

(* ... or in a task vector. *)
LEMMA LandThere ==
    ASSUME NEW T \in Vectors, NEW l \in Loops, NEW e \in Calls, Once(T), NoLife(T, e.c)
    PROVE  /\ Once(Add(T, l, e))
           /\ \A k \in Loops, x \in Calls : Has(Add(T, l, e), k, x) <=> Has(T, k, x) \/ (k = l /\ x = e)
BY OnceAdd, HasAdd

(* Nothing is under way for a connection that does not exist. *)
LEMMA NoConnLife ==
    ASSUME Base, NEW c \in Conns, conn[c].state = "none"
    PROVE  NoLife(todo, c)
<1>1. \A k \in Loops, e \in Calls : Has(todo, k, e) => e.c # c
  BY NoConnCalls
<1>2. todo \in Vectors
  BY TodoIs DEF Base
<1> QED BY <1>1, <1>2, NoLifeHas

(* A descriptor that accept() returns, -1 included, belongs to nobody.     *)
LEMMA AcceptedFd ==
    ASSUME Base, NEW f \in AcceptResults
    PROVE  /\ f \in SomeFds /\ f \notin DOMAIN connection_map_ /\ FreshFd(f)
           /\ f = BadFd => left.fails = 1
<1>1. CASE f \in FreeFds
  BY <1>1, FreeIs DEF SomeFds
<1>2. CASE f \notin FreeFds
  <2>1. f = BadFd /\ left.fails > 0
    BY <1>2 DEF AcceptResults
  <2>2. left.fails = 1
    BY <2>1 DEF Base, Types
  <2>3. \A b \in Conns : conn[b].state # "none" => conn[b].fd # BadFd
    BY <2>2 DEF Base, FdOK
  <2>4. \A b \in Conns : Linked(b) => conn[b].fd # f
    BY <2>1, <2>3, NoConnCalls
  <2>5. \A d \in Dials : OpenDial(d) => dial[d].fd # f
    <3>1. BadFd \notin Fds
      BY ServerAssumption DEF BadFd
    <3> QED BY <2>1, <3>1 DEF Base, DialOK
  <2>6. ASSUME f \in DOMAIN connection_map_ PROVE FALSE
    <3>1. PICK b \in Conns : b = connection_map_[f]
      BY <2>6 DEF Base, Types, Partial
    <3>2. conn[b].fd = f
      BY <2>6, <3>1 DEF Base, MapOK
    <3>3. Linked(b)
      BY <2>6, <3>1, <3>2 DEF Linked, InMap
    <3> QED BY <2>4, <3>2, <3>3
  <2> QED BY <2>1, <2>2, <2>4, <2>5, <2>6 DEF FreshFd, SomeFds
<1> QED BY <1>1, <1>2

(* Acceptor::handleAccept, with TcpServer::newConnection. *)
LEMMA HandleAcceptKeeps ==
    ASSUME ServerInv, NEW c \in Conns, NEW f, HandleAccept(c, f)
    PROVE  ServerInv'
<1>1. PICK z \in Loops : z = 0
  BY BaseLoop
<1>2. PICK m : m = NewLoop
  OBVIOUS
<1>3. PICK e : e = Call("connectComplete", c, TRUE)
  OBVIOUS
<1>4. /\ Running /\ round[z].stage = "handle" /\ work[z] = <<>> /\ round[z].active # <<>>
      /\ Head(round[z].active).c = Listen
      /\ left' = [left EXCEPT !.clients = @ - 1, !.fails = IF f = BadFd THEN @ - 1 ELSE @]
      /\ f \in AcceptResults
      /\ round' = [round EXCEPT ![z].active = Tail(round[z].active)]
      /\ connector' = connector /\ dial' = dial /\ peer' = peer
  BY <1>1 DEF HandleAccept, connectorVars
<1>5. /\ conn[c].state = "none"
      /\ conn' = [conn EXCEPT ![c] = NewConn(f, m)]
      /\ connection_map_' = IF f \in DOMAIN connection_map_ THEN connection_map_
                            ELSE With(connection_map_, f, c)
      /\ thread_pool_' = NewPool
      /\ work' = [work EXCEPT ![z] = (IF m = 0 THEN <<e>> ELSE <<>>) \o <<>>]
      /\ IF m = 0 THEN tasks' = tasks ELSE Queue(m, e)
      /\ poller' = poller /\ user' = user /\ fault' = fault
  BY <1>1, <1>2, <1>3 DEF HandleAccept, NewConnection, NewLoop, NewPool
<1>6. Base /\ Wired /\ Types /\ StageOK /\ OrderOK /\ RestOK /\ OnceOK /\ ActiveOK
  BY <1>4 DEF ServerInv, Base
<1>7. /\ m \in Loops /\ thread_pool_' \in [thread_num : ThreadNums, next_loop_index : Nat]
      /\ thread_pool_'.next_loop_index <= thread_pool_'.thread_num
  BY ONLY <1>2, <1>5, <1>6, PoolLoop
<1>8. /\ e \in Calls /\ e.fn = "connectComplete" /\ e.c = c /\ e.ref
  BY <1>3 DEF Calls, Call, Functions
<1>9. /\ f \in SomeFds /\ f \notin DOMAIN connection_map_ /\ FreshFd(f)
      /\ f = BadFd => left.fails = 1
  BY <1>4, <1>6, AcceptedFd
<1>10. /\ left' \in [data : Int, calls : Int, clients : Int, fails : {0, 1}]
       /\ left'.fails = 1 => left.fails = 1 /\ f # BadFd
  <2>1. left \in [data : Int, calls : Int, clients : Int, fails : {0, 1}]
    BY <1>6 DEF Types
  <2>2. PICK n : n = left.clients - 1
    OBVIOUS
  <2>3. PICK x : x = IF f = BadFd THEN left.fails - 1 ELSE left.fails
    OBVIOUS
  <2>4. n \in Int /\ x \in {0, 1} /\ (x = 1 => left.fails = 1 /\ f # BadFd)
    BY <1>9, <2>1, <2>2, <2>3
  <2>5. left' = [left EXCEPT !.clients = n, !.fails = x]
    BY <1>4, <2>2, <2>3
  <2>6. left' \in [data : Int, calls : Int, clients : Int, fails : {0, 1}]
    BY <2>1, <2>4, <2>5
  <2>7. left'.fails = x
    BY <2>1, <2>5
  <2> QED BY <2>4, <2>6, <2>7
<1>11. Enters(c, f, m)
  BY <1>4, <1>5, <1>9, <1>10 DEF Enters
<1>12. DialsStay
  BY <1>4 DEF DialsStay, SameDial, Waits
<1>13. /\ SameBatch /\ round' \in [Loops -> Rounds]
  <2>1. round \in [Loops -> Rounds] /\ Tail(round[z].active) \in Seq(Active)
    BY <1>4, <1>6 DEF Types, Rounds
  <2>2. round' = [round EXCEPT ![z] = [round[z] EXCEPT !.active = Tail(round[z].active)]]
    BY <1>4, <2>1
  <2>3. [round[z] EXCEPT !.active = Tail(round[z].active)] \in Rounds
    BY <2>1 DEF Rounds
  <2>4. /\ round' \in [Loops -> Rounds] /\ round'[z] = [round[z] EXCEPT !.active = Tail(round[z].active)]
        /\ \A k \in Loops : k # z => round'[k] = round[k]
    BY <2>1, <2>2, <2>3
  <2>5. round'[z].batch = round[z].batch /\ round'[z].next = round[z].next
    BY <2>1, <2>4 DEF Rounds
  <2> QED BY <2>4, <2>5 DEF SameBatch
<1>14. /\ work \in [Loops -> Seq(Calls)] /\ tasks \in [Loops -> Seq(Calls)] /\ todo \in Vectors
       /\ Once(todo) /\ NoLife(todo, e.c)
  BY <1>5, <1>6, <1>8, TodoIs, NoConnLife DEF Types, OnceOK
<1>15. /\ work' \in [Loops -> Seq(Calls)] /\ tasks' \in [Loops -> Seq(Calls)]
       /\ OnceOK' /\ OrderOK' /\ RestOK'
       /\ \A k \in Loops, x \in Calls : Has(todo', k, x) <=> Has(todo, k, x) \/ (k = m /\ x = e)
       /\ \A k \in Loops : \A j \in DOMAIN work'[k] :
             work'[k][j].c = c \/ \E i \in DOMAIN work[k] : work[k][i].c = work'[k][j].c
       /\ \A k \in Loops : k # z => work'[k] = work[k]
  <2>1. CASE m = 0
    <3>1. PICK s : s = <<e>>
      OBVIOUS
    <3>2. s \in Seq(Calls) /\ DOMAIN s = {1} /\ s[1] = e /\ Ordered(s)
      BY <1>8, <3>1, OneCall
    <3>3. s \o <<>> = s
      BY <3>2, ConcatEmptySeq
    <3>4. work' = [work EXCEPT ![z] = s \o work[z]] /\ work' = [work EXCEPT ![z] = s]
      BY <1>4, <1>5, <2>1, <3>1, <3>3
    <3>5. rest' = rest
      BY <1>5, <1>13, <2>1, RestStays
    <3>6. todo' = Put(todo, z, s)
      BY ONLY <1>6, <3>2, <3>4, <3>5, z \in Loops, PutIs
    <3>7. /\ Once(todo') /\ \A k \in Loops, x \in Calls : Has(todo', k, x) <=> Has(todo, k, x) \/ (k = z /\ x = e)
      BY ONLY <1>8, <1>14, <3>1, <3>6, z \in Loops, LandHere
    <3>8. work' \in [Loops -> Seq(Calls)] /\ work'[z] = s /\ \A k \in Loops : k # z => work'[k] = work[k]
      BY <1>14, <3>2, <3>4
    <3>9. OrderOK' /\ RestOK'
      BY <1>6, <3>2, <3>5, <3>8 DEF OrderOK, RestOK
    <3>10. \A k \in Loops : \A j \in DOMAIN work'[k] :
             work'[k][j].c = c \/ \E i \in DOMAIN work[k] : work[k][i].c = work'[k][j].c
      BY <1>8, <3>2, <3>8
    <3>11. tasks' \in [Loops -> Seq(Calls)]
      BY <1>5, <1>14, <2>1
    <3> QED BY <1>1, <2>1, <3>7, <3>8, <3>9, <3>10, <3>11 DEF OnceOK
  <2>2. CASE m # 0
    <3>1. <<>> \o <<>> = <<>>
      OBVIOUS
    <3>2. work' = work /\ Queue(m, e)
      BY <1>4, <1>5, <1>14, <2>2, <3>1
    <3>3. rest' = Add(rest, m, e) /\ todo' = Add(todo, m, e)
      BY ONLY <1>6, <1>7, <1>8, <1>13, <3>2, QueueIs
    <3>4. /\ Once(todo') /\ \A k \in Loops, x \in Calls : Has(todo', k, x) <=> Has(todo, k, x) \/ (k = m /\ x = e)
      BY ONLY <1>7, <1>8, <1>14, <3>3, LandThere
    <3>5. OrderOK' /\ RestOK'
      <4>1. rest \in Vectors
        BY <1>6, TodoIs
      <4>2. \A k \in Loops, x \in Calls : Has(rest', k, x) => Has(rest, k, x) \/ x = e
        BY <1>7, <1>8, <3>3, <4>1, HasAdd
      <4> QED BY <1>6, <1>8, <3>2, <4>2 DEF OrderOK, RestOK, TaskFns
    <3>6. tasks' \in [Loops -> Seq(Calls)]
      BY <1>7, <1>8, <1>14, <3>2 DEF Queue
    <3> QED BY <1>14, <3>2, <3>4, <3>5, <3>6 DEF OnceOK
  <2> QED BY <2>1, <2>2
<1>16. NewCalls(c, m)
  <2>1. \A k \in Loops, x \in Calls : Has(todo', k, x) /\ x.c \in Dials => SameDial(x.c)
    BY <1>4 DEF SameDial, Waits
  <2>2. \A k \in Loops, x \in Calls : Has(todo', k, x) <=> Has(todo, k, x) \/ (k = m /\ x = e)
    BY <1>15
  <2> QED BY ONLY <1>8, <2>1, <2>2 DEF NewCalls
<1>17. Unowned(f)
  BY <1>9 DEF Unowned, FreshFd
<1>18. ActiveOK' /\ StageOK'
  <2>1. ASSUME NEW k \in Loops, NEW x, ActiveAt(k, x) PROVE ActiveAt(k, x)'
    BY ONLY <1>6, <1>7, <1>9, <1>11, <1>12, <1>15, <1>16, <2>1, c \in Conns, k \in Loops, EntersActive
  <2>2. \A k \in Loops : k # z => work'[k] = work[k]
    BY <1>15
  <2>3. PICK a : a = Head(round[z].active).c
    OBVIOUS
  <2> QED BY ONLY <1>4, <1>6, <2>1, <2>2, <2>3, z \in Loops, ActiveTail
<1>19. Types'
  <2>1. conn' \in [Conns -> ConnRec] /\ connection_map_' \in Partial(SomeFds, Conns)
    BY ONLY <1>6, <1>7, <1>9, <1>11, <1>12, <1>16, c \in Conns, EntersIs
  <2> QED BY <1>4, <1>5, <1>6, <1>7, <1>10, <1>13, <1>15, <2>1 DEF Types
<1> QED BY ONLY ServerInv, <1>4, <1>7, <1>9, <1>11, <1>12, <1>15, <1>16, <1>17, <1>18, <1>19, c \in Conns,
                EntersKeeps

(* The call of newConnection for a dial. *)
LEMMA TakenCallee ==
    ASSUME ServerInv, NEW z \in Loops, Calling(z, "newConnection")
    PROVE  /\ Base /\ Wired /\ Running /\ Types /\ StageOK /\ OnceOK /\ OrderOK /\ RestOK /\ ActiveOK
           /\ work[z] # <<>> /\ Head(work[z]).fn = "newConnection"
           /\ Callee(z) \in Dials /\ ~Waits(Callee(z)) /\ dial[Callee(z)].sock = "connected"
           /\ dial[Callee(z)] \in DialRec /\ dial \in [Dials -> NoDial \cup DialRec]
           /\ dial[Callee(z)].fd \in Fds /\ OpenDial(Callee(z))
<1>1. /\ Running /\ work[z] # <<>> /\ Head(work[z]).fn = "newConnection"
  BY DEF Calling
<1>2. /\ Base /\ Wired /\ Types /\ StageOK /\ OnceOK /\ OrderOK /\ RestOK /\ ActiveOK
  BY <1>1 DEF ServerInv, Base
<1>3. work[z] \in Seq(Calls) /\ dial \in [Dials -> NoDial \cup DialRec]
  BY <1>2 DEF Types
<1>4. PICK e \in Calls : e = Head(work[z])
  BY <1>1, <1>3
<1>5. Has(todo, z, e)
  <2>1. Has(work, z, e)
    BY <1>1, <1>3, <1>4 DEF Has
  <2> QED BY <1>2, <2>1, TodoIs
<1>6. CallOK(z, e)
  BY <1>2, <1>5 DEF Base, CallsOK
<1>7. e.c \in Dials /\ ~Waits(e.c) /\ dial[e.c].sock = "connected"
  BY <1>1, <1>4, <1>6 DEF CallOK, DialFns
<1>8. OpenDial(e.c) /\ dial[e.c] \in DialRec
  BY <1>3, <1>7 DEF OpenDial, NoDial
<1>9. dial[e.c].fd \in Fds
  BY <1>2, <1>7, <1>8 DEF Base, DialOK
<1> QED BY <1>1, <1>2, <1>3, <1>4, <1>7, <1>8, <1>9 DEF Callee

(* The call e for a new connection is made by the base loop, or queued.    *)
Lands(z, e, m) ==
    /\ work' = [work EXCEPT ![z] = (IF m = 0 THEN <<e>> ELSE <<>>) \o Tail(work[z])]
    /\ IF m = 0 THEN tasks' = tasks ELSE Queue(m, e)
    /\ round' = round

(* What there is to call then. *)
TakenMembers(z, e, m, c) ==
    /\ work' \in [Loops -> Seq(Calls)] /\ tasks' \in [Loops -> Seq(Calls)]
    /\ OnceOK' /\ OrderOK' /\ RestOK' /\ StageOK'
    /\ \A k \in Loops, x \in Calls : Has(todo', k, x) <=> Has(Pop(todo, z), k, x) \/ (k = m /\ x = e)
    /\ NoLife(Pop(todo, z), Callee(z))
    /\ \A k \in Loops, x \in Calls : Has(Pop(todo, z), k, x) => Has(todo, k, x)
    /\ \A k \in Loops, x \in Calls :
          Has(todo, k, x) => Has(Pop(todo, z), k, x) \/ x = Head(work[z])
    /\ \A k \in Loops : \A j \in DOMAIN work'[k] :
          work'[k][j].c = c \/ \E i \in DOMAIN work[k] : work[k][i].c = work'[k][j].c

(* The base loop returns from that call: nothing moves the dial on after   *)
(* it, and the connection has one call, here or on another loop.           *)
LEMMA TakenCalls ==
    ASSUME Base, NEW z \in Loops, z = 0, work[z] # <<>>, Head(work[z]).fn = "newConnection",
           NEW c \in Conns, conn[c].state = "none",
           NEW e \in Calls, e.fn = "connectComplete", e.c = c, NEW m \in Loops,
           Lands(z, e, m)
    PROVE  TakenMembers(z, e, m, c)
<1>0. /\ work' = [work EXCEPT ![z] = (IF m = 0 THEN <<e>> ELSE <<>>) \o Tail(work[z])]
      /\ IF m = 0 THEN tasks' = tasks ELSE Queue(m, e)
      /\ round' = round
  BY DEF Lands
<1>1. Types /\ StageOK /\ OnceOK /\ OrderOK /\ RestOK
  BY DEF Base
<1>2. /\ work \in [Loops -> Seq(Calls)] /\ tasks \in [Loops -> Seq(Calls)] /\ todo \in Vectors
      /\ todo[z] # <<>> /\ Head(todo[z]) = Head(work[z]) /\ rest \in Vectors
  BY <1>1, TodoIs DEF Types
<1>3. PICK T : T = Pop(todo, z)
  OBVIOUS
<1>4. T \in Vectors /\ Once(T) /\ NoLife(T, Callee(z))
  <2>1. Once(T) /\ (MovesOn(z) => NoLife(T, Callee(z)))
    BY ONLY <1>1, <1>3, MovedOn, z \in Loops, work[z] # <<>>
  <2>2. MovesOn(z)
    BY DEF MovesOn, LifeFns
  <2> QED BY <1>2, <1>3, <2>1, <2>2, VecPop
<1>5. /\ \A k \in Loops, x \in Calls : Has(T, k, x) => Has(todo, k, x)
      /\ \A k \in Loops, x \in Calls : Has(todo, k, x) => Has(T, k, x) \/ x = Head(work[z])
  BY <1>2, <1>3, HasPop
<1>6. NoLife(T, c)
  <2>1. \A k \in Loops, x \in Calls : Has(T, k, x) => x.c # c
    BY <1>5, NoConnCalls
  <2> QED BY <1>4, <2>1, NoLifeHas
<1>7. PICK s : s = IF m = 0 THEN <<e>> ELSE <<>>
  OBVIOUS
<1>8. s \in Seq(Calls) /\ Fits(work[z], s) /\ \A i \in DOMAIN s : s[i] = e
  <2>1. e.fn \notin LastCalls /\ Head(work[z]).fn \notin AboveRead \cup AboveMessage
    BY DEF LastCalls, AboveRead, AboveMessage
  <2>2. Fits(work[z], <<e>>)
    BY <2>1, FitsOne
  <2>3. CASE m = 0
    BY <1>7, <2>2, <2>3, OneCall
  <2>4. CASE m # 0
    BY <1>7, <2>4, NoCall
  <2> QED BY <2>3, <2>4
<1>9. work' = [work EXCEPT ![z] = s \o Tail(work[z])] /\ Return(z, s)
  BY <1>0, <1>7 DEF Return
<1>10. Tail(work[z]) \in Seq(Calls) /\ s \o Tail(work[z]) \in Seq(Calls)
  BY <1>2, <1>8
<1>11. /\ work' \in [Loops -> Seq(Calls)] /\ work'[z] = s \o Tail(work[z])
       /\ \A k \in Loops : k # z => work'[k] = work[k]
  BY <1>2, <1>9, <1>10
<1>12. OrderOK'
  <2>1. Ordered(s \o Tail(work[z]))
    <3>1. work[z] \in Seq(Calls) /\ Ordered(work[z])
      BY <1>1, <1>2 DEF OrderOK
    <3> QED BY ONLY <1>8, <3>1, work[z] # <<>>, OrderPush
  <2> QED BY <1>1, <1>11, <2>1 DEF OrderOK
<1>13. StageOK'
  BY <1>0, <1>1, <1>11 DEF StageOK
<1>14. \A k \in Loops : \A j \in DOMAIN work'[k] :
          work'[k][j].c = c \/ \E i \in DOMAIN work[k] : work[k][i].c = work'[k][j].c
  <2>0. SUFFICES ASSUME NEW k \in Loops, NEW j \in DOMAIN work'[k], work'[k][j].c # c
        PROVE  \E i \in DOMAIN work[k] : work[k][i].c = work'[k][j].c
    BY ZenonT(20)
  <2>9. CASE k # z
    BY <1>11, <2>0, <2>9
  <2>10. SUFFICES ASSUME k = z PROVE \E i \in DOMAIN work[k] : work[k][i].c = work'[k][j].c
    BY <2>9
  <2>1. PICK w : w = work[z]
    OBVIOUS
  <2>2. w \in Seq(Calls) /\ w # <<>>
    BY <1>2, <2>1
  <2>3. PICK v : v = s \o Tail(w)
    OBVIOUS
  <2>4. j \in DOMAIN v /\ v[j] = work'[z][j] /\ v[j].c # c
    BY <1>11, <2>0, <2>1, <2>3, <2>10
  <2>5. j \in 1 .. Len(s) + Len(w) - 1 /\ Len(s) \in Nat /\ Len(w) \in Nat /\ Len(w) > 0
    BY ONLY <1>8, <2>2, <2>3, <2>4
  <2>6. CASE j <= Len(s)
    <3>1. v[j] = s[j] /\ j \in DOMAIN s
      BY <1>8, <2>2, <2>3, <2>5, <2>6
    <3> QED BY <1>8, <2>4, <3>1
  <2>7. CASE j > Len(s)
    <3>1. v[j] = w[j - Len(s) + 1] /\ j - Len(s) + 1 \in DOMAIN w
      <4>1. Tail(w) \in Seq(Calls) /\ Len(Tail(w)) = Len(w) - 1
            /\ \A i \in 1 .. Len(w) - 1 : Tail(w)[i] = w[i + 1]
        BY ONLY <2>2
      <4>2. PICK u : u = Tail(w)
        OBVIOUS
      <4>3. v = s \o u /\ u \in Seq(Calls) /\ s \in Seq(Calls) /\ Len(u) = Len(w) - 1
        BY <1>8, <2>3, <4>1, <4>2
      <4>4. v[j] = u[j - Len(s)] /\ j - Len(s) \in 1 .. Len(w) - 1
        <5>1. \A x, y \in Seq(Calls) : Len(x) \in Nat /\ Len(y) \in Nat
                /\ \A i \in 1 .. Len(y) : (x \o y)[Len(x) + i] = y[i]
          OBVIOUS
        <5>2. PICK i : i = j - Len(s)
          OBVIOUS
        <5>3. i \in 1 .. Len(u) /\ j = Len(s) + i
          BY ONLY <2>5, <2>7, <4>3, <5>2
        <5> QED BY <4>3, <5>1, <5>2, <5>3
      <4>5. j - Len(s) + 1 \in DOMAIN w
        BY ONLY <2>2, <2>5, <2>7
      <4> QED BY <4>1, <4>2, <4>4, <4>5
    <3> QED BY <2>0, <2>1, <2>4, <2>10, <3>1
  <2>8. j <= Len(s) \/ j > Len(s)
    BY ONLY <2>5
  <2> QED BY ONLY <2>6, <2>7, <2>8
<1>15. /\ tasks' \in [Loops -> Seq(Calls)] /\ OnceOK' /\ RestOK'
       /\ \A k \in Loops, x \in Calls : Has(todo', k, x) <=> Has(T, k, x) \/ (k = m /\ x = e)
  <2>1. CASE m = 0
    <3>1. rest' = rest /\ todo' = Put(T, z, s) /\ s = <<e>>
      BY <1>0, <1>1, <1>3, <1>7, <1>8, <1>9, <2>1, ReturnIs
    <3>2. /\ Once(todo') /\ \A k \in Loops, x \in Calls : Has(todo', k, x) <=> Has(T, k, x) \/ (k = z /\ x = e)
      BY <1>4, <1>6, <3>1, LandHere
    <3> QED BY <1>0, <1>1, <1>2, <2>1, <3>1, <3>2 DEF OnceOK, RestOK
  <2>2. CASE m # 0
    <3>1. Queue(m, e) /\ s = <<>>
      BY <1>0, <1>7, <2>2
    <3>2. PICK S : S = Put(T, z, s)
      OBVIOUS
    <3>3. rest' = Add(rest, m, e) /\ todo' = Add(S, m, e)
      <4>1. s \in Seq(Calls) /\ Return(z, s)
        BY <1>8, <1>9
      <4>2. Queue(m, e)
        BY <3>1
      <4>3. Types /\ StageOK
        BY <1>1
      <4>5. round' = round
        BY <1>0
      <4>4. rest' = Add(rest, m, e) /\ todo' = Add(Put(Pop(todo, z), z, s), m, e)
        BY ONLY <4>1, <4>2, <4>3, ReturnQueueIs, z \in Loops, m \in Loops, e \in Calls,
                work[z] # <<>>, <4>5
      <4> QED BY <1>3, <3>2, <4>4
    <3>4. DOMAIN s = {}
      BY <3>1
    <3>5. S \in Vectors /\ Once(S)
      BY <1>4, <1>8, <3>2, <3>4, VecPut, OncePut
    <3>6. \A k \in Loops, x \in Calls : Has(S, k, x) <=> Has(T, k, x)
      BY <1>4, <1>8, <3>2, <3>4, HasPut
    <3>7. NoLife(S, c)
      BY <1>4, <1>6, <3>5, <3>6, NoLifeHas
    <3>8. /\ Once(todo') /\ \A k \in Loops, x \in Calls : Has(todo', k, x) <=> Has(S, k, x) \/ (k = m /\ x = e)
      BY ONLY <3>3, <3>5, <3>7, LandThere, m \in Loops, e \in Calls, e.c = c
    <3>9. tasks' \in [Loops -> Seq(Calls)]
      <4>1. Append(tasks[m], e) \in Seq(Calls)
        BY <1>2
      <4> QED BY <1>2, <3>1, <4>1 DEF Queue
    <3>10. RestOK'
      <4>1. \A k \in Loops, x \in Calls : Has(rest', k, x) => Has(rest, k, x) \/ x = e
        BY <1>2, <3>3, HasAdd
      <4> QED BY <1>1, <4>1 DEF RestOK, TaskFns
    <3> QED BY <3>6, <3>8, <3>9, <3>10 DEF OnceOK
  <2> QED BY <2>1, <2>2
<1> QED BY <1>3, <1>4, <1>5, <1>11, <1>12, <1>13, <1>14, <1>15 DEF TakenMembers

(* newConnection for a socket of the Connector, on the base loop. *)
LEMMA TakeOverKeeps ==
    ASSUME ServerInv, NEW c \in Conns, TakeOver(c)
    PROVE  ServerInv'
<1>1. PICK z \in Loops : z = 0
  BY BaseLoop
<1>2. PICK m : m = NewLoop
  OBVIOUS
<1>3. PICK e : e = Call("connectComplete", c, TRUE)
  OBVIOUS
<1>4. PICK d : d = Callee(z)
  OBVIOUS
<1>5. PICK f : f = dial[d].fd
  OBVIOUS
<1>6. /\ Calling(z, "newConnection")
      /\ dial' = [dial EXCEPT ![d].sock = "taken"]
      /\ peer' = [peer EXCEPT ![c].closed = (dial[d].target.text = <<>>)]
      /\ connector' = connector /\ round' = round /\ left' = left
  BY <1>1, <1>4 DEF TakeOver
<1>7. /\ conn[c].state = "none"
      /\ conn' = [conn EXCEPT ![c] = NewConn(f, m)]
      /\ connection_map_' = IF f \in DOMAIN connection_map_ THEN connection_map_
                            ELSE With(connection_map_, f, c)
      /\ thread_pool_' = NewPool
      /\ work' = [work EXCEPT ![z] = (IF m = 0 THEN <<e>> ELSE <<>>) \o Tail(work[z])]
      /\ IF m = 0 THEN tasks' = tasks ELSE Queue(m, e)
      /\ poller' = poller /\ user' = user /\ fault' = fault
  BY <1>1, <1>2, <1>3, <1>4, <1>5 DEF TakeOver, NewConnection, NewLoop, NewPool
<1>8. /\ Base /\ Wired /\ Running /\ Types /\ StageOK /\ OnceOK /\ OrderOK /\ RestOK /\ ActiveOK
      /\ work[z] # <<>> /\ Head(work[z]).fn = "newConnection"
      /\ d \in Dials /\ ~Waits(d) /\ dial[d].sock = "connected"
      /\ dial[d] \in DialRec /\ dial \in [Dials -> NoDial \cup DialRec]
      /\ f \in Fds /\ OpenDial(d)
  BY <1>4, <1>5, <1>6, TakenCallee
<1>9. /\ m \in Loops /\ thread_pool_' \in [thread_num : ThreadNums, next_loop_index : Nat]
      /\ thread_pool_'.next_loop_index <= thread_pool_'.thread_num
  BY ONLY <1>2, <1>7, <1>8, PoolLoop
<1>10. e \in Calls /\ e.fn = "connectComplete" /\ e.c = c /\ e.ref
  BY <1>3 DEF Calls, Call, Functions
<1>11. f \in SomeFds /\ f # BadFd
  BY <1>8, ServerAssumption DEF SomeFds, BadFd
<1>12. /\ \A b \in Conns : Linked(b) => conn[b].fd # f
       /\ \A x \in Dials : OpenDial(x) /\ dial[x].fd = f => x = d
  BY <1>5, <1>8 DEF Base, FdOK
<1>13. f \notin DOMAIN connection_map_
  <2> SUFFICES ASSUME f \in DOMAIN connection_map_ PROVE FALSE
    OBVIOUS
  <2>1. PICK b \in Conns : b = connection_map_[f]
    BY <1>8 DEF Types, Partial
  <2>2. conn[b].fd = f
    BY <1>8, <2>1 DEF Base, MapOK
  <2>3. Linked(b)
    BY <2>1, <2>2 DEF Linked, InMap
  <2> QED BY <1>12, <2>2, <2>3
<1>14. /\ dial' \in [Dials -> NoDial \cup DialRec] /\ \A x \in Dials : x # d => dial'[x] = dial[x]
       /\ dial'[d].sock = "taken"
       /\ dial'[d].fd = dial[d].fd /\ dial'[d].at_once = dial[d].at_once
       /\ dial'[d].addr = dial[d].addr /\ dial'[d].target = dial[d].target
  <2>1. PICK r : r = [dial[d] EXCEPT !.sock = "taken"]
    OBVIOUS
  <2>2. dial' = [dial EXCEPT ![d] = r]
    BY <1>6, <2>1
  <2>3. /\ r \in DialRec /\ r.sock = "taken" /\ r.fd = dial[d].fd /\ r.at_once = dial[d].at_once
        /\ r.addr = dial[d].addr /\ r.target = dial[d].target
    BY <1>8, <2>1 DEF DialRec, Socks
  <2> QED BY <1>8, <2>2, <2>3
<1>15. Taken(d) /\ ~SameDial(d) /\ \A x \in Dials : x # d => SameDial(x)
  BY <1>6, <1>8, <1>14 DEF Taken, SameDial, Waits
<1>16. DialsStay
  BY <1>15 DEF DialsStay
<1>17. Unowned(f)
  BY <1>12, <1>15 DEF Unowned
<1>18. Enters(c, f, m)
  BY <1>6, <1>7, <1>11, <1>13 DEF Enters
<1>19. peer' \in [Conns -> [closed : BOOLEAN, data : BOOLEAN]]
  <2>1. peer \in [Conns -> [closed : BOOLEAN, data : BOOLEAN]]
    BY <1>8 DEF Types
  <2>2. PICK b \in BOOLEAN : b = (dial[d].target.text = <<>>)
    OBVIOUS
  <2>3. peer' = [peer EXCEPT ![c] = [peer[c] EXCEPT !.closed = b]]
    BY <1>6, <2>2
  <2>4. [peer[c] EXCEPT !.closed = b] \in [closed : BOOLEAN, data : BOOLEAN]
    BY <2>1
  <2> QED BY <2>1, <2>3, <2>4
<1>20. /\ work' \in [Loops -> Seq(Calls)] /\ tasks' \in [Loops -> Seq(Calls)]
       /\ OnceOK' /\ OrderOK' /\ RestOK' /\ StageOK'
       /\ \A k \in Loops, x \in Calls : Has(todo', k, x) <=> Has(Pop(todo, z), k, x) \/ (k = m /\ x = e)
       /\ NoLife(Pop(todo, z), Callee(z))
       /\ \A k \in Loops, x \in Calls : Has(Pop(todo, z), k, x) => Has(todo, k, x)
       /\ \A k \in Loops, x \in Calls :
             Has(todo, k, x) => Has(Pop(todo, z), k, x) \/ x = Head(work[z])
       /\ \A k \in Loops : \A j \in DOMAIN work'[k] :
             work'[k][j].c = c \/ \E i \in DOMAIN work[k] : work[k][i].c = work'[k][j].c
  <2>1. Lands(z, e, m)
    BY <1>6, <1>7 DEF Lands
  <2>2. Base /\ work[z] # <<>> /\ Head(work[z]).fn = "newConnection" /\ conn[c].state = "none"
    BY <1>7, <1>8
  <2>3. TakenMembers(z, e, m, c)
    BY ONLY <1>1, <1>9, <1>10, <2>1, <2>2, c \in Conns, TakenCalls
  <2> QED BY <2>3 DEF TakenMembers
<1>21. NewCalls(c, m)
  <2>1. \A k \in Loops, x \in Calls : Has(todo', k, x) =>
          Has(todo, k, x) \/ (x.c = c /\ k = m /\ x.fn = "connectComplete" /\ x.ref)
    BY <1>10, <1>20
  <2>2. \A k \in Loops, x \in Calls : Has(todo, k, x) =>
          Has(todo', k, x) \/ (x.c \in Dials /\ ~SameDial(x.c))
    BY <1>4, <1>8, <1>15, <1>20 DEF Callee
  <2>3. ASSUME NEW k \in Loops, NEW x \in Calls, Has(todo', k, x), x.c \in Dials
        PROVE  SameDial(x.c) \/ x.fn = "errorCb"
    <3>1. CASE x.c # d
      BY <1>15, <2>3, <3>1
    <3>2. CASE x.c = d
      <4>1. c \notin Dials
        BY ServerAssumption
      <4>2. Has(Pop(todo, z), k, x)
        BY <1>10, <1>20, <2>3, <4>1
      <4>3. CallOK(k, x)
        BY <1>8, <1>20, <4>2 DEF Base, CallsOK
      <4>4. Pop(todo, z) \in Vectors
        <5>1. todo \in Vectors /\ todo[z] # <<>>
          BY <1>8, TodoIs
        <5> QED BY <5>1, VecPop
      <4>5. x.fn \notin LifeFns
        <5>1. NoLife(Pop(todo, z), d)
          BY <1>4, <1>20
        <5> QED BY <3>2, <4>2, <4>4, <5>1, NoLifeHas
      <4>6. x.c \notin Conns
        BY <2>3, ServerAssumption
      <4> QED BY ONLY <4>3, <4>5, <4>6 DEF CallOK, DialFns, LifeFns
    <3> QED BY <3>1, <3>2
  <2> QED BY <2>1, <2>2, <2>3 DEF NewCalls
<1>22. ActiveOK'
  <2>1. ASSUME NEW k \in Loops, NEW x, ActiveAt(k, x) PROVE ActiveAt(k, x)'
    BY ONLY <1>8, <1>9, <1>11, <1>16, <1>18, <1>20, <1>21, <2>1, c \in Conns, k \in Loops, EntersActive
  <2>2. ASSUME NEW k \in Loops, NEW i \in DOMAIN round'[k].active, NEW x, x = round'[k].active[i].c
        PROVE  /\ \A j \in DOMAIN round'[k].active : round'[k].active[j].c = x => i = j
               /\ ActiveAt(k, x)'
    <3>1. i \in DOMAIN round[k].active /\ x = round[k].active[i].c
      BY <1>6, <2>2
    <3>2. /\ \A j \in DOMAIN round[k].active : round[k].active[j].c = x => i = j
          /\ ActiveAt(k, x)
      BY <1>8, <3>1, ActiveIs
    <3> QED BY <1>6, <2>1, <3>2
  <2> QED BY <2>2, ActiveNext
<1>23. Types'
  <2>1. conn' \in [Conns -> ConnRec] /\ connection_map_' \in Partial(SomeFds, Conns)
    BY ONLY <1>8, <1>9, <1>11, <1>16, <1>18, <1>21, c \in Conns, EntersIs
  <2> QED BY <1>6, <1>7, <1>8, <1>9, <1>14, <1>19, <1>20, <2>1 DEF Types
<1> QED BY ONLY ServerInv, <1>8, <1>9, <1>11, <1>16, <1>17, <1>18, <1>20, <1>21, <1>22, <1>23, c \in Conns,
                EntersKeeps

-----------------------------------------------------------------------------
(* The specification. *)

(* The poller of a loop that has its timer's channel only. *)
FirstPoller == UpdateChannel(EmptyPoller(Channels), Timer, TimerFd, {"in"})

(* It is a poller as the invariant wants it.                               *)
LEMMA FirstPollerIs ==
    /\ FirstPoller \in PollerRec /\ PollerOK(FirstPoller)
    /\ DOMAIN FirstPoller.channels = {TimerFd} /\ FirstPoller.channels[TimerFd] = Timer
<1>1. PICK p : p = EmptyPoller(Channels)
  OBVIOUS
<1>2. PICK g : g = [fd \in {} |-> 0]
  OBVIOUS
<1>3. DOMAIN g = {} /\ g \in [DOMAIN g -> Channels]
  BY <1>2
<1>4. g \in Partial(PollFds, Channels)
  BY <1>3, PartialIs
<1>5. /\ p.channels = g /\ p.pollfds = <<>> /\ p.crashed = FALSE
      /\ p = [channels |-> g, pollfds |-> <<>>, index |-> [c \in Channels |-> 0], crashed |-> FALSE]
  BY <1>1, <1>2 DEF EmptyPoller
<1>6. <<>> \in Seq(Entries) /\ [c \in Channels |-> 0] \in [Channels -> Nat]
  OBVIOUS
<1>7. p \in PollerRec
  BY <1>4, <1>5, <1>6 DEF PollerRec
<1>8. Len(p.pollfds) = 0 /\ 1 .. 0 = {}
  BY <1>5
<1>9. PollerOK(p)
  BY <1>3, <1>5, <1>8 DEF PollerOK
<1>10. /\ TimerFd \in PollFds /\ Timer \in Channels /\ {"in"} \in SUBSET Events
  BY DEF PollFds, Channels, Events
<1>11. PICK q : q = UpdateChannel(p, Timer, TimerFd, {"in"})
  OBVIOUS
<1>12. TimerFd \notin DOMAIN p.channels /\ \A x \in DOMAIN p.channels : p.channels[x] # Timer
  BY <1>3, <1>5
<1>13. q \in PollerRec /\ PollerOK(q) /\ q.channels = With(g, TimerFd, Timer)
  BY ONLY <1>5, <1>7, <1>9, <1>10, <1>11, <1>12, PollInsert
<1>14. DOMAIN q.channels = {TimerFd} /\ q.channels[TimerFd] = Timer
  BY <1>3, <1>13 DEF With
<1> QED BY <1>1, <1>11, <1>13, <1>14 DEF FirstPoller

(* At the start there is nothing to call, no connection and no dial. *)
LEMMA InitEmpty ==
    ASSUME Init
    PROVE  /\ \A l \in Loops : work[l] = <<>> /\ tasks[l] = <<>> /\ round[l].batch = <<>>
                               /\ round[l].next = 1 /\ round[l].active = <<>>
                               /\ round[l].stage = "poll"
           /\ \A l \in Loops : DOMAIN todo[l] = {} /\ DOMAIN rest[l] = {} /\ DOMAIN work[l] = {}
           /\ \A l \in Loops : \A e : ~Has(todo, l, e) /\ ~Has(rest, l, e)
<1>1. /\ tasks = [l \in Loops |-> <<>>] /\ work = [l \in Loops |-> <<>>]
      /\ round = [l \in Loops |-> [stage |-> "poll", batch |-> <<>>, next |-> 1, active |-> <<>>]]
  BY DEF Init
<1>2. \A l \in Loops : work[l] = <<>> /\ tasks[l] = <<>> /\ round[l].batch = <<>>
                               /\ round[l].next = 1 /\ round[l].active = <<>>
                               /\ round[l].stage = "poll"
  BY <1>1
<1>3. SubSeq(<<>>, 1, Len(<<>>)) = <<>> /\ <<>> \o <<>> = <<>> /\ DOMAIN <<>> = {}
  OBVIOUS
<1>4. \A l \in Loops : rest[l] = <<>> /\ todo[l] = <<>>
  BY <1>2, <1>3 DEF rest, todo
<1>5. \A l \in Loops : DOMAIN todo[l] = {} /\ DOMAIN rest[l] = {} /\ DOMAIN work[l] = {}
  BY <1>2, <1>3, <1>4
<1> QED BY <1>2, <1>5 DEF Has

(* Types. *)
LEMMA InitTypes ==
    ASSUME Friendly, Init
    PROVE  Types
<1>1. 0 \in Loops
  BY BaseLoop
<1>2. conn \in [Conns -> ConnRec]
  <2>1. PICK r : r = [NewConn(BadFd, 0) EXCEPT !.state = "none"]
    OBVIOUS
  <2>4. r = [state |-> "none", fd |-> BadFd, loop |-> 0, events |-> {},
             buffered |-> FALSE, fin |-> FALSE, downs |-> 0]
    BY <2>1 DEF NewConn
  <2>5. /\ "none" \in States /\ BadFd \in SomeFds /\ {} \in SUBSET Events /\ 0 \in 0 .. 2
    BY DEF States, SomeFds
  <2>2. r \in ConnRec
    BY <1>1, <2>4, <2>5 DEF ConnRec
  <2>3. conn = [c \in Conns |-> r]
    BY <2>1 DEF Init
  <2> QED BY <2>2, <2>3
<1>3. PICK g : g = [fd \in {} |-> Timer]
  OBVIOUS
<1>4. DOMAIN g = {} /\ g \in [DOMAIN g -> Conns] /\ g \in [DOMAIN g -> Dials]
  BY <1>3
<1>5. g \in Partial(SomeFds, Conns) /\ g \in Partial(Fds, Dials)
  BY <1>4, PartialIs
<1>6. connection_map_ \in Partial(SomeFds, Conns)
  BY <1>3, <1>5 DEF Init
<1>7. connector \in [loop : Loops, conn_map : Partial(Fds, Dials)]
  BY <1>3, <1>5 DEF Init
<1>8. /\ thread_pool_ \in [thread_num : ThreadNums, next_loop_index : Nat]
      /\ thread_pool_.next_loop_index <= thread_pool_.thread_num
  <2>1. thread_pool_ \in [thread_num : ThreadNums, next_loop_index : {0}]
    BY DEF Init
  <2>2. thread_pool_.thread_num \in Nat /\ thread_pool_.next_loop_index = 0
    BY <2>1, ServerAssumption
  <2> QED BY <2>1, <2>2
<1>9. dial \in [Dials -> NoDial \cup DialRec]
  BY DEF Init, NoDial
<1>10. poller \in [Loops -> PollerRec]
  BY FirstPollerIs DEF Init, FirstPoller, Channels
<1>11. tasks \in [Loops -> Seq(Calls)] /\ work \in [Loops -> Seq(Calls)]
  BY DEF Init
<1>12. round \in [Loops -> Rounds]
  <2>1. PICK r : r = [stage |-> "poll", batch |-> <<>>, next |-> 1, active |-> <<>>]
    OBVIOUS
  <2>2. r \in Rounds
    BY <2>1 DEF Rounds
  <2> QED BY <2>1, <2>2 DEF Init
<1>13. user \in [Users -> UserRec]
  BY DEF Init, UserRec, Ops
<1>14. peer \in [Conns -> [closed : BOOLEAN, data : BOOLEAN]]
  BY DEF Init
<1>15. left \in [data : Int, calls : Int, clients : Int, fails : {0, 1}]
  <2>1. MaxData \in Nat /\ MaxUserCalls \in Nat /\ MaxClients \in Nat /\ MaxAcceptFails \in {0, 1}
    BY ServerAssumption DEF Friendly
  <2> QED BY <2>1 DEF Init
<1>16. fault \in {"none", "null", "emptyFunction"}
  BY DEF Init
<1> QED BY <1>2, <1>6, <1>7, <1>8, <1>9, <1>10, <1>11, <1>12, <1>13, <1>14, <1>15, <1>16 DEF Types

(* The invariant holds at the start. *)
LEMMA InitInv ==
    ASSUME Friendly, Init
    PROVE  ServerInv
<1>1. Types
  BY InitTypes
<1>2. /\ \A l \in Loops : work[l] = <<>> /\ tasks[l] = <<>> /\ round[l].batch = <<>>
                               /\ round[l].next = 1 /\ round[l].active = <<>>
                               /\ round[l].stage = "poll"
      /\ \A l \in Loops : DOMAIN todo[l] = {} /\ DOMAIN rest[l] = {} /\ DOMAIN work[l] = {}
      /\ \A l \in Loops : \A e : ~Has(todo, l, e) /\ ~Has(rest, l, e)
  BY InitEmpty
<1>3. StageOK
  BY <1>2 DEF StageOK
<1>4. OrderOK /\ RestOK /\ CallsOK /\ OnceOK
  BY <1>2 DEF OrderOK, Ordered, RestOK, CallsOK, OnceOK, Once
<1>5. ActiveOK
  <2>1. \A l \in Loops : DOMAIN round[l].active = {}
    BY <1>2
  <2> QED BY <2>1 DEF ActiveOK
<1>6. \A c \in Conns : /\ conn[c].state = "none" /\ conn[c].fd = BadFd
                       /\ conn[c].events = {} /\ conn[c].downs = 0
  BY DEF Init, NewConn
<1>7. DOMAIN connection_map_ = {} /\ DOMAIN connector.conn_map = {}
  BY DEF Init
<1>8. ConnOK /\ MapOK
  BY <1>6, <1>7 DEF ConnOK, MapOK, Up, Down, Made, InMap
<1>9. \A d \in Dials : dial[d].sock = "none" /\ dial[d].fd = BadFd
  BY DEF Init
<1>10. DialMapOK /\ DialOK /\ AddressOK
  BY <1>7, <1>9 DEF DialMapOK, DialOK, AddressOK, Waits, OpenDial
<1>11. \A c \in Conns : ~Linked(c) /\ ~Made(c) /\ ~Up(c)
  <2>1. \A c \in Conns : conn[c].loop \in Loops
    BY <1>1 DEF Types, ConnRec
  <2> QED BY <1>2, <1>6, <1>7, <2>1 DEF Linked, InMap, Dying, Made, Up, Down
<1>12. FdOK
  BY <1>6, <1>9, <1>11 DEF FdOK, OpenDial
<1>13. UserOK
  BY DEF Init, UserOK
<1>14. UpReg
  BY <1>11 DEF UpReg
<1>15. \A l \in Loops : poller[l] = FirstPoller
  BY DEF Init, FirstPoller, Channels
<1>16. TimerFd \notin Fds /\ Timer \notin Conns \cup Dials
  BY ServerAssumption
<1>17. PollOK
  BY <1>15, FirstPollerIs DEF PollOK, Owned
<1>18. RegOK
  <2>1. \A c \in Conns : conn[c].loop \in Loops
    BY <1>1 DEF Types, ConnRec
  <2>2. \A c \in Conns : ~Reg(c)
    BY <1>15, <1>16, <2>1, FirstPollerIs DEF Reg
  <2> QED BY <1>11, <2>2 DEF RegOK
<1>19. WaitsOK
  BY <1>7 DEF WaitsOK
<1> QED BY <1>1, <1>3, <1>4, <1>5, <1>8, <1>10, <1>12, <1>13, <1>14, <1>17, <1>18, <1>19
        DEF ServerInv, Base, Wired

(* Every step of the server keeps the invariant, ... *)
LEMMA NextKeeps ==
    ASSUME Friendly, ServerInv, Next
    PROVE  ServerInv'
<1>1. ASSUME NEW l \in Loops, LoopStep(l) PROVE ServerInv'
  <2>1. CASE Poll(l)
    BY <2>1, PollKeeps
  <2>2. CASE PollFaults(l)
    BY <2>2, PollFaultsKeeps
  <2>3. CASE HandleChannel(l)
    BY <2>3, HandleChannelKeeps
  <2>4. CASE SwapTasks(l)
    BY <2>4, SwapTasksKeeps
  <2>5. CASE RunTask(l)
    BY <2>5, RunTaskKeeps
  <2>6. CASE EndTasks(l)
    BY <2>6, EndTasksKeeps
  <2>7. CASE ConnectComplete(l)
    BY <2>7, ConnectCompleteKeeps
  <2>8. CASE ConnectCb(l)
    BY <2>8, ConnectCbKeeps
  <2>9. CASE MessageCb(l)
    BY <2>9, MessageCbKeeps
  <2>10. CASE WriteCb(l)
    BY <2>10, WriteCbKeeps
  <2>11. CASE HandleRead(l)
    BY <2>11, HandleReadKeeps
  <2>12. CASE HandleError(l)
    BY <2>12, HandleErrorKeeps
  <2>13. CASE SendInLoop(l)
    BY <2>13, SendInLoopKeeps
  <2>14. CASE HandleWrite(l)
    BY <2>14, HandleWriteKeeps
  <2>15. CASE ShutdownInLoop(l)
    BY <2>15, ShutdownInLoopKeeps
  <2>16. CASE ForceCloseInLoop(l)
    BY <2>16, ForceCloseInLoopKeeps
  <2>17. CASE HandleClose(l)
    BY <2>17, HandleCloseKeeps
  <2>18. CASE RemoveConnection(l)
    BY <2>18, RemoveConnectionKeeps
  <2>19. CASE RemoveConnectionInLoop(l)
    BY <2>19, RemoveConnectionInLoopKeeps
  <2>20. CASE DestroyConnection(l)
    BY <2>20, DestroyConnectionKeeps
  <2>21. CASE Remove(l)
    BY <2>21, RemoveKeeps
  <2>22. CASE CallFaults(l)
    BY <2>22, CallFaultsKeeps
  <2>23. CASE l = 0 /\ \E c \in Conns, fd \in Fds \cup {BadFd} : HandleAccept(c, fd)
    BY <2>23, HandleAcceptKeeps
  <2> QED BY <1>1, <2>1, <2>2, <2>3, <2>4, <2>5, <2>6, <2>7, <2>8, <2>9, <2>10, <2>11, <2>12,
             <2>13, <2>14, <2>15, <2>16, <2>17, <2>18, <2>19, <2>20, <2>21, <2>22, <2>23
          DEF LoopStep
<1>2. ASSUME NEW u \in Users, UserStep(u) PROVE ServerInv'
  BY <1>2, NoUserSet, UserPushKeeps DEF UserStep
<1>3. ASSUME NEW u \in Users, NEW c \in Conns,
             UserDrop(u, c) \/ \E o \in UserOps : UserCheck(u, o, c)
      PROVE  ServerInv'
  BY <1>3, UserDropKeeps, UserCheckKeeps
<1>4. ASSUME NEW c \in Conns, PeerSend(c) \/ PeerClose(c) PROVE ServerInv'
  BY <1>4, PeersKeep
<1> QED BY <1>1, <1>2, <1>3, <1>4 DEF Next

(* ... and so does every step with a connector beside it. *)
LEMMA ConnectorKeeps ==
    ASSUME Friendly, ServerInv, ConnectorNext
    PROVE  ServerInv'
<1>1. CASE Next
  BY <1>1, NextKeeps
<1>2. ASSUME NEW l \in Loops, DialStep(l) PROVE ServerInv'
  <2>1. CASE ConnectInLoop(l)
    BY <2>1, ConnectInLoopKeeps
  <2>2. CASE HandleDial(l)
    BY <2>2, HandleDialKeeps
  <2>3. CASE HandleConnect(l)
    BY <2>3, HandleConnectKeeps
  <2>4. CASE ErrorCb(l)
    BY <2>4, ErrorCbKeeps
  <2>5. CASE l = 0 /\ \E c \in Conns : TakeOver(c)
    BY <2>5, TakeOverKeeps
  <2> QED BY <1>2, <2>1, <2>2, <2>3, <2>4, <2>5 DEF DialStep
<1>3. ASSUME NEW d \in Dials, Resolve(d) PROVE ServerInv'
  BY <1>3, ResolveKeeps
<1>4. ASSUME NEW d \in Dials, NEW t \in Targets, Connect(d, t) \/ ConnectInPlace(d, t) PROVE ServerInv'
  BY <1>4, ConnectKeeps, ConnectInPlaceKeeps
<1> QED BY <1>1, <1>2, <1>3, <1>4 DEF ConnectorNext

(* A step that changes nothing. *)
LEMMA StutterKeeps ==
    ASSUME ServerInv, UNCHANGED vars
    PROVE  ServerInv'
<1>1. /\ conn' = conn /\ connection_map_' = connection_map_ /\ thread_pool_' = thread_pool_
      /\ connector' = connector /\ dial' = dial /\ poller' = poller /\ tasks' = tasks
      /\ round' = round /\ work' = work /\ user' = user /\ peer' = peer /\ fault' = fault
      /\ left' = left
  BY DEF vars
<1>2. rest' = rest
  BY <1>1 DEF rest
<1>3. todo' = todo
  BY <1>1, <1>2 DEF todo
<1>4. /\ \A c : (Up(c)' <=> Up(c)) /\ (Down(c)' <=> Down(c)) /\ (Made(c)' <=> Made(c))
                /\ (InMap(c)' <=> InMap(c)) /\ (Reg(c)' <=> Reg(c)) /\ (Shared(c)' <=> Shared(c))
                /\ (Waits(c)' <=> Waits(c)) /\ (OpenDial(c)' <=> OpenDial(c))
                /\ (Dying(c)' <=> Dying(c)) /\ (Linked(c)' <=> Linked(c))
  BY <1>1, <1>3 DEF Up, Down, Made, InMap, Reg, Shared, Waits, OpenDial, Dying, Linked
<1>5. \A c : \A fns : Under(fns, c)' <=> Under(fns, c)
  BY <1>3 DEF Under
<1>6. /\ Types' <=> Types
      /\ StageOK' <=> StageOK
      /\ OrderOK' <=> OrderOK
      /\ RestOK' <=> RestOK
      /\ OnceOK' <=> OnceOK
  BY <1>1, <1>2, <1>3 DEF Types, StageOK, OrderOK, RestOK, OnceOK
<1>7. \A l : \A e : CallOK(l, e)' <=> CallOK(l, e)
  BY <1>1, <1>4 DEF CallOK
<1>8. CallsOK' <=> CallsOK
  BY <1>3, <1>7 DEF CallsOK
<1>9. ActiveOK' <=> ActiveOK
  BY <1>1, <1>4, <1>5 DEF ActiveOK
<1>10. /\ ConnOK' <=> ConnOK
       /\ MapOK' <=> MapOK
       /\ DialMapOK' <=> DialMapOK
       /\ AddressOK' <=> AddressOK
       /\ UserOK' <=> UserOK
       /\ UpReg' <=> UpReg
  BY <1>1, <1>4 DEF ConnOK, MapOK, DialMapOK, AddressOK, UserOK, UpReg
<1>11. DialOK' <=> DialOK
  BY <1>1, <1>4, <1>5 DEF DialOK
<1>12. FdOK' <=> FdOK
  BY <1>1, <1>4 DEF FdOK
<1>13. \A l : \A f : Owned(l, f)' <=> Owned(l, f)
  BY <1>1 DEF Owned
<1>14. /\ PollOK' <=> PollOK
       /\ RegOK' <=> RegOK
       /\ WaitsOK' <=> WaitsOK
  BY <1>1, <1>4, <1>13 DEF PollOK, RegOK, WaitsOK
<1> QED BY <1>1, <1>6, <1>8, <1>9, <1>10, <1>11, <1>12, <1>14 DEF ServerInv, Base, Wired, Running

(* The invariant of a server with a connector, for a friendly application. *)
THEOREM ConnectorInvariant == ASSUME Friendly PROVE ConnectorSpec => []ServerInv
<1>1. Init => ServerInv
  BY InitInv
<1>2. ServerInv /\ [ConnectorNext]_vars => ServerInv'
  BY ConnectorKeeps, StutterKeeps
<1> QED BY <1>1, <1>2, PTL DEF ConnectorSpec

(* The invariant of a server alone: every step of it is one of both.       *)
THEOREM ServerInvariant == ASSUME Friendly PROVE Spec => []ServerInv
<1>1. Init => ServerInv
  BY InitInv
<1>2. ServerInv /\ [Next]_vars => ServerInv'
  BY NextKeeps, StutterKeeps
<1> QED BY <1>1, <1>2, PTL DEF Spec

-----------------------------------------------------------------------------
(* What the invariant says of memory and of the callbacks. *)
LEMMA LifeFacts ==
    ASSUME ServerInv
    PROVE  CloseOnce /\ NoMessageAfterClose /\ RegisteredAsItself /\ FreedIsGone
<1>1. Base
  BY DEF ServerInv
<1>3. CloseOnce
  <2> SUFFICES ASSUME NEW c \in Conns PROVE conn[c].downs <= 1
    BY DEF CloseOnce
  <2>1. conn[c].downs \in {0, 1}
    BY <1>1 DEF Base, ConnOK, Made
  <2> QED BY <2>1
<1>4. NoMessageAfterClose
  <2> SUFFICES ASSUME NEW l \in Loops, work[l] # <<>>, Head(work[l]).fn = "messageCb"
      PROVE  conn[Callee(l)].downs = 0
    BY DEF NoMessageAfterClose
  <2>1. work[l] \in Seq(Calls)
    BY <1>1 DEF Base, Types
  <2>2. PICK e \in Calls : e = Head(work[l])
    BY <2>1
  <2>3. Has(work, l, e)
    BY <2>1, <2>2 DEF Has
  <2>4. Has(todo, l, e)
    BY <1>1, <2>3, TodoIs DEF Base
  <2>5. CallOK(l, e)
    BY <1>1, <2>4 DEF Base, CallsOK
  <2>6. e.c \in Conns /\ Up(e.c)
    BY <2>2, <2>5 DEF CallOK, DialFns
  <2> QED BY <1>1, <2>2, <2>6 DEF Base, ConnOK, Callee
<1>5. RegisteredAsItself
  <2> SUFFICES ASSUME NEW c \in Conns, conn[c].events # {} PROVE Reg(c)
    BY DEF RegisteredAsItself, Reg
  <2>1. Up(c)
    BY <1>1 DEF Base, ConnOK, Made
  <2> QED BY <1>1, <2>1 DEF Base, UpReg
<1>6. FreedIsGone
  <2> SUFFICES ASSUME Running, NEW c \in Conns, Freed(c)
      PROVE  /\ conn[c].state = "disconnected"
             /\ \A l \in Loops : \A fd \in DOMAIN poller[l].channels : poller[l].channels[fd] # c
    BY DEF FreedIsGone
  <2>1. ~Linked(c) /\ conn[c].state # "none"
    BY <1>1, LinkedHeld DEF Freed
  <2>2. conn[c].state \in States
    BY <1>1 DEF Base, Types, ConnRec
  <2>3. conn[c].state = "disconnected"
    BY <1>1, <2>1, <2>2 DEF Base, ConnOK, Linked, Up, States
  <2>4. ASSUME NEW l \in Loops, NEW fd \in DOMAIN poller[l].channels, poller[l].channels[fd] = c
        PROVE  FALSE
    <3>1. Wired
      BY DEF ServerInv
    <3>2. Owned(l, fd) /\ c # Timer /\ c \notin Dials
      BY <3>1, ServerAssumption DEF Wired, PollOK
    <3>3. conn[c].fd = fd /\ conn[c].loop = l
      BY <2>4, <3>2 DEF Owned
    <3>4. Reg(c)
      BY <2>4, <3>3 DEF Reg
    <3> QED BY <2>1, <3>1, <3>4 DEF Wired, RegOK
  <2> QED BY <2>3, <2>4
<1> QED BY <1>3, <1>4, <1>5, <1>6

(* What a step that faults leaves of the question who holds a connection.  *)
SameHolders == /\ conn' = conn /\ connection_map_' = connection_map_ /\ tasks' = tasks
               /\ round' = round /\ work' = work /\ user' = user

(* The step changes no fault into a use of freed memory. *)
NoHarm == Running /\ fault' # "freed"

(* A freed object is only touched by a task of send(), bound to a raw this *)
(* by a thread that let its pointer go before the task had run.            *)
OnlyRawThis ==
    fault = "freed" => MayDangle /\ \E c \in Conns : Freed(c) /\ RawPending(c)

(* The steps of a loop, in three groups.                                   *)
LEMMA RoundHarm ==
    ASSUME NEW l \in Loops,
           \/ Poll(l) \/ HandleChannel(l) \/ SwapTasks(l)
           \/ RunTask(l) \/ EndTasks(l)
    PROVE  NoHarm
<1>1. CASE Poll(l)
  BY <1>1 DEF Poll, outside, NoHarm, Running
<1>2. CASE HandleChannel(l)
  <2>1. Running /\ fault' = fault
    BY <1>2 DEF HandleChannel, outside
  <2> QED BY <2>1 DEF NoHarm, Running
<1>3. CASE SwapTasks(l)
  BY <1>3 DEF SwapTasks, outside, NoHarm, Running
<1>4. CASE RunTask(l)
  BY <1>4 DEF RunTask, outside, NoHarm, Running
<1>5. CASE EndTasks(l)
  BY <1>5 DEF EndTasks, outside, NoHarm, Running
<1> QED BY <1>1, <1>2, <1>3, <1>4, <1>5

LEMMA CallbackHarm ==
    ASSUME NEW l \in Loops,
           \/ ConnectComplete(l) \/ ConnectCb(l) \/ MessageCb(l)
           \/ WriteCb(l) \/ HandleRead(l) \/ HandleError(l)
           \/ SendInLoop(l) \/ HandleWrite(l)
    PROVE  NoHarm
<1>1. CASE ConnectComplete(l)
  BY <1>1 DEF ConnectComplete, Calling, NoHarm, Running
<1>2. CASE ConnectCb(l)
  BY <1>2 DEF ConnectCb, Calling, NoHarm, Running
<1>3. CASE MessageCb(l)
  BY <1>3 DEF MessageCb, Calling, outside, NoHarm, Running
<1>4. CASE WriteCb(l)
  BY <1>4 DEF WriteCb, Calling, outside, NoHarm, Running
<1>5. CASE HandleRead(l)
  BY <1>5 DEF HandleRead, Calling, NoHarm, Running
<1>6. CASE HandleError(l)
  BY <1>6 DEF HandleError, Calling, outside, NoHarm, Running
<1>7. CASE SendInLoop(l)
  BY <1>7 DEF SendInLoop, Calling, outside, NoHarm, Running
<1>8. CASE HandleWrite(l)
  BY <1>8 DEF HandleWrite, Calling, outside, NoHarm, Running
<1> QED BY <1>1, <1>2, <1>3, <1>4, <1>5, <1>6, <1>7, <1>8

LEMMA CloseHarm ==
    ASSUME NEW l \in Loops,
           \/ ShutdownInLoop(l) \/ ForceCloseInLoop(l) \/ HandleClose(l)
           \/ RemoveConnection(l) \/ RemoveConnectionInLoop(l) \/ DestroyConnection(l)
           \/ Remove(l)
    PROVE  NoHarm
<1>1. CASE ShutdownInLoop(l)
  BY <1>1 DEF ShutdownInLoop, Calling, outside, NoHarm, Running
<1>2. CASE ForceCloseInLoop(l)
  BY <1>2 DEF ForceCloseInLoop, Calling, outside, NoHarm, Running
<1>3. CASE HandleClose(l)
  BY <1>3 DEF HandleClose, Calling, outside, NoHarm, Running
<1>4. CASE RemoveConnection(l)
  BY <1>4 DEF RemoveConnection, Calling, outside, NoHarm, Running
<1>5. CASE RemoveConnectionInLoop(l)
  BY <1>5 DEF RemoveConnectionInLoop, Calling, outside, NoHarm, Running
<1>6. CASE DestroyConnection(l)
  BY <1>6 DEF DestroyConnection, Calling, outside, NoHarm, Running
<1>7. CASE Remove(l)
  BY <1>7 DEF Remove, Calling, NoHarm, Running
<1> QED BY <1>1, <1>2, <1>3, <1>4, <1>5, <1>6, <1>7

(* A new connection. *)
LEMMA AcceptHarm ==
    ASSUME NEW c \in Conns, NEW fd, HandleAccept(c, fd)
    PROVE  NoHarm
<1>1. Running /\ NewConnection(c, fd, <<>>)
  BY DEF HandleAccept
<1>2. fault' = fault
  BY <1>1 DEF NewConnection
<1> QED BY <1>1, <1>2 DEF NoHarm, Running

(* The threads and the peers. *)
LEMMA UserHarm ==
    ASSUME NEW u \in Users
    PROVE  /\ UserStep(u) => NoHarm
           /\ \A c \in Conns : UserDrop(u, c) => NoHarm
           /\ \A c \in Conns, o \in UserOps : UserCheck(u, o, c) => NoHarm
<1>1. UserSet(u) \/ UserPush(u) => NoHarm
  BY DEF UserSet, UserPush, NoHarm, Running
<1>2. \A c \in Conns : UserDrop(u, c) => NoHarm
  BY DEF UserDrop, NoHarm, Running
<1>3. \A c \in Conns, o \in UserOps : UserCheck(u, o, c) => NoHarm
  BY DEF UserCheck, NoHarm, Running
<1> QED BY <1>1, <1>2, <1>3 DEF UserStep

LEMMA PeerHarm ==
    ASSUME NEW c \in Conns, PeerSend(c) \/ PeerClose(c)
    PROVE  NoHarm
  BY DEF PeerSend, PeerClose, NoHarm, Running

(* The connector. *)
LEMMA DialHarm ==
    ASSUME NEW l \in Loops, DialStep(l)
    PROVE  NoHarm
<1>1. CASE ConnectInLoop(l)
  BY <1>1 DEF ConnectInLoop, Calling, outside, NoHarm, Running
<1>2. CASE HandleDial(l)
  BY <1>2 DEF HandleDial, outside, NoHarm, Running
<1>3. CASE HandleConnect(l)
  BY <1>3 DEF HandleConnect, Calling, NoHarm, Running
<1>4. CASE ErrorCb(l)
  BY <1>4 DEF ErrorCb, Calling, outside, NoHarm, Running
<1>5. ASSUME NEW c \in Conns, TakeOver(c) PROVE NoHarm
  <2>1. Running /\ NewConnection(c, dial[Callee(0)].fd, Tail(work[0]))
    BY <1>5 DEF TakeOver, Calling
  <2>2. fault' = fault
    BY <2>1 DEF NewConnection
  <2> QED BY <2>1, <2>2 DEF NoHarm, Running
<1> QED BY <1>1, <1>2, <1>3, <1>4, <1>5 DEF DialStep

LEMMA AskHarm ==
    ASSUME NEW d \in Dials,
           Resolve(d) \/ \E t \in Targets : Connect(d, t) \/ ConnectInPlace(d, t)
    PROVE  NoHarm
<1>1. CASE Resolve(d)
  BY <1>1 DEF Resolve, outside, NoHarm, Running
<1>2. ASSUME NEW t \in Targets, Connect(d, t) PROVE NoHarm
  BY <1>2 DEF Connect, outside, NoHarm, Running
<1>3. ASSUME NEW t \in Targets, ConnectInPlace(d, t) PROVE NoHarm
  BY <1>3 DEF ConnectInPlace, outside, NoHarm, Running
<1> QED BY <1>1, <1>2, <1>3

(* A step that touches a freed object is a call of such a task. *)
LEMMA HarmIs ==
    ASSUME ServerInv, Next \/ ConnectorNext
    PROVE  NoHarm \/ (OnlyRawThis' /\ Running)
<1>1. ASSUME NEW l \in Loops, CallFaults(l) PROVE OnlyRawThis' /\ Running
  <2>1. MayDangle /\ \E c \in Conns : Freed(c) /\ RawPending(c)
    BY <1>1, CallFaultsIs
  <2>2. Running /\ SameHolders
    BY <1>1 DEF CallFaults, SameHolders, serverVars
  <2>3. \A c \in Conns : Freed(c)' = Freed(c) /\ RawPending(c)' = RawPending(c)
    BY <2>2 DEF SameHolders, Freed, Held, RawPending
  <2> QED BY <2>1, <2>2, <2>3 DEF OnlyRawThis, MayDangle
<1>2. ASSUME NEW l \in Loops, PollFaults(l) PROVE NoHarm
  BY <1>2, PollFaultsIs DEF PollFaults, NoHarm
<1>3. ASSUME NEW l \in Loops, LoopStep(l) PROVE NoHarm \/ (OnlyRawThis' /\ Running)
  BY <1>1, <1>2, <1>3, RoundHarm, CallbackHarm, CloseHarm, AcceptHarm DEF LoopStep
<1>4. CASE Next
  BY <1>3, <1>4, UserHarm, PeerHarm DEF Next
<1> QED BY <1>4, DialHarm, AskHarm DEF ConnectorNext

LEMMA OnlyRawThisStep ==
    ASSUME ServerInv, OnlyRawThis, Next \/ ConnectorNext \/ UNCHANGED vars
    PROVE  OnlyRawThis'
<1>1. CASE UNCHANGED vars
  <2>1. SameHolders /\ fault' = fault
    BY <1>1 DEF vars, SameHolders
  <2>2. \A c \in Conns : Freed(c)' = Freed(c) /\ RawPending(c)' = RawPending(c)
    BY <2>1 DEF SameHolders, Freed, Held, RawPending
  <2> QED BY <2>1, <2>2 DEF OnlyRawThis, MayDangle
<1>2. CASE Next \/ ConnectorNext
  BY <1>2, HarmIs DEF NoHarm, OnlyRawThis
<1> QED BY <1>1, <1>2

LEMMA OnlyRawThisInit ==
    ASSUME Init
    PROVE  OnlyRawThis
  BY DEF Init, OnlyRawThis

(* Threads may drop their pointer whenever they like, and an object is     *)
(* still only touched after its last shared_ptr is gone by the task that   *)
(* send() bound to a raw this: no handler, callback, close, removal or     *)
(* destruction, and no poll() of any loop, does.                           *)
THEOREM ServerUseAfterFreeNeedsRace ==
    ASSUME Friendly
    PROVE  Spec => [](OnlyRawThis /\ UseAfterFreeNeedsRace)
<1>1. Init => OnlyRawThis
  BY OnlyRawThisInit
<1>2. ServerInv /\ OnlyRawThis /\ [Next]_vars => OnlyRawThis'
  BY OnlyRawThisStep
<1>3. OnlyRawThis => UseAfterFreeNeedsRace
  BY DEF OnlyRawThis, UseAfterFreeNeedsRace
<1> QED BY <1>1, <1>2, <1>3, ServerInvariant, PTL DEF Spec

(* The same with a connector that hands sockets to the server. *)
THEOREM ConnectorUseAfterFreeNeedsRace ==
    ASSUME Friendly
    PROVE  ConnectorSpec => [](OnlyRawThis /\ UseAfterFreeNeedsRace)
<1>1. Init => OnlyRawThis
  BY OnlyRawThisInit
<1>2. ServerInv /\ OnlyRawThis /\ [ConnectorNext]_vars => OnlyRawThis'
  BY OnlyRawThisStep
<1>3. OnlyRawThis => UseAfterFreeNeedsRace
  BY DEF OnlyRawThis, UseAfterFreeNeedsRace
<1> QED BY <1>1, <1>2, <1>3, ConnectorInvariant, PTL DEF ConnectorSpec

(* So a process whose threads keep their pointer until the task of their   *)
(* send() has returned, or that calls send() from its callbacks only,      *)
(* touches no freed connection.                                            *)
THEOREM ServerNoUseAfterFree ==
    ASSUME Friendly, ~MayDangle
    PROVE  Spec => []NoUseAfterFree
<1>1. OnlyRawThis => NoUseAfterFree
  BY DEF OnlyRawThis, NoUseAfterFree
<1> QED BY <1>1, ServerUseAfterFreeNeedsRace, PTL

(* handleClose runs at most once per connection when callbacks act on      *)
(* their own connection, error_cb_ does not force a close and other        *)
(* threads only send: forceClose in a callback, the end of the stream and  *)
(* POLLHUP do not report it twice between them.  Without these conditions  *)
(* it fails (TcpServerStaleEvents.cfg for a callback that closes another   *)
(* connection, TcpServerErrorClose.cfg, TcpServerCloseTwice.cfg for        *)
(* another thread).                                                        *)
THEOREM ServerCloseOnce == ASSUME Friendly PROVE Spec => []CloseOnce
<1>1. ServerInv => CloseOnce
  BY LifeFacts
<1> QED BY <1>1, ServerInvariant, PTL

(* message_cb_ is never called after the connection was reported closed:   *)
(* the order of handleChannel and of the calls on a stack rules it out.    *)
THEOREM ServerNoMessageAfterClose == ASSUME Friendly PROVE Spec => []NoMessageAfterClose
<1>1. ServerInv => NoMessageAfterClose
  BY LifeFacts
<1> QED BY <1>1, ServerInvariant, PTL

(* A channel that asks for events is in channels_ of its loop's poller     *)
(* under its own descriptor, although descriptors are used again.          *)
THEOREM ServerRegisteredAsItself == ASSUME Friendly PROVE Spec => []RegisteredAsItself
<1>1. ServerInv => RegisteredAsItself
  BY LifeFacts
<1> QED BY <1>1, ServerInvariant, PTL

(* A connection is freed only after it was closed, taken out of the map of *)
(* the server and removed from the poller of its loop.                     *)
THEOREM ServerFreedIsGone == ASSUME Friendly PROVE Spec => []FreedIsGone
<1>1. ServerInv => FreedIsGone
  BY LifeFacts
<1> QED BY <1>1, ServerInvariant, PTL

-----------------------------------------------------------------------------
(* A descriptor has one registration: whoever a poller has it for is its   *)
(* owner.                                                                  *)
LEMMA RegistrationIs ==
    ASSUME ServerInv
    PROVE  OneRegistration
<1> SUFFICES ASSUME Running, NEW l \in Loops, NEW f \in DOMAIN poller[l].channels, f \in Fds,
                    NEW c, c = poller[l].channels[f]
    PROVE  /\ \A k \in Loops \ {l} : f \notin DOMAIN poller[k].channels
           /\ IF c \in Dials
              THEN l = connector.loop /\ f \in DOMAIN connector.conn_map
                                      /\ connector.conn_map[f] = c
              ELSE l = conn[c].loop /\ conn[c].fd = f
  BY DEF OneRegistration
<1>1. Base /\ Wired
  BY DEF ServerInv
<1>2. f # TimerFd /\ Conns \cap Dials = {}
  BY ServerAssumption
<1>3. ASSUME NEW k \in Loops, f \in DOMAIN poller[k].channels, NEW b, b = poller[k].channels[f]
      PROVE  \/ /\ b \in Conns /\ conn[b].fd = f /\ conn[b].loop = k /\ Linked(b)
             \/ /\ b \in Dials /\ k = connector.loop /\ f \in DOMAIN connector.conn_map
                /\ connector.conn_map[f] = b /\ dial[b].fd = f /\ OpenDial(b)
  <2>1. Owned(k, f)
    BY <1>1, <1>3 DEF Wired, PollOK
  <2>2. CASE b \in Conns
    <3>1. conn[b].fd = f /\ conn[b].loop = k
      BY <1>2, <1>3, <2>1, <2>2 DEF Owned
    <3>2. Reg(b)
      BY <1>3, <3>1 DEF Reg
    <3> QED BY <1>1, <2>2, <3>1, <3>2 DEF Wired, RegOK
  <2>3. CASE b \notin Conns
    <3>1. b \in Dials /\ k = connector.loop /\ f \in DOMAIN connector.conn_map
          /\ connector.conn_map[f] = b
      BY <1>2, <1>3, <2>1, <2>3 DEF Owned
    <3>2. dial[b].fd = f
      BY <1>1, <3>1 DEF Base, DialMapOK
    <3>3. OpenDial(b)
      BY <1>1, <3>1, <3>2 DEF Base, DialOK, Waits
    <3> QED BY <3>1, <3>2, <3>3
  <2> QED BY <2>2, <2>3
<1>4. ASSUME NEW k \in Loops, f \in DOMAIN poller[k].channels PROVE k = l
  <2>1. PICK b : b = poller[k].channels[f]
    OBVIOUS
  <2>2. \/ /\ b \in Conns /\ conn[b].fd = f /\ conn[b].loop = k /\ Linked(b)
        \/ /\ b \in Dials /\ k = connector.loop /\ f \in DOMAIN connector.conn_map
           /\ connector.conn_map[f] = b /\ dial[b].fd = f /\ OpenDial(b)
    BY <1>3, <1>4, <2>1
  <2>3. \/ /\ c \in Conns /\ conn[c].fd = f /\ conn[c].loop = l /\ Linked(c)
        \/ /\ c \in Dials /\ l = connector.loop /\ f \in DOMAIN connector.conn_map
           /\ connector.conn_map[f] = c /\ dial[c].fd = f /\ OpenDial(c)
    BY <1>3
  <2> QED BY <1>1, <2>2, <2>3 DEF Base, FdOK
<1>5. \/ /\ c \in Conns /\ conn[c].fd = f /\ conn[c].loop = l /\ Linked(c)
      \/ /\ c \in Dials /\ l = connector.loop /\ f \in DOMAIN connector.conn_map
         /\ connector.conn_map[f] = c /\ dial[c].fd = f /\ OpenDial(c)
  BY <1>3
<1> QED BY <1>2, <1>4, <1>5

(* A descriptor is in one poller only, for the connector's channel or for  *)
(* the connection made of it, whoever accepts, dials, closes and frees.    *)
THEOREM ConnectorOneRegistration == ASSUME Friendly PROVE ConnectorSpec => []OneRegistration
<1>1. ServerInv => OneRegistration
  BY RegistrationIs
<1> QED BY <1>1, ConnectorInvariant, PTL

-----------------------------------------------------------------------------
(* An IPv4 address is written as one word. *)
TextsFit == \A t \in Targets : ~t.ipv6 => t.text = <<>> \/ t.text = <<t.text[1]>>

(* What was dialled reads back from the words of the union, unless the     *)
(* family is IPv6, whose constructor stores at the wrong place.            *)
LEMMA ReadsBack ==
    ASSUME TextsFit, NEW t \in Targets, NEW a, a = FromText(t.text, PortDialled, t.ipv6),
           a.family # "inet6"
    PROVE  Ip(a) = t.text /\ Port(a) = PortDialled
<1>0. t.ipv6 \in BOOLEAN
  BY ConnectorAssumption
<1>1. PICK b : b = Blank(PortDialled, t.ipv6)
  OBVIOUS
<1>2. /\ b.family = IF t.ipv6 THEN "inet6" ELSE "inet"
      /\ b.port = SwapBytes(PortDialled) /\ b.words = [i \in 1 .. 6 |-> Zero]
      /\ b = [family |-> b.family, port |-> b.port, words |-> b.words]
  BY <1>1 DEF Blank
<1>3. SwapBytes(SwapBytes(PortDialled)) = PortDialled
  <2>1. SwapBytes(8080) = 36895
    BY DEF SwapBytes
  <2>2. SwapBytes(36895) = 8080
    BY DEF SwapBytes
  <2> QED BY <2>1, <2>2 DEF PortDialled
<1>4. CASE t.text = <<>>
  <2>1. a = [b EXCEPT !.family = "unspec"]
    BY <1>1, <1>4 DEF FromText
  <2>2. a.family = "unspec" /\ a.port = SwapBytes(PortDialled)
    BY <1>2, <2>1
  <2> QED BY <1>3, <1>4, <2>2 DEF Ip, Port
<1>5. CASE t.text # <<>>
  <2>1. ~t.ipv6
    <3>1. a = b \/ a = Store(b, 1, t.text)
      BY <1>1, <1>5 DEF FromText
    <3>2. a.family = b.family
      BY <1>2, <3>1 DEF Store
    <3> QED BY <1>0, <1>2, <3>2
  <2>2. PICK w : t.text = <<w>>
    BY <1>5, <2>1 DEF TextsFit
  <2>3. Len(<<w>>) = 1 /\ DOMAIN <<w>> = {1} /\ <<w>>[1] = w
    OBVIOUS
  <2>4. b.family = "inet" /\ AddrLen(b.family) = 1
    BY <1>2, <2>1 DEF AddrLen
  <2>5. a = Store(b, 1, <<w>>)
    BY <1>1, <1>5, <2>2, <2>3, <2>4 DEF FromText
  <2>6. PICK ws : ws = [i \in 1 .. 6 |-> IF i - 1 + 1 \in DOMAIN <<w>> THEN <<w>>[i - 1 + 1] ELSE b.words[i]]
    OBVIOUS
  <2>7. a = [b EXCEPT !.words = ws]
    BY <2>5, <2>6 DEF Store
  <2>8. a.family = "inet" /\ a.port = SwapBytes(PortDialled) /\ a.words = ws
    BY <1>2, <2>4, <2>7
  <2>9. ws[1] = w
    BY <2>3, <2>6
  <2>10. SubSeq(ws, 1, 1) = <<w>>
    <3>1. PICK S : S = {w}
      OBVIOUS
    <3>2. \A i \in 1 .. 1 : ws[i] \in S
      BY <2>9, <3>1
    <3>3. PICK u : u = SubSeq(ws, 1, 1)
      OBVIOUS
    <3>4. u \in Seq(S) /\ Len(u) = 1 /\ \A i \in 1 .. 1 : u[i] = ws[i]
      <4>1. SubSeq(ws, 1, 1) \in Seq(S)
        BY ONLY <3>2, SubSeqProperties
      <4>2. Len(SubSeq(ws, 1, 1)) = 1
        BY ONLY <3>2, SubSeqProperties
      <4>3. \A i \in 1 .. 1 - 1 + 1 : SubSeq(ws, 1, 1)[i] = ws[1 + i - 1]
        BY ONLY <3>2, SubSeqProperties
      <4>4. SubSeq(ws, 1, 1)[1] = ws[1]
        BY ONLY <4>3
      <4> QED BY <3>3, <4>1, <4>2, <4>4
    <3>5. PICK v : v = <<w>>
      OBVIOUS
    <3>6. v \in Seq(S) /\ Len(v) = 1 /\ v[1] = w
      BY <3>1, <3>5
    <3>7. \A i \in 1 .. Len(u) : u[i] = v[i]
      BY ONLY <2>9, <3>4, <3>6
    <3>8. u = v
      BY ONLY <3>4, <3>6, <3>7, SeqEqual
    <3> QED BY <3>3, <3>5, <3>8
  <2>11. Ip(a) = SubSeq(ws, 1, 1)
    BY <2>8 DEF Ip, AddrAt, AddrLen
  <2> QED BY <1>3, <2>2, <2>8, <2>10, <2>11 DEF Port
<1> QED BY <1>4, <1>5

(* A connection made of a socket that connected at once knows whom it was  *)
(* dialled to, however long the socket waited for the base loop.           *)
THEOREM ConnectorPeerAddressKept ==
    ASSUME Friendly, TextsFit PROVE ConnectorSpec => []PeerAddressKept
<1>1. ASSUME ServerInv PROVE PeerAddressKept
  <2> SUFFICES ASSUME NEW d \in Dials, dial[d].sock = "taken", dial[d].at_once
      PROVE  Ip(dial[d].addr) = dial[d].target.text /\ Port(dial[d].addr) = PortDialled
    BY DEF PeerAddressKept
  <2>1. dial[d] \in DialRec
    BY <1>1 DEF ServerInv, Base, Types, NoDial
  <2>2. PICK t \in Targets : t = dial[d].target
    BY <2>1 DEF DialRec
  <2>3. PICK a : a = dial[d].addr
    OBVIOUS
  <2>4. a = FromText(t.text, PortDialled, t.ipv6) /\ a.family # "inet6"
    BY <1>1, <2>2, <2>3 DEF ServerInv, Base, AddressOK
  <2>5. Ip(a) = t.text /\ Port(a) = PortDialled
    BY <2>4, ReadsBack
  <2> QED BY <2>2, <2>3, <2>5
<1>2. ServerInv => PeerAddressKept
  BY <1>1
<1> QED BY <1>2, ConnectorInvariant, PTL

-----------------------------------------------------------------------------
(* The place in todo[l] of what Pending looks at: the i-th call of the     *)
(* stack, of the batch and of the task vector.                             *)
Place(l, where, i) ==
    LET left_over == Len(round[l].batch) - round[l].next + 1 IN
    IF where = "work" THEN i
    ELSE IF where = "batch" THEN Len(work[l]) + (i - round[l].next + 1)
    ELSE Len(work[l]) + (left_over + i)

(* A call of a batch that is left, or of the vector behind it.             *)
EndIs(b, t, n, r) ==
    /\ r \in Seq(Calls) /\ Len(r) = (Len(b) - n + 1) + Len(t)
    /\ \A i \in n .. Len(b) : r[i - n + 1] = b[i]
    /\ \A i \in 1 .. Len(t) : r[(Len(b) - n + 1) + i] = t[i]

(* The rest of a vector with another behind it. *)
LEMMA EndAt ==
    ASSUME NEW b \in Seq(Calls), NEW t \in Seq(Calls), NEW n \in 1 .. Len(b) + 1,
           NEW v, v = SubSeq(b, n, Len(b)), NEW r, r = v \o t
    PROVE  EndIs(b, t, n, r)
<1>0. Len(b) \in Nat /\ n \in Int /\ 1 <= n /\ n <= Len(b) + 1 /\ Len(t) \in Nat
  OBVIOUS
<1>1. /\ v \in Seq(Calls) /\ Len(v) = Len(b) - n + 1
      /\ \A j \in 1 .. Len(b) - n + 1 : v[j] = b[n + j - 1]
  <2>1. \A j \in n .. Len(b) : b[j] \in Calls
    BY <1>0
  <2> QED BY <1>0, <2>1, SubSeqProperties
<1>2. /\ r \in Seq(Calls) /\ Len(r) = Len(v) + Len(t)
      /\ \A j \in 1 .. Len(v) + Len(t) : r[j] = IF j <= Len(v) THEN v[j] ELSE t[j - Len(v)]
  <2>1. \A x, y \in Seq(Calls) :
           /\ x \o y \in Seq(Calls) /\ Len(x \o y) = Len(x) + Len(y)
           /\ \A j \in 1 .. Len(x) + Len(y) :
                 (x \o y)[j] = IF j <= Len(x) THEN x[j] ELSE y[j - Len(x)]
    BY ConcatProperties
  <2> QED BY <1>1, <2>1
<1>3. ASSUME NEW i \in n .. Len(b) PROVE r[i - n + 1] = b[i]
  <2>0. PICK j : j = i - n + 1
    OBVIOUS
  <2>1. j \in 1 .. Len(b) - n + 1 /\ n + j - 1 = i
    BY <1>0, <2>0
  <2>2. r[j] = v[j]
    BY <1>0, <1>1, <1>2, <2>1
  <2>3. v[j] = b[i]
    BY <1>1, <2>1
  <2> QED BY <2>0, <2>2, <2>3
<1>4. ASSUME NEW i \in 1 .. Len(t) PROVE r[(Len(b) - n + 1) + i] = t[i]
  <2>1. /\ (Len(b) - n + 1) + i \in 1 .. (Len(b) - n + 1) + Len(t)
        /\ ~((Len(b) - n + 1) + i <= Len(b) - n + 1)
        /\ ((Len(b) - n + 1) + i) - (Len(b) - n + 1) = i
    BY <1>0
  <2> QED BY <1>1, <1>2, <2>1
<1> QED BY <1>1, <1>2, <1>3, <1>4 DEF EndIs

(* A call at one of the places Pending looks at is at that place of        *)
(* todo[l], and two places are the same only if they are one.              *)
Spots(l) ==
    {<<"work", i>> : i \in DOMAIN work[l]}
      \cup {<<"batch", i>> : i \in round[l].next .. Len(round[l].batch)}
      \cup {<<"tasks", i>> : i \in DOMAIN tasks[l]}
Vector(l, where) ==
    IF where = "work" THEN work[l] ELSE IF where = "batch" THEN round[l].batch ELSE tasks[l]

(* Every place of todo[l] is one of the three vectors' places, and of one. *)
LEMMA SpotIs ==
    ASSUME Types, StageOK, NEW l \in Loops
    PROVE  /\ \A s \in Spots(l) :
                 /\ Place(l, s[1], s[2]) \in DOMAIN todo[l]
                 /\ todo[l][Place(l, s[1], s[2])] = Vector(l, s[1])[s[2]]
           /\ \A s, t \in Spots(l) : Place(l, s[1], s[2]) = Place(l, t[1], t[2]) => s = t
           /\ \A k \in DOMAIN todo[l] : \E s \in Spots(l) : Place(l, s[1], s[2]) = k
<1>1. PICK w, b, t, n : w = work[l] /\ b = round[l].batch /\ t = tasks[l] /\ n = round[l].next
  OBVIOUS
<1>2. w \in Seq(Calls) /\ b \in Seq(Calls) /\ t \in Seq(Calls) /\ n \in 1 .. Len(b) + 1
  BY <1>1 DEF Types, Rounds, StageOK
<1>3. PICK v : v = SubSeq(b, n, Len(b))
  OBVIOUS
<1>4. PICK r : r = v \o t
  OBVIOUS
<1>5. /\ r \in Seq(Calls) /\ Len(r) = (Len(b) - n + 1) + Len(t)
      /\ \A i \in n .. Len(b) : r[i - n + 1] = b[i]
      /\ \A i \in 1 .. Len(t) : r[(Len(b) - n + 1) + i] = t[i]
  <2>1. EndIs(b, t, n, r)
    BY ONLY <1>2, <1>3, <1>4, EndAt
  <2> QED BY <2>1 DEF EndIs
<1>6. rest[l] = r
  BY <1>1, <1>3, <1>4 DEF rest
<1>7. PICK o : o = todo[l]
  OBVIOUS
<1>8. o = w \o r
  BY <1>1, <1>6, <1>7 DEF todo
<1>9. /\ o \in Seq(Calls) /\ Len(o) = Len(w) + Len(r)
      /\ \A j \in 1 .. Len(w) + Len(r) : o[j] = IF j <= Len(w) THEN w[j] ELSE r[j - Len(w)]
  <2>1. \A x, y \in Seq(Calls) :
           /\ x \o y \in Seq(Calls) /\ Len(x \o y) = Len(x) + Len(y)
           /\ \A j \in 1 .. Len(x) + Len(y) :
                 (x \o y)[j] = IF j <= Len(x) THEN x[j] ELSE y[j - Len(x)]
    BY ConcatProperties
  <2> QED BY <1>2, <1>5, <1>8, <2>1
<1>10. /\ Len(w) \in Nat /\ Len(b) \in Nat /\ Len(t) \in Nat /\ n \in Int /\ 1 <= n
       /\ n <= Len(b) + 1 /\ DOMAIN w = 1 .. Len(w) /\ DOMAIN t = 1 .. Len(t)
       /\ DOMAIN o = 1 .. Len(w) + ((Len(b) - n + 1) + Len(t))
  BY <1>2, <1>5, <1>9
<1>11. ASSUME NEW i \in 1 .. Len(w)
       PROVE  Place(l, "work", i) = i /\ i \in DOMAIN o /\ o[i] = w[i]
  BY <1>5, <1>9, <1>10 DEF Place
<1>12. ASSUME NEW i \in n .. Len(b), NEW p, p = Len(w) + (i - n + 1)
       PROVE  Place(l, "batch", i) = p /\ p \in DOMAIN o /\ o[p] = b[i]
  <2>1. Place(l, "batch", i) = p
    BY <1>1, <1>12 DEF Place
  <2>2. p \in 1 .. Len(w) + Len(r) /\ ~(p <= Len(w)) /\ p - Len(w) = i - n + 1
    BY <1>5, <1>10, <1>12
  <2>3. o[p] = r[i - n + 1]
    BY <1>9, <2>2
  <2> QED BY <1>5, <1>10, <2>1, <2>2, <2>3
<1>13. ASSUME NEW i \in 1 .. Len(t), NEW p, p = Len(w) + ((Len(b) - n + 1) + i)
       PROVE  Place(l, "tasks", i) = p /\ p \in DOMAIN o /\ o[p] = t[i]
  <2>1. Place(l, "tasks", i) = p
    BY <1>1, <1>13 DEF Place
  <2>2. p \in 1 .. Len(w) + Len(r) /\ ~(p <= Len(w)) /\ p - Len(w) = (Len(b) - n + 1) + i
    BY <1>5, <1>10, <1>13
  <2>3. o[p] = r[(Len(b) - n + 1) + i]
    BY <1>9, <2>2
  <2> QED BY <1>5, <1>10, <2>1, <2>2, <2>3
<1>14. Spots(l) = {<<"work", i>> : i \in 1 .. Len(w)}
                    \cup {<<"batch", i>> : i \in n .. Len(b)}
                    \cup {<<"tasks", i>> : i \in 1 .. Len(t)}
  BY <1>1, <1>10 DEF Spots
<1>15. ASSUME NEW s \in Spots(l)
       PROVE  /\ Place(l, s[1], s[2]) \in DOMAIN o
              /\ o[Place(l, s[1], s[2])] = Vector(l, s[1])[s[2]]
  <2>1. CASE \E i \in 1 .. Len(w) : s = <<"work", i>>
    BY <1>1, <1>11, <2>1 DEF Vector
  <2>2. CASE \E i \in n .. Len(b) : s = <<"batch", i>>
    BY <1>1, <1>12, <2>2 DEF Vector
  <2>3. CASE \E i \in 1 .. Len(t) : s = <<"tasks", i>>
    BY <1>1, <1>13, <2>3 DEF Vector
  <2> QED BY <1>14, <2>1, <2>2, <2>3
<1>16. ASSUME NEW s \in Spots(l)
       PROVE  \/ \E i \in 1 .. Len(w) : s = <<"work", i>> /\ Place(l, s[1], s[2]) = i
              \/ \E i \in n .. Len(b) :
                    s = <<"batch", i>> /\ Place(l, s[1], s[2]) = Len(w) + (i - n + 1)
              \/ \E i \in 1 .. Len(t) :
                    s = <<"tasks", i>> /\ Place(l, s[1], s[2]) = Len(w) + ((Len(b) - n + 1) + i)
  BY <1>11, <1>12, <1>13, <1>14
<1>17. ASSUME NEW s \in Spots(l), NEW u \in Spots(l),
              Place(l, s[1], s[2]) = Place(l, u[1], u[2])
       PROVE  s = u
  <2>1. PICK p : p = Place(l, s[1], s[2]) /\ p = Place(l, u[1], u[2])
    BY <1>17
  <2>2. PICK x : x = Len(b) - n + 1
    OBVIOUS
  <2>3. x \in Int /\ 0 <= x /\ Len(w) \in Nat
    BY <1>10, <2>2
  <2>4. ASSUME NEW z \in Spots(l), p = Place(l, z[1], z[2])
        PROVE  \/ p \in 1 .. Len(w) /\ z = <<"work", p>>
               \/ p \in Len(w) + 1 .. Len(w) + x /\ z = <<"batch", p - Len(w) + n - 1>>
               \/ p \in Int /\ p > Len(w) + x /\ z = <<"tasks", p - Len(w) - x>>
    <3>1. CASE \E i \in 1 .. Len(w) : z = <<"work", i>> /\ Place(l, z[1], z[2]) = i
      BY <2>4, <3>1
    <3>2. CASE \E i \in n .. Len(b) :
                  z = <<"batch", i>> /\ Place(l, z[1], z[2]) = Len(w) + (i - n + 1)
      <4>1. PICK i \in n .. Len(b) : z = <<"batch", i>> /\ p = Len(w) + (i - n + 1)
        BY <2>4, <3>2
      <4>2. i = p - Len(w) + n - 1 /\ p \in Len(w) + 1 .. Len(w) + x
        BY <1>10, <2>2, <4>1
      <4> QED BY <4>1, <4>2
    <3>3. CASE \E i \in 1 .. Len(t) :
                  z = <<"tasks", i>> /\ Place(l, z[1], z[2]) = Len(w) + ((Len(b) - n + 1) + i)
      <4>1. PICK i \in 1 .. Len(t) : z = <<"tasks", i>> /\ p = Len(w) + (x + i)
        BY <2>2, <2>4, <3>3
      <4>2. i = p - Len(w) - x /\ p \in Int /\ p > Len(w) + x
        BY <2>3, <4>1
      <4> QED BY <4>1, <4>2
    <3> QED BY <1>16, <3>1, <3>2, <3>3
  <2>5. CASE p \in 1 .. Len(w)
    <3>1. ASSUME NEW z \in Spots(l), p = Place(l, z[1], z[2]) PROVE z = <<"work", p>>
      <4>1. \/ p \in 1 .. Len(w) /\ z = <<"work", p>>
            \/ p \in Len(w) + 1 .. Len(w) + x /\ z = <<"batch", p - Len(w) + n - 1>>
            \/ p \in Int /\ p > Len(w) + x /\ z = <<"tasks", p - Len(w) - x>>
        BY <2>4, <3>1
      <4> QED BY ONLY <2>3, <2>5, <4>1
    <3> QED BY <2>1, <3>1
  <2>6. CASE p \in Len(w) + 1 .. Len(w) + x
    <3>1. ASSUME NEW z \in Spots(l), p = Place(l, z[1], z[2]) PROVE z = <<"batch", p - Len(w) + n - 1>>
      <4>1. \/ p \in 1 .. Len(w) /\ z = <<"work", p>>
            \/ p \in Len(w) + 1 .. Len(w) + x /\ z = <<"batch", p - Len(w) + n - 1>>
            \/ p \in Int /\ p > Len(w) + x /\ z = <<"tasks", p - Len(w) - x>>
        BY <2>4, <3>1
      <4> QED BY ONLY <2>3, <2>6, <4>1
    <3> QED BY <2>1, <3>1
  <2>7. CASE p \in Int /\ p > Len(w) + x
    <3>1. ASSUME NEW z \in Spots(l), p = Place(l, z[1], z[2]) PROVE z = <<"tasks", p - Len(w) - x>>
      <4>1. \/ p \in 1 .. Len(w) /\ z = <<"work", p>>
            \/ p \in Len(w) + 1 .. Len(w) + x /\ z = <<"batch", p - Len(w) + n - 1>>
            \/ p \in Int /\ p > Len(w) + x /\ z = <<"tasks", p - Len(w) - x>>
        BY <2>4, <3>1
      <4> QED BY ONLY <2>3, <2>7, <4>1
    <3> QED BY <2>1, <3>1
  <2> QED BY <2>1, <2>4, <2>5, <2>6, <2>7
<1>18. ASSUME NEW k \in DOMAIN o PROVE \E s \in Spots(l) : Place(l, s[1], s[2]) = k
  <2>1. CASE k <= Len(w)
    <3>1. k \in 1 .. Len(w)
      BY <1>10, <2>1
    <3>2. <<"work", k>> \in Spots(l) /\ Place(l, "work", k) = k
      BY <1>11, <1>14, <3>1
    <3> QED BY <3>2
  <2>2. CASE ~(k <= Len(w)) /\ k <= Len(w) + (Len(b) - n + 1)
    <3>1. PICK i : i = k - Len(w) + n - 1
      OBVIOUS
    <3>2. i \in n .. Len(b) /\ Len(w) + (i - n + 1) = k
      BY <1>10, <2>2, <3>1
    <3>3. <<"batch", i>> \in Spots(l) /\ Place(l, "batch", i) = k
      BY <1>12, <1>14, <3>2
    <3> QED BY <3>3
  <2>3. CASE ~(k <= Len(w) + (Len(b) - n + 1))
    <3>1. PICK i : i = k - Len(w) - (Len(b) - n + 1)
      OBVIOUS
    <3>2. i \in 1 .. Len(t) /\ Len(w) + ((Len(b) - n + 1) + i) = k
      BY <1>10, <2>3, <3>1
    <3>3. <<"tasks", i>> \in Spots(l) /\ Place(l, "tasks", i) = k
      BY <1>13, <1>14, <3>2
    <3> QED BY <3>3
  <2> QED BY <1>10, <2>1, <2>2, <2>3
<1> QED BY <1>7, <1>15, <1>17, <1>18

(* What Pending finds on one loop. *)
PendingOn(fn, d, l) ==
    {<<l, "tasks", i>> : i \in {j \in DOMAIN tasks[l] : tasks[l][j] = Call(fn, d, FALSE)}} \cup
    {<<l, "batch", i>> : i \in {j \in DOMAIN round[l].batch :
                                 /\ j >= round[l].next
                                 /\ round[l].batch[j] = Call(fn, d, FALSE)}} \cup
    {<<l, "work", i>> : i \in {j \in DOMAIN work[l] : work[l][j] = Call(fn, d, FALSE)}}

(* Pending, by the places of todo. *)
LEMMA PendingIs ==
    ASSUME Types, StageOK, NEW fn, NEW d, NEW p, p \in Pending(fn, d)
    PROVE  \E l \in Loops : \E s \in Spots(l) :
              p = <<l, s[1], s[2]>> /\ Vector(l, s[1])[s[2]] = Call(fn, d, FALSE)
<1>1. PICK l \in Loops :
         \/ \E i \in DOMAIN tasks[l] : p = <<l, "tasks", i>> /\ tasks[l][i] = Call(fn, d, FALSE)
         \/ \E i \in DOMAIN round[l].batch :
               /\ i >= round[l].next
               /\ p = <<l, "batch", i>> /\ round[l].batch[i] = Call(fn, d, FALSE)
         \/ \E i \in DOMAIN work[l] : p = <<l, "work", i>> /\ work[l][i] = Call(fn, d, FALSE)
  BY DEF Pending
<1>2. round[l].batch \in Seq(Calls) /\ round[l].next \in Nat
  BY DEF Types, Rounds
<1>3. ASSUME NEW i \in DOMAIN tasks[l], p = <<l, "tasks", i>>, tasks[l][i] = Call(fn, d, FALSE)
      PROVE  \E s \in Spots(l) : p = <<l, s[1], s[2]>> /\ Vector(l, s[1])[s[2]] = Call(fn, d, FALSE)
  <2>1. <<"tasks", i>> \in Spots(l) /\ Vector(l, "tasks") = tasks[l]
    BY DEF Spots, Vector
  <2> QED BY <1>3, <2>1
<1>4. ASSUME NEW i \in DOMAIN round[l].batch, i >= round[l].next, p = <<l, "batch", i>>,
             round[l].batch[i] = Call(fn, d, FALSE)
      PROVE  \E s \in Spots(l) : p = <<l, s[1], s[2]>> /\ Vector(l, s[1])[s[2]] = Call(fn, d, FALSE)
  <2>0. i \in round[l].next .. Len(round[l].batch)
    BY <1>2, <1>4
  <2>1. <<"batch", i>> \in Spots(l) /\ Vector(l, "batch") = round[l].batch
    BY <2>0 DEF Spots, Vector
  <2> QED BY <1>4, <2>1
<1>5. ASSUME NEW i \in DOMAIN work[l], p = <<l, "work", i>>, work[l][i] = Call(fn, d, FALSE)
      PROVE  \E s \in Spots(l) : p = <<l, s[1], s[2]>> /\ Vector(l, s[1])[s[2]] = Call(fn, d, FALSE)
  <2>1. <<"work", i>> \in Spots(l) /\ Vector(l, "work") = work[l]
    BY DEF Spots, Vector
  <2> QED BY <1>5, <2>1
<1> QED BY <1>1, <1>3, <1>4, <1>5

(* A call under way is found by Pending. *)
LEMMA PendingHas ==
    ASSUME Types, StageOK, NEW fn, NEW d, NEW l \in Loops, Has(todo, l, Call(fn, d, FALSE))
    PROVE  Pending(fn, d) # {}
<1>0. PendingOn(fn, d, l) \subseteq Pending(fn, d)
  <2>1. Pending(fn, d) = UNION {PendingOn(fn, d, k) : k \in Loops}
    BY DEF Pending, PendingOn
  <2> QED BY <2>1
<1>1. PICK k \in DOMAIN todo[l] : todo[l][k] = Call(fn, d, FALSE)
  BY DEF Has
<1>2. PICK s \in Spots(l) : Place(l, s[1], s[2]) = k
  BY SpotIs
<1>3. Vector(l, s[1])[s[2]] = Call(fn, d, FALSE)
  BY <1>1, <1>2, SpotIs
<1>4. round[l].batch \in Seq(Calls) /\ round[l].next \in 1 .. Len(round[l].batch) + 1
  BY DEF Types, Rounds, StageOK
<1>5. CASE \E i \in DOMAIN work[l] : s = <<"work", i>>
  <2>1. PICK i \in DOMAIN work[l] : s = <<"work", i>>
    BY <1>5
  <2>2. s[1] = "work" /\ s[2] = i
    BY <2>1
  <2>3. Vector(l, "work") = work[l]
    BY DEF Vector
  <2>4. work[l][i] = Call(fn, d, FALSE)
    BY <1>3, <2>2, <2>3
  <2>6. i \in {j \in DOMAIN work[l] : work[l][j] = Call(fn, d, FALSE)}
    BY <2>4
  <2>7. <<l, "work", i>> \in PendingOn(fn, d, l)
    BY <2>6 DEF PendingOn
  <2> QED BY <1>0, <2>7
<1>6. CASE \E i \in round[l].next .. Len(round[l].batch) : s = <<"batch", i>>
  <2>1. PICK i \in round[l].next .. Len(round[l].batch) : s = <<"batch", i>>
    BY <1>6
  <2>2. s[1] = "batch" /\ s[2] = i
    BY <2>1
  <2>3. Vector(l, "batch") = round[l].batch
    BY DEF Vector
  <2>4. round[l].batch[i] = Call(fn, d, FALSE)
    BY <1>3, <2>2, <2>3
  <2>5. i \in DOMAIN round[l].batch /\ i >= round[l].next
    BY <1>4
  <2>6. i \in {j \in DOMAIN round[l].batch : j >= round[l].next /\ round[l].batch[j] = Call(fn, d, FALSE)}
    BY <2>4, <2>5
  <2>7. <<l, "batch", i>> \in PendingOn(fn, d, l)
    BY <2>6 DEF PendingOn
  <2> QED BY <1>0, <2>7
<1>7. CASE \E i \in DOMAIN tasks[l] : s = <<"tasks", i>>
  <2>1. PICK i \in DOMAIN tasks[l] : s = <<"tasks", i>>
    BY <1>7
  <2>2. s[1] = "tasks" /\ s[2] = i
    BY <2>1
  <2>3. Vector(l, "tasks") = tasks[l]
    BY DEF Vector
  <2>4. tasks[l][i] = Call(fn, d, FALSE)
    BY <1>3, <2>2, <2>3
  <2>6. i \in {j \in DOMAIN tasks[l] : tasks[l][j] = Call(fn, d, FALSE)}
    BY <2>4
  <2>7. <<l, "tasks", i>> \in PendingOn(fn, d, l)
    BY <2>6 DEF PendingOn
  <2> QED BY <1>0, <2>7
<1> QED BY <1>5, <1>6, <1>7 DEF Spots

(* What Pending finds is under way, and there is one of it. *)
LEMMA PendingOne ==
    ASSUME Types, StageOK, OnceOK, NEW d, NEW f \in LifeFns, NEW g \in LifeFns,
           NEW p \in Pending(f, d), NEW q \in Pending(g, d)
    PROVE  /\ \E l \in Loops : Has(todo, l, Call(f, d, FALSE))
           /\ p = q /\ f = g
<1>1. PICK l \in Loops : \E s \in Spots(l) :
         p = <<l, s[1], s[2]>> /\ Vector(l, s[1])[s[2]] = Call(f, d, FALSE)
  BY PendingIs
<1>11. PICK s \in Spots(l) :
         p = <<l, s[1], s[2]>> /\ Vector(l, s[1])[s[2]] = Call(f, d, FALSE)
  BY <1>1
<1>2. PICK k \in Loops : \E u \in Spots(k) :
         q = <<k, u[1], u[2]>> /\ Vector(k, u[1])[u[2]] = Call(g, d, FALSE)
  BY PendingIs
<1>12. PICK u \in Spots(k) :
         q = <<k, u[1], u[2]>> /\ Vector(k, u[1])[u[2]] = Call(g, d, FALSE)
  BY <1>2
<1>3. PICK i, j : i = Place(l, s[1], s[2]) /\ j = Place(k, u[1], u[2])
  OBVIOUS
<1>4. i \in DOMAIN todo[l] /\ todo[l][i] = Call(f, d, FALSE)
  BY <1>11, <1>3, SpotIs
<1>5. j \in DOMAIN todo[k] /\ todo[k][j] = Call(g, d, FALSE)
  BY <1>12, <1>3, SpotIs
<1>6. /\ todo[l][i].fn = f /\ todo[l][i].c = d
      /\ todo[k][j].fn = g /\ todo[k][j].c = d
  BY <1>4, <1>5 DEF Call
<1>7. l = k /\ i = j
  <2>1. Once(todo)
    BY DEF OnceOK
  <2>2. /\ todo[l][i].fn \in LifeFns /\ todo[k][j].fn \in LifeFns
        /\ todo[l][i].c = todo[k][j].c
    BY ONLY <1>6, f \in LifeFns, g \in LifeFns
  <2>3. i \in DOMAIN todo[l] /\ j \in DOMAIN todo[k]
    BY <1>4, <1>5
  <2> QED BY ONLY <2>1, <2>2, <2>3, l \in Loops, k \in Loops, Zenon DEF Once
<1>8. s = u
  BY <1>3, <1>7, SpotIs
<1> QED BY <1>11, <1>12, <1>4, <1>6, <1>7, <1>8 DEF Has

(* An open socket of the Connector has one future. *)
LEMMA FutureIs ==
    ASSUME ServerInv
    PROVE  OneFuture
<1>1. Types /\ StageOK /\ OnceOK /\ CallsOK /\ DialMapOK /\ DialOK
  BY DEF ServerInv, Base
<1> SUFFICES ASSUME NEW d \in Dials
    PROVE  LET open == dial[d].sock \in {"connecting", "connected", "refused"}
               waits == \E fd \in DOMAIN connector.conn_map : connector.conn_map[fd] = d
               calls == Cardinality(Pending("handleConnect", d)) IN
           /\ open => Cardinality(Pending("newConnection", d))
                        + (IF waits THEN 1 ELSE calls) = 1
           /\ ~open => ~waits /\ Pending("newConnection", d) = {} /\ calls = 0
           /\ calls <= 1
  BY DEF OneFuture
<1>2. PICK H, N : H = Pending("handleConnect", d) /\ N = Pending("newConnection", d)
  OBVIOUS
<1>3. (\E fd \in DOMAIN connector.conn_map : connector.conn_map[fd] = d) <=> Waits(d)
  BY <1>1 DEF DialMapOK, Waits
<1>4. "handleConnect" \in LifeFns /\ "newConnection" \in LifeFns
  BY DEF LifeFns
<1>5. ASSUME NEW fn \in {"handleConnect", "newConnection"}
      PROVE  Call(fn, d, FALSE) \in Calls /\ Call(fn, d, FALSE).fn = fn /\ Call(fn, d, FALSE).c = d
  BY DEF Call, Calls, Functions
<1>6. H # {} => dial[d].sock \in {"connected", "refused"} /\ (Waits(d) <=> ~dial[d].at_once)
  <2> SUFFICES ASSUME NEW p \in H
               PROVE  dial[d].sock \in {"connected", "refused"} /\ (Waits(d) <=> ~dial[d].at_once)
    OBVIOUS
  <2>1. PICK l \in Loops : Has(todo, l, Call("handleConnect", d, FALSE))
    BY <1>1, <1>2, <1>4, PendingOne
  <2>2. CallOK(l, Call("handleConnect", d, FALSE))
    BY <1>1, <1>5, <2>1 DEF CallsOK
  <2> QED BY <1>5, <2>2 DEF CallOK
<1>7. N # {} => dial[d].sock = "connected" /\ ~Waits(d)
  <2> SUFFICES ASSUME NEW p \in N
               PROVE  dial[d].sock = "connected" /\ ~Waits(d)
    OBVIOUS
  <2>1. PICK l \in Loops : Has(todo, l, Call("newConnection", d, FALSE))
    BY <1>1, <1>2, <1>4, PendingOne
  <2>2. CallOK(l, Call("newConnection", d, FALSE))
    BY <1>1, <1>5, <2>1 DEF CallsOK
  <2> QED BY <1>5, <2>2 DEF CallOK
<1>8. /\ \A p, q \in H : p = q
      /\ \A p, q \in N : p = q
      /\ H = {} \/ N = {}
  <2>1. \A p, q \in H : p = q
    BY <1>1, <1>2, <1>4, PendingOne
  <2>2. \A p, q \in N : p = q
    BY <1>1, <1>2, <1>4, PendingOne
  <2>3. ASSUME NEW p \in H, NEW q \in N PROVE FALSE
    <3>1. "handleConnect" = "newConnection"
      BY <1>1, <1>2, <1>4, PendingOne
    <3> QED BY <3>1
  <2> QED BY <2>1, <2>2, <2>3
<1>9. /\ H = {} => Cardinality(H) = 0
      /\ H # {} => Cardinality(H) = 1
      /\ N = {} => Cardinality(N) = 0
      /\ N # {} => Cardinality(N) = 1
  <2>1. \A S : S = {} => Cardinality(S) = 0
    BY FS_EmptySet
  <2>2. \A S : S # {} /\ (\A p, q \in S : p = q) => Cardinality(S) = 1
    <3> SUFFICES ASSUME NEW S, NEW p \in S, \A x, y \in S : x = y PROVE Cardinality(S) = 1
      OBVIOUS
    <3>1. S = {p}
      OBVIOUS
    <3> QED BY <3>1, FS_Singleton
  <2> QED BY <1>8, <2>1, <2>2
<1>10. dial[d].sock = "connected" /\ ~Waits(d) => H # {} \/ N # {}
  <2> SUFFICES ASSUME dial[d].sock = "connected", ~Waits(d) PROVE H # {} \/ N # {}
    OBVIOUS
  <2>1. PICK l \in Loops, e \in Calls :
           Has(todo, l, e) /\ e.c = d /\ e.fn \in {"handleConnect", "newConnection"}
    BY <1>1 DEF DialOK, Under
  <2>2. CallOK(l, e)
    BY <1>1, <2>1 DEF CallsOK
  <2>3. e.ref = FALSE
    BY <2>1, <2>2 DEF CallOK, DialFns, Calls
  <2>4. e = Call(e.fn, d, FALSE)
    BY <2>1, <2>3 DEF Calls, Call
  <2>5. Pending(e.fn, d) # {}
    BY <1>1, <2>1, <2>4, PendingHas
  <2> QED BY <1>2, <2>1, <2>5
<1>11. /\ Waits(d) => dial[d].sock \in {"connecting", "connected", "refused"}
       /\ dial[d].sock \in {"connecting", "refused"} => Waits(d)
  BY <1>1 DEF DialOK, OpenDial
<1>12. /\ dial[d].sock \in {"connecting", "connected", "refused"} =>
             Cardinality(N) + (IF Waits(d) THEN 1 ELSE Cardinality(H)) = 1
       /\ dial[d].sock \notin {"connecting", "connected", "refused"} =>
             ~Waits(d) /\ N = {} /\ Cardinality(H) = 0
       /\ Cardinality(H) <= 1
  BY ONLY <1>6, <1>7, <1>8, <1>9, <1>10, <1>11
<1> QED BY ONLY <1>2, <1>3, <1>12

(* A socket the Connector opened is neither forgotten, nor handed over     *)
(* twice, nor handed over and closed, however the calls of connect() and   *)
(* of the kernel interleave.                                               *)
THEOREM ConnectorOneFuture == ASSUME Friendly PROVE ConnectorSpec => []OneFuture
<1>1. ServerInv => OneFuture
  BY FutureIs
<1> QED BY <1>1, ConnectorInvariant, PTL
=============================================================================
