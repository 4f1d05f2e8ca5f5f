------------------------- MODULE ServerActionProofs -------------------------
(***************************************************************************)
(* What proofs about TcpServer and Connector rest on: vectors of calls,    *)
(* what a step of a loop does to them, and the pollers; and that the       *)
(* actions of loops, connections, peers and users keep ServerInv.  The     *)
(* actions that make a connection, and those of the Connector, are in      *)
(* ServerProofs.                                                           *)
(***************************************************************************)
EXTENDS ServerCalls, SequenceTheorems, FiniteSetTheorems, TLAPS

-----------------------------------------------------------------------------
(* Lemmas about vectors of calls.                                          *)
Vectors == [Loops -> Seq(Calls)]

(* There is a base loop. *)
LEMMA BaseLoop == 0 \in Loops
<1>1. PICK n \in ThreadNums : n \in Nat
  BY ServerAssumption
<1>2. 0 \in 0 .. n
  BY <1>1
<1> QED BY <1>2 DEF Loops

(* Popping, pushing and queueing, element by element. *)
LEMMA VecPop ==
    ASSUME NEW T \in Vectors, NEW l \in Loops, T[l] # <<>>
    PROVE  /\ Pop(T, l) \in Vectors
           /\ Head(T[l]) \in Calls /\ Head(T[l]) = T[l][1] /\ 1 \in DOMAIN T[l]
           /\ DOMAIN Pop(T, l)[l] = 1 .. Len(T[l]) - 1
           /\ \A i \in 1 .. Len(T[l]) - 1 : Pop(T, l)[l][i] = T[l][i + 1]
           /\ \A k \in Loops : k # l => Pop(T, l)[k] = T[k]
<1>1. T[l] \in Seq(Calls)
  BY DEF Vectors
<1>2. /\ Tail(T[l]) \in Seq(Calls) /\ Len(Tail(T[l])) = Len(T[l]) - 1
      /\ \A i \in 1 .. Len(T[l]) - 1 : Tail(T[l])[i] = T[l][i + 1]
  BY <1>1
<1>3. /\ Pop(T, l)[l] = Tail(T[l]) /\ Pop(T, l) \in Vectors
      /\ \A k \in Loops : k # l => Pop(T, l)[k] = T[k]
  BY <1>2 DEF Pop, Vectors
<1>4. Head(T[l]) \in Calls /\ Head(T[l]) = T[l][1] /\ 1 \in DOMAIN T[l]
  BY <1>1
<1> QED BY <1>2, <1>3, <1>4

(* A vector that is pushed in front of another. *)
LEMMA VecPut ==
    ASSUME NEW T \in Vectors, NEW l \in Loops, NEW s \in Seq(Calls)
    PROVE  /\ Put(T, l, s) \in Vectors
           /\ Len(s) \in Nat /\ Len(T[l]) \in Nat
           /\ DOMAIN Put(T, l, s)[l] = 1 .. Len(s) + Len(T[l])
           /\ DOMAIN s = 1 .. Len(s) /\ DOMAIN T[l] = 1 .. Len(T[l])
           /\ \A i \in 1 .. Len(s) : Put(T, l, s)[l][i] = s[i]
           /\ \A i \in 1 .. Len(T[l]) : Put(T, l, s)[l][Len(s) + i] = T[l][i]
           /\ \A k \in Loops : k # l => Put(T, l, s)[k] = T[k]
<1>1. T[l] \in Seq(Calls)
  BY DEF Vectors
<1> DEFINE t == s \o T[l]
<1>2. /\ t \in Seq(Calls) /\ Len(t) = Len(s) + Len(T[l])
      /\ Len(s) \in Nat /\ Len(T[l]) \in Nat
      /\ DOMAIN t = 1 .. Len(t) /\ DOMAIN s = 1 .. Len(s) /\ DOMAIN T[l] = 1 .. Len(T[l])
      /\ \A i \in 1 .. Len(s) : t[i] = s[i]
      /\ \A i \in 1 .. Len(T[l]) : t[Len(s) + i] = T[l][i]
  BY <1>1
<1>3. /\ Put(T, l, s)[l] = t /\ Put(T, l, s) \in Vectors
      /\ \A k \in Loops : k # l => Put(T, l, s)[k] = T[k]
  BY <1>2 DEF Put, Vectors
<1> HIDE DEF t
<1> QED BY <1>1, <1>2, <1>3

(* A call that is queued. *)
LEMMA VecAdd ==
    ASSUME NEW T \in Vectors, NEW l \in Loops, NEW e \in Calls
    PROVE  /\ Add(T, l, e) \in Vectors
           /\ Len(T[l]) \in Nat /\ DOMAIN T[l] = 1 .. Len(T[l])
           /\ DOMAIN Add(T, l, e)[l] = 1 .. Len(T[l]) + 1
           /\ \A i \in 1 .. Len(T[l]) : Add(T, l, e)[l][i] = T[l][i]
           /\ Add(T, l, e)[l][Len(T[l]) + 1] = e
           /\ \A k \in Loops : k # l => Add(T, l, e)[k] = T[k]
<1>1. T[l] \in Seq(Calls)
  BY DEF Vectors
<1> DEFINE t == Append(T[l], e)
<1>2. /\ t \in Seq(Calls) /\ Len(t) = Len(T[l]) + 1
      /\ Len(T[l]) \in Nat
      /\ DOMAIN t = 1 .. Len(t) /\ DOMAIN T[l] = 1 .. Len(T[l])
      /\ \A i \in 1 .. Len(T[l]) : t[i] = T[l][i]
      /\ t[Len(T[l]) + 1] = e
  BY <1>1
<1>3. /\ Add(T, l, e)[l] = t /\ Add(T, l, e) \in Vectors
      /\ \A k \in Loops : k # l => Add(T, l, e)[k] = T[k]
  BY <1>2 DEF Add, Vectors
<1> HIDE DEF t
<1> QED BY <1>1, <1>2, <1>3

(* Who is in the vector then. *)
LEMMA HasPop ==
    ASSUME NEW T \in Vectors, NEW l \in Loops, T[l] # <<>>, NEW k \in Loops, NEW e
    PROVE  /\ Has(Pop(T, l), k, e) => Has(T, k, e)
           /\ Has(T, k, e) => Has(Pop(T, l), k, e) \/ (k = l /\ e = Head(T[l]))
           /\ Has(T, l, Head(T[l]))
<1>1. CASE k # l
  BY <1>1, VecPop DEF Has
<1>2. CASE k = l
  <2>1. T[l] \in Seq(Calls) /\ DOMAIN T[l] = 1 .. Len(T[l]) /\ Len(T[l]) \in Nat
    BY DEF Vectors
  <2>2. Has(Pop(T, l), l, e) => Has(T, l, e)
    <3> SUFFICES ASSUME NEW i \in 1 .. Len(T[l]) - 1, Pop(T, l)[l][i] = e
                 PROVE  \E j \in 1 .. Len(T[l]) : T[l][j] = e
      BY <2>1, VecPop DEF Has
    <3>1. i + 1 \in 1 .. Len(T[l]) /\ T[l][i + 1] = e
      BY <2>1, VecPop
    <3> QED BY <3>1
  <2>3. ASSUME NEW i \in 1 .. Len(T[l]), T[l][i] = e
        PROVE  Has(Pop(T, l), l, e) \/ e = Head(T[l])
    <3>1. CASE i = 1
      BY <2>3, <3>1, VecPop
    <3>2. CASE i # 1
      <4>1. i - 1 \in 1 .. Len(T[l]) - 1 /\ (i - 1) + 1 = i
        BY <2>1, <3>2
      <4>2. Pop(T, l)[l][i - 1] = T[l][(i - 1) + 1] /\ i - 1 \in DOMAIN Pop(T, l)[l]
        BY <4>1, VecPop
      <4> QED BY <2>3, <4>1, <4>2 DEF Has
    <3> QED BY <3>1, <3>2
  <2> QED BY <1>2, <2>1, <2>2, <2>3 DEF Has
<1>3. Has(T, l, Head(T[l]))
  BY VecPop DEF Has
<1> QED BY <1>1, <1>2, <1>3

(* The same of a push ... *)
LEMMA HasPut ==
    ASSUME NEW T \in Vectors, NEW l \in Loops, NEW s \in Seq(Calls), NEW k \in Loops, NEW e
    PROVE  Has(Put(T, l, s), k, e) <=> Has(T, k, e) \/ (k = l /\ \E i \in DOMAIN s : s[i] = e)
<1>1. CASE k # l
  BY <1>1, VecPut DEF Has
<1>2. CASE k = l
  <2>1. ASSUME NEW i \in 1 .. Len(s) + Len(T[l]), Put(T, l, s)[l][i] = e
        PROVE  Has(T, l, e) \/ \E j \in DOMAIN s : s[j] = e
    <3>1. CASE i <= Len(s)
      <4>1. i \in 1 .. Len(s)
        BY <3>1, VecPut
      <4> QED BY <2>1, <4>1, VecPut
    <3>2. CASE i > Len(s)
      <4>1. i - Len(s) \in 1 .. Len(T[l]) /\ Len(s) + (i - Len(s)) = i
        BY <3>2, VecPut
      <4>2. PICK j : j = i - Len(s)
        OBVIOUS
      <4>3. j \in 1 .. Len(T[l]) /\ i = Len(s) + j
        BY <4>1, <4>2
      <4>4. T[l][j] = Put(T, l, s)[l][Len(s) + j]
        BY <4>3, VecPut
      <4>5. T[l][j] = e
        BY <2>1, <4>3, <4>4
      <4> QED BY <4>3, <4>5, VecPut DEF Has
    <3> QED BY <3>1, <3>2, VecPut
  <2>2. ASSUME NEW i \in 1 .. Len(T[l]), T[l][i] = e PROVE Has(Put(T, l, s), l, e)
    <3>1. Len(s) + i \in DOMAIN Put(T, l, s)[l] /\ Put(T, l, s)[l][Len(s) + i] = e
      BY <2>2, VecPut
    <3> QED BY <3>1 DEF Has
  <2>3. ASSUME NEW i \in 1 .. Len(s), s[i] = e PROVE Has(Put(T, l, s), l, e)
    <3>0. /\ Len(s) \in Nat /\ Len(T[l]) \in Nat
          /\ DOMAIN Put(T, l, s)[l] = 1 .. Len(s) + Len(T[l])
      BY VecPut
    <3>1. i \in DOMAIN Put(T, l, s)[l] /\ Put(T, l, s)[l][i] = s[i]
      BY <3>0, VecPut
    <3> QED BY <2>3, <3>1 DEF Has
  <2>4. /\ DOMAIN Put(T, l, s)[l] = 1 .. Len(s) + Len(T[l])
        /\ DOMAIN s = 1 .. Len(s) /\ DOMAIN T[l] = 1 .. Len(T[l])
    BY VecPut
  <2> QED BY <1>2, <2>1, <2>2, <2>3, <2>4 DEF Has
<1> QED BY <1>1, <1>2

(* ... and of a queued call. *)
LEMMA HasAdd ==
    ASSUME NEW T \in Vectors, NEW l \in Loops, NEW e \in Calls, NEW k \in Loops, NEW x
    PROVE  Has(Add(T, l, e), k, x) <=> Has(T, k, x) \/ (k = l /\ x = e)
<1>1. CASE k # l
  BY <1>1, VecAdd DEF Has
<1>2. CASE k = l
  <2>1. \A i \in 1 .. Len(T[l]) + 1 : i \in 1 .. Len(T[l]) \/ i = Len(T[l]) + 1
    BY VecAdd
  <2>2. Len(T[l]) + 1 \in 1 .. Len(T[l]) + 1 /\ \A i \in 1 .. Len(T[l]) : i \in 1 .. Len(T[l]) + 1
    BY VecAdd
  <2>3. /\ DOMAIN T[l] = 1 .. Len(T[l]) /\ DOMAIN Add(T, l, e)[l] = 1 .. Len(T[l]) + 1
        /\ \A i \in 1 .. Len(T[l]) : Add(T, l, e)[l][i] = T[l][i]
        /\ Add(T, l, e)[l][Len(T[l]) + 1] = e
    BY VecAdd
  <2> QED BY <1>2, <2>1, <2>2, <2>3 DEF Has
<1> QED BY <1>1, <1>2

(* No call that moves c on, in terms of the members. *)
LEMMA NoLifeHas ==
    ASSUME NEW T \in Vectors, NEW c
    PROVE  NoLife(T, c) <=>
             \A k \in Loops, e \in Calls : Has(T, k, e) /\ e.fn \in LifeFns => e.c # c
<1>1. \A k \in Loops : T[k] \in Seq(Calls) /\ \A i \in DOMAIN T[k] : T[k][i] \in Calls
  BY DEF Vectors
<1> QED BY <1>1 DEF NoLife, Has

(* A call that is popped was the only one. *)
LEMMA OncePop ==
    ASSUME NEW T \in Vectors, NEW l \in Loops, T[l] # <<>>, Once(T)
    PROVE  /\ Once(Pop(T, l))
           /\ Head(T[l]).fn \in LifeFns => NoLife(Pop(T, l), Head(T[l]).c)
<1> DEFINE P == Pop(T, l)
           was(k, i) == IF k = l THEN i + 1 ELSE i
<1>1. ASSUME NEW k \in Loops, NEW i \in DOMAIN P[k]
      PROVE  k # l \/ (was(k, i) \in DOMAIN T[k] /\ P[k][i] = T[k][was(k, i)])
  <2>1. T[l] \in Seq(Calls) /\ Len(T[l]) \in Nat /\ DOMAIN T[l] = 1 .. Len(T[l])
    BY DEF Vectors
  <2>2. CASE k = l
    <3>1. i \in 1 .. Len(T[l]) - 1
      BY <2>2, VecPop
    <3>2. P[l][i] = T[l][i + 1]
      BY <3>1, VecPop
    <3> QED BY <2>1, <2>2, <3>1, <3>2
  <2> QED BY <2>2
<1>2. \A k \in Loops : k # l => P[k] = T[k]
  BY VecPop
<1>3. ASSUME NEW k \in Loops, NEW i \in DOMAIN P[k]
      PROVE  was(k, i) \in DOMAIN T[k] /\ P[k][i] = T[k][was(k, i)]
  BY <1>1, <1>2
<1>4. \A i \in DOMAIN P[l] : i \in Int /\ i + 1 # 1
  BY VecPop
<1>5. Once(P)
  <2> SUFFICES ASSUME NEW k \in Loops, NEW m \in Loops, NEW i \in DOMAIN P[k], NEW j \in DOMAIN P[m],
                      P[k][i].fn \in LifeFns, P[m][j].fn \in LifeFns, P[k][i].c = P[m][j].c
               PROVE  k = m /\ i = j
    BY DEF Once
  <2>1. /\ was(k, i) \in DOMAIN T[k] /\ P[k][i] = T[k][was(k, i)]
        /\ was(m, j) \in DOMAIN T[m] /\ P[m][j] = T[m][was(m, j)]
    BY <1>3
  <2> HIDE DEF was, P
  <2>2. k = m /\ was(k, i) = was(m, j)
    BY <2>1 DEF Once
  <2> QED BY <1>4, <2>2 DEF was
<1>6. ASSUME Head(T[l]).fn \in LifeFns PROVE NoLife(P, Head(T[l]).c)
  <2> SUFFICES ASSUME NEW k \in Loops, NEW i \in DOMAIN P[k], P[k][i].fn \in LifeFns,
                      P[k][i].c = Head(T[l]).c
               PROVE  FALSE
    BY DEF NoLife
  <2>1. was(k, i) \in DOMAIN T[k] /\ P[k][i] = T[k][was(k, i)]
    BY <1>3
  <2>2. Head(T[l]) = T[l][1] /\ 1 \in DOMAIN T[l]
    BY VecPop
  <2> HIDE DEF was, P
  <2>3. k = l /\ was(k, i) = 1
    BY <1>6, <2>1, <2>2 DEF Once
  <2> QED BY <1>4, <2>3 DEF was
<1> QED BY <1>5, <1>6

(* What is pushed is the only one, if there was none. *)
LEMMA OncePut ==
    ASSUME NEW T \in Vectors, NEW l \in Loops, NEW s \in Seq(Calls), Once(T),
           \A i, j \in DOMAIN s : s[i].fn \in LifeFns /\ s[j].fn \in LifeFns
                                  /\ s[i].c = s[j].c => i = j,
           \A i \in DOMAIN s : s[i].fn \in LifeFns => NoLife(T, s[i].c)
    PROVE  Once(Put(T, l, s))
<1> DEFINE P == Put(T, l, s)
           n == Len(s)
<1>1. /\ n \in Nat /\ Len(T[l]) \in Nat
      /\ DOMAIN P[l] = 1 .. n + Len(T[l])
      /\ DOMAIN s = 1 .. n /\ DOMAIN T[l] = 1 .. Len(T[l])
      /\ \A i \in 1 .. n : P[l][i] = s[i]
      /\ \A i \in 1 .. Len(T[l]) : P[l][n + i] = T[l][i]
      /\ \A k \in Loops : k # l => P[k] = T[k]
  BY VecPut
<1> HIDE DEF P, n
<1>2. ASSUME NEW k \in Loops, NEW i \in DOMAIN P[k]
      PROVE  \/ /\ k = l /\ i \in DOMAIN s /\ P[k][i] = s[i]
             \/ /\ k # l /\ i \in DOMAIN T[k] /\ P[k][i] = T[k][i]
             \/ /\ k = l /\ i \in Int /\ i - n \in DOMAIN T[k] /\ P[k][i] = T[k][i - n]
  <2>1. CASE k # l
    BY <1>1, <2>1
  <2>2. CASE k = l
    <3>0. i \in 1 .. n + Len(T[l])
      BY <1>1, <2>2
    <3>1. CASE i <= n
      <4>1. i \in 1 .. n
        BY <1>1, <3>0, <3>1
      <4> QED BY <1>1, <2>2, <4>1
    <3>2. CASE i > n
      <4>1. i - n \in 1 .. Len(T[l]) /\ n + (i - n) = i
        BY <1>1, <3>0, <3>2
      <4>2. P[l][n + (i - n)] = T[l][i - n]
        BY <1>1, <4>1
      <4> QED BY <1>1, <2>2, <3>0, <4>1, <4>2
    <3> QED BY <1>1, <3>0, <3>1, <3>2
  <2> QED BY <2>1, <2>2
<1>3. \A k \in Loops : \A i \in DOMAIN T[k], j \in DOMAIN s :
         T[k][i].fn \in LifeFns /\ s[j].fn \in LifeFns => T[k][i].c # s[j].c
  BY DEF NoLife
<1> SUFFICES ASSUME NEW k \in Loops, NEW m \in Loops, NEW i \in DOMAIN P[k], NEW j \in DOMAIN P[m],
                    P[k][i].fn \in LifeFns, P[m][j].fn \in LifeFns, P[k][i].c = P[m][j].c
             PROVE  k = m /\ i = j
  BY DEF Once, P
<1>4. CASE k = l /\ i \in DOMAIN s /\ P[k][i] = s[i]
  <2>1. m = l /\ j \in DOMAIN s /\ P[m][j] = s[j]
    BY <1>2, <1>3, <1>4
  <2> QED BY <1>4, <2>1
<1>5. CASE m = l /\ j \in DOMAIN s /\ P[m][j] = s[j]
  <2>1. k = l /\ i \in DOMAIN s /\ P[k][i] = s[i]
    BY <1>2, <1>3, <1>5
  <2> QED BY <1>5, <2>1
<1>6. CASE k # l /\ i \in DOMAIN T[k] /\ P[k][i] = T[k][i]
  <2>1. CASE m # l /\ j \in DOMAIN T[m] /\ P[m][j] = T[m][j]
    BY <1>6, <2>1 DEF Once
  <2>2. CASE m = l /\ j \in Int /\ j - n \in DOMAIN T[m] /\ P[m][j] = T[m][j - n]
    BY <1>6, <2>2 DEF Once
  <2> QED BY <1>2, <1>5, <2>1, <2>2
<1>7. CASE k = l /\ i \in Int /\ i - n \in DOMAIN T[k] /\ P[k][i] = T[k][i - n]
  <2>1. CASE m # l /\ j \in DOMAIN T[m] /\ P[m][j] = T[m][j]
    BY <1>7, <2>1 DEF Once
  <2>2. CASE m = l /\ j \in Int /\ j - n \in DOMAIN T[m] /\ P[m][j] = T[m][j - n]
    <3>1. i - n = j - n
      BY <1>7, <2>2 DEF Once
    <3> QED BY <1>1, <1>7, <2>2, <3>1
  <2> QED BY <1>2, <1>5, <2>1, <2>2
<1> QED BY <1>2, <1>4, <1>5, <1>6, <1>7

(* The same of a call that is queued. *)
LEMMA OnceAdd ==
    ASSUME NEW T \in Vectors, NEW l \in Loops, NEW e \in Calls, Once(T),
           e.fn \in LifeFns => NoLife(T, e.c)
    PROVE  Once(Add(T, l, e))
<1> DEFINE P == Add(T, l, e)
           n == Len(T[l])
<1>1. /\ n \in Nat /\ DOMAIN T[l] = 1 .. n
      /\ DOMAIN P[l] = 1 .. n + 1
      /\ \A i \in 1 .. n : P[l][i] = T[l][i]
      /\ P[l][n + 1] = e
      /\ \A k \in Loops : k # l => P[k] = T[k]
  BY VecAdd
<1> HIDE DEF P, n
<1>2. ASSUME NEW k \in Loops, NEW i \in DOMAIN P[k]
      PROVE  \/ i \in DOMAIN T[k] /\ P[k][i] = T[k][i]
             \/ k = l /\ i = n + 1 /\ P[k][i] = e
  <2>1. CASE k # l
    BY <1>1, <2>1
  <2>2. CASE k = l
    <3>1. i \in 1 .. n \/ i = n + 1
      BY <1>1, <2>2
    <3> QED BY <1>1, <2>2, <3>1
  <2> QED BY <2>1, <2>2
<1>3. \A k \in Loops : \A i \in DOMAIN T[k] :
         T[k][i].fn \in LifeFns /\ e.fn \in LifeFns => T[k][i].c # e.c
  BY DEF NoLife
<1> SUFFICES ASSUME NEW k \in Loops, NEW m \in Loops, NEW i \in DOMAIN P[k], NEW j \in DOMAIN P[m],
                    P[k][i].fn \in LifeFns, P[m][j].fn \in LifeFns, P[k][i].c = P[m][j].c
             PROVE  k = m /\ i = j
  BY DEF Once, P
<1>4. CASE i \in DOMAIN T[k] /\ P[k][i] = T[k][i]
  <2>1. j \in DOMAIN T[m] /\ P[m][j] = T[m][j]
    BY <1>2, <1>3, <1>4
  <2> QED BY <1>4, <2>1 DEF Once
<1>5. CASE k = l /\ i = n + 1 /\ P[k][i] = e
  <2>1. m = l /\ j = n + 1
    BY <1>2, <1>3, <1>5
  <2> QED BY <1>5, <2>1
<1> QED BY <1>2, <1>4, <1>5

-----------------------------------------------------------------------------
(* Sequences.                                                              *)

(* The tail of a concatenation. *)
LEMMA TailConcat ==
    ASSUME NEW S, NEW a \in Seq(S), NEW b \in Seq(S), a # <<>>
    PROVE  Tail(a \o b) = Tail(a) \o b /\ Head(a \o b) = Head(a) /\ a \o b # <<>>
<1>1. Len(a) \in Nat /\ Len(b) \in Nat /\ Len(a) # 0
  BY EmptySeq
<1>2. a \o b \in Seq(S) /\ Len(a \o b) = Len(a) + Len(b) /\ Len(a \o b) # 0
  BY <1>1
<1>3. a \o b # <<>>
  BY <1>2
<1>4. Tail(a \o b) \in Seq(S) /\ Tail(a) \in Seq(S) /\ Tail(a) \o b \in Seq(S)
  BY <1>3
<1>5. Len(Tail(a \o b)) = Len(a) + Len(b) - 1 /\ Len(Tail(a) \o b) = Len(a) + Len(b) - 1
  BY <1>1, <1>2, <1>3, <1>4
<1>6. ASSUME NEW i \in 1 .. Len(a) + Len(b) - 1
      PROVE  Tail(a \o b)[i] = (Tail(a) \o b)[i]
  <2>1. Tail(a \o b)[i] = (a \o b)[i + 1]
    BY <1>1, <1>2, <1>3
  <2>2. CASE i <= Len(a) - 1
    BY <1>1, <2>1, <2>2
  <2>3. CASE i > Len(a) - 1
    BY <1>1, <2>1, <2>3
  <2> QED BY <1>1, <2>2, <2>3
<1>7. Tail(a \o b) = Tail(a) \o b
  BY <1>4, <1>5, <1>6, SeqEqual
<1>8. Head(a \o b) = Head(a)
  BY <1>1, <1>2, <1>3
<1> QED BY <1>3, <1>7, <1>8

(* An append to the second of two sequences. *)
LEMMA AppendConcat ==
    ASSUME NEW S, NEW a \in Seq(S), NEW b \in Seq(S), NEW e \in S
    PROVE  a \o Append(b, e) = Append(a \o b, e)
<1>1. a \o Append(b, e) \in Seq(S) /\ Append(a \o b, e) \in Seq(S)
  OBVIOUS
<1>2. Len(a \o Append(b, e)) = Len(a) + Len(b) + 1 /\ Len(Append(a \o b, e)) = Len(a) + Len(b) + 1
      /\ Len(a) \in Nat /\ Len(b) \in Nat
  OBVIOUS
<1>3. ASSUME NEW i \in 1 .. Len(a) + Len(b) + 1
      PROVE  (a \o Append(b, e))[i] = Append(a \o b, e)[i]
  <2>1. CASE i <= Len(a)
    BY <1>2, <2>1
  <2>2. CASE i > Len(a)
    BY <1>2, <2>2
  <2> QED BY <1>2, <2>1, <2>2
<1> QED BY <1>1, <1>2, <1>3, SeqEqual

-----------------------------------------------------------------------------
(* What a loop has to do, in the variables.                                *)

(* Types of the vectors, and their members. *)
LEMMA TodoIs ==
    ASSUME Types, StageOK
    PROVE  /\ rest \in Vectors /\ todo \in Vectors /\ work \in Vectors
           /\ \A k \in Loops : todo[k] = work[k] \o rest[k]
           /\ \A k \in Loops : work[k] # <<>> => todo[k] # <<>> /\ Head(todo[k]) = Head(work[k])
           /\ \A k \in Loops : \A e : Has(todo, k, e) <=> Has(work, k, e) \/ Has(rest, k, e)
<1>1. ASSUME NEW k \in Loops
      PROVE  SubSeq(round[k].batch, round[k].next, Len(round[k].batch)) \o tasks[k] \in Seq(Calls)
  <2>1. round[k].batch \in Seq(Calls) /\ tasks[k] \in Seq(Calls)
    BY DEF Types, Rounds
  <2>2. round[k].next \in 1 .. Len(round[k].batch) + 1
    BY DEF StageOK
  <2>3. \A i \in round[k].next .. Len(round[k].batch) : round[k].batch[i] \in Calls
    BY <2>1, <2>2
  <2>4. SubSeq(round[k].batch, round[k].next, Len(round[k].batch)) \in Seq(Calls)
    BY <2>1, <2>2, <2>3, SubSeqProperties
  <2> QED BY <2>1, <2>4
<1>2. rest \in Vectors
  BY <1>1 DEF rest, Vectors
<1>3. work \in Vectors
  BY DEF Types, Vectors
<1>4. \A k \in Loops : todo[k] = work[k] \o rest[k] /\ work[k] \o rest[k] \in Seq(Calls)
  BY <1>2, <1>3 DEF todo, Vectors
<1>5. todo \in Vectors
  BY <1>2, <1>3 DEF todo, Vectors
<1>6. ASSUME NEW k \in Loops, work[k] # <<>>
      PROVE  todo[k] # <<>> /\ Head(todo[k]) = Head(work[k])
  BY <1>2, <1>3, <1>4, <1>6, TailConcat DEF Vectors
<1>7. ASSUME NEW k \in Loops, NEW e
      PROVE  Has(todo, k, e) <=> Has(work, k, e) \/ Has(rest, k, e)
  <2>1. todo = [todo EXCEPT ![k] = work[k] \o rest[k]]
    BY <1>4, <1>5 DEF Vectors
  <2>2. Put(rest, k, work[k])[k] = todo[k]
    BY <1>2, <1>4 DEF Put, Vectors
  <2>3. Has(todo, k, e) <=> Has(Put(rest, k, work[k]), k, e)
    BY <2>2 DEF Has
  <2>4. work[k] \in Seq(Calls)
    BY <1>3 DEF Vectors
  <2>5. Has(Put(rest, k, work[k]), k, e) <=> Has(rest, k, e) \/ \E i \in DOMAIN work[k] : work[k][i] = e
    BY <1>2, <2>4, HasPut
  <2>6. Has(work, k, e) <=> \E i \in DOMAIN work[k] : work[k][i] = e
    BY DEF Has
  <2> QED BY <2>3, <2>5, <2>6
<1> QED BY <1>2, <1>3, <1>4, <1>5, <1>6, <1>7

(* The same after a step. *)
TodoSplit ==
    \A k \in Loops : \A e : Has(todo, k, e) <=> Has(work, k, e) \/ Has(rest, k, e)

(* A call that is to be made is on the stack or queued. *)
LEMMA TodoIsNext == Types' /\ StageOK' => TodoSplit'
<1>1. Types /\ StageOK => TodoSplit
  BY TodoIs DEF TodoSplit
<1> QED BY <1>1, PTL

(* A call returns and makes the calls of s. *)
LEMMA ReturnIs ==
    ASSUME Types, StageOK, NEW l \in Loops, work[l] # <<>>, NEW s \in Seq(Calls),
           Return(l, s), tasks' = tasks, round' = round
    PROVE  /\ rest' = rest
           /\ work' = Put(Pop(work, l), l, s)
           /\ todo' = Put(Pop(todo, l), l, s)
<1>1. rest' = rest
  BY DEF rest
<1>2. /\ work' = [work EXCEPT ![l] = s \o Tail(work[l])]
      /\ work \in Vectors /\ rest \in Vectors /\ todo \in Vectors
      /\ \A k \in Loops : todo[k] = work[k] \o rest[k]
  BY TodoIs DEF Return
<1>3. work' = Put(Pop(work, l), l, s)
  BY <1>2 DEF Put, Pop, Vectors
<1>4. Tail(work[l]) \in Seq(Calls) /\ rest[l] \in Seq(Calls) /\ work[l] \in Seq(Calls)
  BY <1>2 DEF Vectors
<1>5. (s \o Tail(work[l])) \o rest[l] = s \o (Tail(work[l]) \o rest[l])
  <2>1. \A a, b, c \in Seq(Calls) : (a \o b) \o c = a \o (b \o c)
    BY ConcatAssociative
  <2> QED BY <1>4, <2>1
<1>6. Tail(work[l]) \o rest[l] = Tail(todo[l])
  <2>1. \A a, b \in Seq(Calls) : a # <<>> => Tail(a \o b) = Tail(a) \o b
    BY TailConcat
  <2> QED BY <1>2, <1>4, <2>1
<1>7. todo' = [k \in Loops |-> work'[k] \o rest[k]]
  BY <1>1 DEF todo
<1>8. \A k \in Loops : k # l => work'[k] = work[k]
  BY <1>2 DEF Vectors
<1>9. work'[l] = s \o Tail(work[l])
  BY <1>2 DEF Vectors
<1>10. \A k \in Loops : todo'[k] = IF k = l THEN s \o Tail(todo[l]) ELSE todo[k]
  BY <1>2, <1>5, <1>6, <1>7, <1>8, <1>9
<1>11. Put(Pop(todo, l), l, s) = [k \in Loops |-> IF k = l THEN s \o Tail(todo[l]) ELSE todo[k]]
  BY <1>2 DEF Put, Pop, Vectors
<1> QED BY <1>1, <1>3, <1>7, <1>10, <1>11

(* A round that runs the same batch. *)
SameBatch ==
    \A m \in Loops : round'[m].batch = round[m].batch /\ round'[m].next = round[m].next

(* A call is queued. *)
LEMMA QueueIs ==
    ASSUME Types, StageOK, NEW k \in Loops, NEW e \in Calls, Queue(k, e), SameBatch
    PROVE  /\ rest' = Add(rest, k, e)
           /\ work' = work => todo' = Add(todo, k, e)
<1>1. /\ tasks' = [tasks EXCEPT ![k] = Append(tasks[k], e)]
      /\ work \in Vectors /\ rest \in Vectors /\ todo \in Vectors
      /\ \A m \in Loops : todo[m] = work[m] \o rest[m]
  BY TodoIs DEF Queue
<1>2. tasks \in [Loops -> Seq(Calls)]
  BY DEF Types
<1> DEFINE b(m) == SubSeq(round[m].batch, round[m].next, Len(round[m].batch))
<1>3. \A m \in Loops : rest[m] = b(m) \o tasks[m]
  BY DEF rest
<1>4. rest' = [m \in Loops |-> b(m) \o tasks'[m]]
  BY DEF rest, SameBatch
<1>5. \A m \in Loops : b(m) \in Seq(Calls)
  <2> TAKE m \in Loops
  <2>1. round[m].batch \in Seq(Calls)
    BY DEF Types, Rounds
  <2>2. round[m].next \in 1 .. Len(round[m].batch) + 1
    BY DEF StageOK
  <2>3. \A i \in round[m].next .. Len(round[m].batch) : round[m].batch[i] \in Calls
    BY <2>1, <2>2
  <2> QED BY <2>1, <2>2, <2>3, SubSeqProperties
<1> HIDE DEF b
<1>6. b(k) \o Append(tasks[k], e) = Append(b(k) \o tasks[k], e)
  BY <1>2, <1>5, AppendConcat
<1>7. \A m \in Loops : rest'[m] = IF m = k THEN Append(rest[k], e) ELSE rest[m]
  BY <1>1, <1>2, <1>3, <1>4, <1>6
<1>8. Add(rest, k, e) = [m \in Loops |-> IF m = k THEN Append(rest[k], e) ELSE rest[m]]
  BY <1>1 DEF Add, Vectors
<1>9. rest' = Add(rest, k, e)
  BY <1>4, <1>7, <1>8
<1>10. ASSUME work' = work PROVE todo' = Add(todo, k, e)
  <2>1. todo' = [m \in Loops |-> work[m] \o rest'[m]]
    BY <1>10 DEF todo
  <2>2. work[k] \o Append(rest[k], e) = Append(todo[k], e)
    BY <1>1, AppendConcat DEF Vectors
  <2>3. \A m \in Loops : todo'[m] = IF m = k THEN Append(todo[k], e) ELSE todo[m]
    BY <1>1, <1>7, <2>1, <2>2
  <2>4. Add(todo, k, e) = [m \in Loops |-> IF m = k THEN Append(todo[k], e) ELSE todo[m]]
    BY <1>1 DEF Add, Vectors
  <2> QED BY <2>1, <2>3, <2>4
<1> QED BY <1>9, <1>10

(* A call returns and queues another. *)
LEMMA ReturnQueueIs ==
    ASSUME Types, StageOK, NEW l \in Loops, work[l] # <<>>, NEW s \in Seq(Calls),
           NEW k \in Loops, NEW e \in Calls,
           Return(l, s), Queue(k, e), round' = round
    PROVE  /\ rest' = Add(rest, k, e)
           /\ work' = Put(Pop(work, l), l, s)
           /\ todo' = Add(Put(Pop(todo, l), l, s), k, e)
<1>1. rest' = Add(rest, k, e)
  BY QueueIs DEF SameBatch
<1>2. /\ work' = [work EXCEPT ![l] = s \o Tail(work[l])]
      /\ work \in Vectors /\ rest \in Vectors /\ todo \in Vectors
      /\ \A m \in Loops : todo[m] = work[m] \o rest[m]
  BY TodoIs DEF Return
<1>3. work' = Put(Pop(work, l), l, s)
  BY <1>2 DEF Put, Pop, Vectors
<1>4. Tail(work[l]) \in Seq(Calls) /\ rest[l] \in Seq(Calls) /\ work[l] \in Seq(Calls)
  BY <1>2 DEF Vectors
<1>5. (s \o Tail(work[l])) \o rest[l] = s \o (Tail(work[l]) \o rest[l])
  <2>1. \A a, b, c \in Seq(Calls) : (a \o b) \o c = a \o (b \o c)
    BY ConcatAssociative
  <2> QED BY <1>4, <2>1
<1>6. Tail(work[l]) \o rest[l] = Tail(todo[l])
  <2>1. \A a, b \in Seq(Calls) : a # <<>> => Tail(a \o b) = Tail(a) \o b
    BY TailConcat
  <2> QED BY <1>2, <1>4, <2>1
<1>7. \A m \in Loops : m # l => work'[m] = work[m]
  BY <1>2 DEF Vectors
<1>8. work'[l] = s \o Tail(work[l])
  BY <1>2 DEF Vectors
<1> DEFINE M == Put(Pop(todo, l), l, s)
<1>9. M = [m \in Loops |-> IF m = l THEN s \o Tail(todo[l]) ELSE todo[m]]
  BY <1>2 DEF Put, Pop, Vectors
<1>10. \A m \in Loops : work'[m] \o rest[m] = M[m]
  BY <1>2, <1>5, <1>6, <1>7, <1>8, <1>9
<1>11. M \in [Loops -> Seq(Calls)]
  <2>1. todo[l] # <<>>
    BY TodoIs
  <2>2. Tail(todo[l]) \in Seq(Calls)
    BY <1>2, <2>1 DEF Vectors
  <2> QED BY <1>2, <1>9, <2>2 DEF Vectors
<1> HIDE DEF M
<1>12. \A m \in Loops : rest'[m] = IF m = k THEN Append(rest[k], e) ELSE rest[m]
  BY <1>1, <1>2 DEF Add, Vectors
<1>13. work'[k] \in Seq(Calls)
  BY <1>2, <1>4, <1>7, <1>8 DEF Vectors
<1>14. work'[k] \o Append(rest[k], e) = Append(work'[k] \o rest[k], e)
  <2>1. \A a, b \in Seq(Calls) : a \o Append(b, e) = Append(a \o b, e)
    BY AppendConcat
  <2>2. rest[k] \in Seq(Calls)
    BY <1>2 DEF Vectors
  <2> QED BY <1>13, <2>1, <2>2
<1>15. todo' = [m \in Loops |-> work'[m] \o rest'[m]]
  BY DEF todo
<1>16. \A m \in Loops : todo'[m] = IF m = k THEN Append(M[k], e) ELSE M[m]
  BY <1>10, <1>12, <1>14, <1>15
<1>17. Add(M, k, e) = [m \in Loops |-> IF m = k THEN Append(M[k], e) ELSE M[m]]
  BY <1>11 DEF Add
<1>18. todo' = Add(M, k, e)
  BY <1>15, <1>16, <1>17
<1> QED BY <1>1, <1>3, <1>18 DEF M

(* Calls are made, on top of those that were to be made. *)
LEMMA PutIs ==
    ASSUME Types, StageOK, NEW l \in Loops, NEW s \in Seq(Calls),
           work' = [work EXCEPT ![l] = s \o work[l]], rest' = rest
    PROVE  work' = Put(work, l, s) /\ todo' = Put(todo, l, s)
<1>1. /\ work \in Vectors /\ rest \in Vectors /\ todo \in Vectors
      /\ \A m \in Loops : todo[m] = work[m] \o rest[m]
  BY TodoIs
<1>2. work[l] \in Seq(Calls) /\ rest[l] \in Seq(Calls)
  BY <1>1 DEF Vectors
<1>3. (s \o work[l]) \o rest[l] = s \o todo[l]
  <2>1. \A a, b, c \in Seq(Calls) : (a \o b) \o c = a \o (b \o c)
    BY ConcatAssociative
  <2>2. (s \o work[l]) \o rest[l] = s \o (work[l] \o rest[l])
    BY <1>2, <2>1
  <2> QED BY <1>1, <2>2
<1>4. todo' = [m \in Loops |-> work'[m] \o rest[m]]
  BY DEF todo
<1>5. \A m \in Loops : work'[m] = IF m = l THEN s \o work[l] ELSE work[m]
  BY <1>1 DEF Vectors
<1>6. \A m \in Loops : todo'[m] = IF m = l THEN s \o todo[l] ELSE todo[m]
  BY <1>1, <1>3, <1>4, <1>5
<1>7. Put(todo, l, s) = [m \in Loops |-> IF m = l THEN s \o todo[l] ELSE todo[m]]
  BY <1>1 DEF Put, Vectors
<1>8. work' = Put(work, l, s)
  BY DEF Put
<1> QED BY <1>4, <1>6, <1>7, <1>8

-----------------------------------------------------------------------------
(* One call of loop l returns, makes the calls of s and queues those of ts *)
(* to loop k.                                                              *)
Steps(l, s, k, ts) ==
    /\ round' = round
    /\ work' \in Vectors /\ tasks' \in Vectors
    /\ \A m \in Loops : m # l => work'[m] = work[m]
    /\ work'[l] = s \o Tail(work[l])
    /\ \A m \in Loops, e \in Calls : Has(rest', m, e) => Has(rest, m, e) \/ (m = k /\ e \in ts)
    /\ \A m \in Loops, e \in Calls :
          Has(todo', m, e) <=> \/ Has(Pop(todo, l), m, e)
                               \/ m = l /\ \E i \in DOMAIN s : s[i] = e
                               \/ m = k /\ e \in ts

(* A call moves an object on only if it was such a call itself, or if      *)
(* there was none.                                                         *)
MovesOn(l) == Head(work[l]).fn \in LifeFns \/ NoLife(todo, Callee(l))

(* No call is left that moves the callee on. *)
LEMMA MovedOn ==
    ASSUME Types, StageOK, OnceOK, NEW l \in Loops, work[l] # <<>>
    PROVE  /\ Once(Pop(todo, l))
           /\ MovesOn(l) => NoLife(Pop(todo, l), Callee(l))
<1>1. todo \in Vectors /\ todo[l] # <<>> /\ Head(todo[l]) = Head(work[l])
  BY TodoIs
<1>2. Once(Pop(todo, l)) /\ (Head(work[l]).fn \in LifeFns => NoLife(Pop(todo, l), Callee(l)))
  BY <1>1, OncePop DEF OnceOK, Callee
<1>3. ASSUME NoLife(todo, Callee(l)) PROVE NoLife(Pop(todo, l), Callee(l))
  <2>1. Pop(todo, l) \in Vectors
    BY <1>1, VecPop
  <2>2. \A k \in Loops, e \in Calls : Has(todo, k, e) /\ e.fn \in LifeFns => e.c # Callee(l)
    BY <1>1, <1>3, NoLifeHas
  <2>3. \A k \in Loops, e \in Calls : Has(Pop(todo, l), k, e) => Has(todo, k, e)
    BY <1>1, HasPop
  <2>4. \A k \in Loops, e \in Calls : Has(Pop(todo, l), k, e) /\ e.fn \in LifeFns => e.c # Callee(l)
    BY <2>2, <2>3
  <2> QED BY <2>1, <2>4, NoLifeHas
<1> QED BY <1>2, <1>3 DEF MovesOn

(* A call that returns, without ... *)
LEMMA StepsReturn ==
    ASSUME Types, StageOK, OnceOK, NEW l \in Loops, work[l] # <<>>, NEW s \in Seq(Calls),
           Return(l, s), tasks' = tasks, round' = round,
           \A i, j \in DOMAIN s : s[i].fn \in LifeFns /\ s[j].fn \in LifeFns => i = j,
           \A i \in DOMAIN s : s[i].fn \in LifeFns => s[i].c = Callee(l) /\ MovesOn(l)
    PROVE  Steps(l, s, 0, {}) /\ OnceOK'
<1>1. /\ rest' = rest /\ work' = Put(Pop(work, l), l, s) /\ todo' = Put(Pop(todo, l), l, s)
  BY ReturnIs
<1>2. /\ todo \in Vectors /\ todo[l] # <<>> /\ work \in Vectors
  BY TodoIs
<1>3. Pop(todo, l) \in Vectors /\ Pop(work, l) \in Vectors
  BY <1>2, VecPop
<1>4. work' \in Vectors
  BY <1>1, <1>3, VecPut
<1>5. tasks' \in Vectors
  BY DEF Types, Vectors
<1>6. /\ \A m \in Loops : m # l => work'[m] = work[m]
      /\ work'[l] = s \o Tail(work[l])
  BY <1>2 DEF Return, Vectors
<1>7. \A m \in Loops, e \in Calls :
         Has(todo', m, e) <=> \/ Has(Pop(todo, l), m, e)
                              \/ m = l /\ \E i \in DOMAIN s : s[i] = e
  BY <1>1, <1>3, HasPut
<1>8. Steps(l, s, 0, {})
  BY <1>1, <1>4, <1>5, <1>6, <1>7 DEF Steps
<1>9. OnceOK'
  <2>1. Once(Pop(todo, l)) /\ (MovesOn(l) => NoLife(Pop(todo, l), Callee(l)))
    BY MovedOn
  <2>2. Once(Put(Pop(todo, l), l, s))
    BY <1>3, <2>1, OncePut
  <2> QED BY <1>1, <2>2 DEF OnceOK
<1> QED BY <1>8, <1>9

(* ... and with a call that it queues. *)
LEMMA StepsQueue ==
    ASSUME Types, StageOK, OnceOK, NEW l \in Loops, work[l] # <<>>, NEW s \in Seq(Calls),
           NEW k \in Loops, NEW t \in Calls,
           Return(l, s), Queue(k, t), round' = round,
           \A i \in DOMAIN s : s[i].fn \notin LifeFns,
           t.fn \in LifeFns => t.c = Callee(l) /\ MovesOn(l)
    PROVE  Steps(l, s, k, {t}) /\ OnceOK'
<1> DEFINE P == Pop(todo, l)
           M == Put(P, l, s)
<1>1. /\ rest' = Add(rest, k, t) /\ work' = Put(Pop(work, l), l, s) /\ todo' = Add(M, k, t)
  BY ReturnQueueIs
<1>2. /\ todo \in Vectors /\ todo[l] # <<>> /\ work \in Vectors /\ rest \in Vectors
  BY TodoIs
<1>3. P \in Vectors /\ Pop(work, l) \in Vectors
  BY <1>2, VecPop
<1>4. work' \in Vectors /\ M \in Vectors
  BY <1>1, <1>3, VecPut
<1>5. tasks' \in Vectors
  BY DEF Types, Vectors, Queue
<1>6. /\ \A m \in Loops : m # l => work'[m] = work[m]
      /\ work'[l] = s \o Tail(work[l])
  BY <1>2 DEF Return, Vectors
<1>7. \A m \in Loops, e \in Calls :
         Has(M, m, e) <=> \/ Has(P, m, e)
                          \/ m = l /\ \E i \in DOMAIN s : s[i] = e
  BY <1>3, HasPut
<1>8. Once(P) /\ (MovesOn(l) => NoLife(P, Callee(l)))
  BY MovedOn
<1>9. Once(M)
  BY <1>3, <1>8, OncePut
<1>10. t.fn \in LifeFns => NoLife(M, t.c)
  <2> SUFFICES ASSUME t.fn \in LifeFns PROVE NoLife(M, t.c)
    OBVIOUS
  <2>1. \A m \in Loops, e \in Calls : Has(P, m, e) /\ e.fn \in LifeFns => e.c # t.c
    BY <1>3, <1>8, NoLifeHas
  <2>2. \A m \in Loops, e \in Calls : Has(M, m, e) /\ e.fn \in LifeFns => e.c # t.c
    BY <1>7, <2>1
  <2> QED BY <1>4, <2>2, NoLifeHas
<1> HIDE DEF M, P
<1>11. Once(Add(M, k, t))
  BY <1>4, <1>9, <1>10, OnceAdd
<1>12. \A m \in Loops, e \in Calls : Has(Add(M, k, t), m, e) <=> Has(M, m, e) \/ (m = k /\ e = t)
  BY <1>4, HasAdd
<1>13. \A m \in Loops, e \in Calls : Has(Add(rest, k, t), m, e) <=> Has(rest, m, e) \/ (m = k /\ e = t)
  BY <1>2, HasAdd
<1>14. Steps(l, s, k, {t})
  BY <1>1, <1>4, <1>5, <1>6, <1>7, <1>12, <1>13 DEF Steps, P
<1> QED BY <1>1, <1>11, <1>14 DEF OnceOK

-----------------------------------------------------------------------------
(* What a step leaves as it is.                                            *)
SameConn(c) ==
    /\ conn'[c].fd = conn[c].fd /\ conn'[c].loop = conn[c].loop
    /\ conn'[c].downs = conn[c].downs
    /\ conn'[c].state = conn[c].state \/ (Up(c) /\ Up(c)')
    /\ conn'[c].events = conn[c].events \/ (Up(c) /\ "in" \in conn'[c].events)
    /\ InMap(c)' <=> InMap(c)
    /\ Dying(c)' <=> Dying(c)
SameDial(d) == dial'[d] = dial[d] /\ (Waits(d)' <=> Waits(d))
SameMaps == /\ connection_map_' = connection_map_ /\ connector' = connector
            /\ left'.fails = left.fails

(* A call relies on its own object only. *)
LEMMA CallFrame ==
    ASSUME NEW l, NEW e, CallOK(l, e), connector'.loop = connector.loop,
           e.c \in Conns => SameConn(e.c) /\ (Shared(e.c) => Shared(e.c)'),
           e.c \in Dials => SameDial(e.c)
    PROVE  CallOK(l, e)'
<1>1. CASE e.fn \notin DialFns
  <2>1. /\ e.c \in Conns
        /\ conn'[e.c].loop = conn[e.c].loop /\ (InMap(e.c)' <=> InMap(e.c))
        /\ conn'[e.c].state = conn[e.c].state \/ (Up(e.c) /\ Up(e.c)')
        /\ Linked(e.c)' <=> Linked(e.c)
        /\ Shared(e.c) => Shared(e.c)'
    BY <1>1 DEF CallOK, SameConn, Linked
  <2>2. /\ Up(e.c)' <=> Up(e.c)
        /\ Down(e.c)' <=> Down(e.c)
        /\ Made(e.c)' <=> Made(e.c)
        /\ conn'[e.c].state = "connecting" <=> conn[e.c].state = "connecting"
    BY <2>1 DEF Up, Down, Made
  <2> QED BY <1>1, <2>1, <2>2 DEF CallOK, DialFns
<1>2. CASE e.fn \in DialFns
  <2>1. e.c \in Dials /\ dial'[e.c] = dial[e.c] /\ (Waits(e.c)' <=> Waits(e.c))
    BY <1>2 DEF CallOK, SameDial
  <2> QED BY <1>2, <2>1 DEF CallOK, DialFns
<1> QED BY <1>1, <1>2

(* The parts of the invariant about one connection, one dial, two owners.  *)
LEMMA ConnFrame ==
    ASSUME ConnOK, NEW c \in Conns, SameConn(c)
    PROVE  /\ Up(c)' => InMap(c)' /\ conn'[c].downs = 0 /\ "in" \in conn'[c].events
           /\ Down(c)' => conn'[c].events = {} /\ conn'[c].downs = 1
           /\ ~Made(c)' => conn'[c].events = {} /\ conn'[c].downs = 0
           /\ conn'[c].state = "connecting" => InMap(c)'
           /\ conn'[c].state = "none" => ~InMap(c)'
           /\ Up(c)' <=> Up(c)
           /\ Down(c)' <=> Down(c)
           /\ Made(c)' <=> Made(c)
           /\ Linked(c)' <=> Linked(c)
           /\ conn'[c].events = {} <=> conn[c].events = {}
           /\ conn'[c].state = "none" <=> conn[c].state = "none"
<1>1. /\ Up(c)' <=> Up(c)
      /\ Down(c)' <=> Down(c)
      /\ Made(c)' <=> Made(c)
      /\ conn'[c].state = "connecting" <=> conn[c].state = "connecting"
      /\ conn'[c].state = "none" <=> conn[c].state = "none"
  BY DEF SameConn, Up, Down, Made
<1>2. Linked(c)' <=> Linked(c)
  BY DEF SameConn, Linked
<1>3. Up(c) => ~Down(c) /\ Made(c)
  BY DEF Up, Down, Made
<1>4. conn'[c].events = {} <=> conn[c].events = {}
  BY <1>1, <1>3 DEF SameConn, ConnOK
<1> QED BY <1>1, <1>2, <1>3, <1>4 DEF SameConn, ConnOK

(* A step that leaves every connection and dial as it is. *)
LEMMA QuietKeeps ==
    ASSUME Base, \A c \in Conns : SameConn(c), \A d \in Dials : SameDial(d), SameMaps,
           \A k \in Loops, e \in Calls : Has(todo', k, e) => Has(todo, k, e) \/ CallOK(k, e)',
           \A c \in Conns : Shared(c) => Shared(c)',
           \A d \in Dials : Under({"handleConnect", "newConnection"}, d)
                              => Under({"handleConnect", "newConnection"}, d)'
    PROVE  CallsOK' /\ ConnOK' /\ MapOK' /\ DialMapOK' /\ DialOK' /\ AddressOK' /\ FdOK'
<1>1. CallsOK'
  <2> SUFFICES ASSUME NEW k \in Loops, NEW e \in Calls, Has(todo, k, e)
               PROVE  CallOK(k, e)'
    BY DEF CallsOK
  <2>1. CallOK(k, e)
    BY DEF Base, CallsOK
  <2> QED BY <2>1, CallFrame DEF SameMaps
<1>2. ConnOK'
  <2> SUFFICES ASSUME NEW c \in Conns
               PROVE  /\ Up(c)' => InMap(c)' /\ conn'[c].downs = 0 /\ "in" \in conn'[c].events
                      /\ Down(c)' => conn'[c].events = {} /\ conn'[c].downs = 1
                      /\ ~Made(c)' => conn'[c].events = {} /\ conn'[c].downs = 0
                      /\ conn'[c].state = "connecting" => InMap(c)'
                      /\ conn'[c].state = "none" => ~InMap(c)'
    BY DEF ConnOK
  <2> QED BY ConnFrame DEF Base
<1>3. MapOK'
  <2>1. \A f \in DOMAIN connection_map_ : connection_map_[f] \in Conns
    BY DEF Base, Types, Partial
  <2> QED BY <2>1 DEF Base, MapOK, SameMaps, SameConn
<1>4. \A f \in DOMAIN connector.conn_map : connector.conn_map[f] \in Dials
  BY DEF Base, Types, Partial
<1>5. DialMapOK'
  BY <1>4 DEF Base, DialMapOK, SameMaps, SameDial
<1>6. \A d \in Dials : (OpenDial(d)' <=> OpenDial(d)) /\ (Waits(d)' <=> Waits(d)) /\ dial'[d] = dial[d]
  BY DEF OpenDial, SameDial
<1>7. DialOK'
  BY <1>6 DEF Base, DialOK
<1>8. AddressOK'
  BY <1>6 DEF Base, AddressOK
<1>9. \A c \in Conns : /\ Linked(c)' <=> Linked(c)
                       /\ conn'[c].fd = conn[c].fd
                       /\ conn'[c].state = "none" <=> conn[c].state = "none"
  BY ConnFrame DEF Base, SameConn
<1>10. FdOK'
  BY <1>6, <1>9 DEF Base, FdOK, SameMaps
<1> QED BY <1>1, <1>2, <1>3, <1>5, <1>7, <1>8, <1>10

(* The pollers know the same channels, and watch the same. *)
SamePollers ==
    \A l \in Loops :
        /\ poller'[l].channels = poller[l].channels
        /\ PollerOK(poller'[l])
        /\ \A f \in DOMAIN poller[l].channels :
              EntryOf(poller'[l], f).fd = EntryOf(poller[l], f).fd

(* Then what they know of it is still true. *)
LEMMA WiredQuiet ==
    ASSUME Base, Wired, \A c \in Conns : SameConn(c), SameMaps, SamePollers
    PROVE  Wired' /\ UpReg'
<1>1. \A c \in Conns : /\ Linked(c)' <=> Linked(c)
                       /\ Made(c)' <=> Made(c)
                       /\ Up(c)' <=> Up(c)
                       /\ conn'[c].fd = conn[c].fd /\ conn'[c].loop = conn[c].loop
                       /\ conn'[c].events = {} <=> conn[c].events = {}
  BY ConnFrame DEF Base, SameConn
<1>2. \A c \in Conns : conn[c].loop \in Loops
  BY DEF Base, Types, ConnRec
<1>3. \A c \in Conns : Reg(c)' <=> Reg(c)
  BY <1>1, <1>2 DEF Reg, SamePollers
<1>4. UpReg'
  BY <1>1, <1>3 DEF Base, UpReg
<1>5. RegOK'
  BY <1>1, <1>3 DEF Wired, RegOK
<1>6. connector.loop \in Loops
  BY DEF Base, Types
<1>7. WaitsOK'
  BY <1>6 DEF Wired, WaitsOK, SameMaps, SamePollers
<1>8. PollOK'
  <2> SUFFICES ASSUME NEW l \in Loops, NEW f \in DOMAIN poller[l].channels
               PROVE  Owned(l, f)'
    BY DEF PollOK, SamePollers
  <2>1. Owned(l, f)
    BY DEF Wired, PollOK
  <2>2. poller'[l].channels[f] = poller[l].channels[f]
        /\ EntryOf(poller'[l], f).fd = EntryOf(poller[l], f).fd
    BY DEF SamePollers
  <2> QED BY <1>1, <2>1, <2>2 DEF Owned, SameMaps
<1> QED BY <1>4, <1>5, <1>7, <1>8 DEF Wired

-----------------------------------------------------------------------------
(* The order of the calls on a stack, after one returned and made those    *)
(* of s.                                                                   *)
Fits(w, s) ==
    /\ Ordered(s)
    /\ \A i \in DOMAIN s : s[i].fn \in LastCalls => Len(w) = 1 /\ Len(s) = 1
    /\ Head(w).fn \in AboveRead => \A i \in DOMAIN s : s[i].fn \in AboveRead
    /\ Head(w).fn \in AboveMessage => \A i \in DOMAIN s : s[i].fn \in AboveMessage

(* Putting calls that fit in the place of the first keeps the order.       *)
LEMMA OrderPush ==
    ASSUME NEW w \in Seq(Calls), NEW s \in Seq(Calls), w # <<>>, Ordered(w), Fits(w, s)
    PROVE  Ordered(s \o Tail(w))
<1> DEFINE r == s \o Tail(w)
           n == Len(s)
           m == Len(w)
<1>1. /\ n \in Nat /\ m \in Nat /\ m >= 1 /\ Tail(w) \in Seq(Calls)
      /\ r \in Seq(Calls) /\ Len(r) = n + m - 1
      /\ \A i \in 1 .. n : r[i] = s[i]
      /\ \A i \in n + 1 .. n + m - 1 : r[i] = w[i - n + 1]
      /\ DOMAIN s = 1 .. n /\ DOMAIN w = 1 .. m /\ DOMAIN r = 1 .. Len(r)
      /\ Head(w) = w[1]
  <2>1. Len(s) \in Nat /\ Len(w) \in Nat /\ Len(w) >= 1 /\ Tail(w) \in Seq(Calls)
    BY EmptySeq
  <2>2. Len(Tail(w)) = m - 1 /\ \A i \in 1 .. m - 1 : Tail(w)[i] = w[i + 1]
    BY <2>1
  <2>3. r \in Seq(Calls) /\ Len(r) = n + m - 1 /\ DOMAIN r = 1 .. Len(r)
    BY <2>1, <2>2
  <2>4. \A i \in 1 .. n : r[i] = s[i]
    BY <2>1
  <2>5. ASSUME NEW i \in n + 1 .. n + m - 1 PROVE r[i] = w[i - n + 1]
    <3>1. i - n \in 1 .. m - 1
      BY <2>1
    <3>2. r[i] = Tail(w)[i - n]
      BY <2>1, <2>2
    <3>3. Tail(w)[i - n] = w[(i - n) + 1]
      BY <2>2, <3>1
    <3> QED BY <3>2, <3>3
  <2>6. Head(w) = w[1]
    BY <2>1
  <2> QED BY <2>1, <2>2, <2>3, <2>4, <2>5, <2>6
<1> HIDE DEF r, n, m
<1> SUFFICES ASSUME NEW i \in DOMAIN r
             PROVE  /\ r[i].fn = "handleClose" => i = 1
                    /\ r[i].fn = "handleRead" => \A j \in 1 .. i - 1 : r[j].fn \in AboveRead
                    /\ r[i].fn = "messageCb" => \A j \in 1 .. i - 1 : r[j].fn \in AboveMessage
                    /\ r[i].fn \in LastCalls => Len(r) = 1
  BY DEF Ordered, r
<1>2. i \in 1 .. n + m - 1
  BY <1>1
<1>3. CASE i <= n
  <2>1. i \in DOMAIN s /\ r[i] = s[i] /\ \A j \in 1 .. i - 1 : r[j] = s[j]
    BY <1>1, <1>2, <1>3
  <2>2. r[i].fn \in LastCalls => m = 1 /\ n = 1
    BY <2>1 DEF Fits, n, m
  <2> QED BY <1>1, <2>1, <2>2 DEF Fits, Ordered
<1>4. CASE i > n
  <2> DEFINE q == i - n + 1
  <2>1. q \in DOMAIN w /\ q # 1 /\ r[i] = w[q] /\ q \in Int
    BY <1>1, <1>2, <1>4
  <2>2. /\ w[q].fn = "handleClose" => q = 1
        /\ w[q].fn = "handleRead" => \A j \in 1 .. q - 1 : w[j].fn \in AboveRead
        /\ w[q].fn = "messageCb" => \A j \in 1 .. q - 1 : w[j].fn \in AboveMessage
        /\ w[q].fn \in LastCalls => m = 1
    BY <2>1 DEF Ordered, m
  <2>3. m # 1 /\ 1 \in 1 .. q - 1
    BY <1>1, <2>1
  <2>4. ASSUME NEW j \in 1 .. i - 1
        PROVE  \/ j \in DOMAIN s /\ r[j] = s[j]
               \/ j - n + 1 \in 1 .. q - 1 /\ r[j] = w[j - n + 1]
    BY <1>1, <1>2, <1>4
  <2> HIDE DEF q
  <2>5. ASSUME r[i].fn = "handleRead", NEW j \in 1 .. i - 1 PROVE r[j].fn \in AboveRead
    <3>1. Head(w).fn \in AboveRead
      BY <1>1, <2>1, <2>2, <2>3, <2>5
    <3> QED BY <2>1, <2>2, <2>4, <2>5, <3>1 DEF Fits
  <2>6. ASSUME r[i].fn = "messageCb", NEW j \in 1 .. i - 1 PROVE r[j].fn \in AboveMessage
    <3>1. Head(w).fn \in AboveMessage
      BY <1>1, <2>1, <2>2, <2>3, <2>6
    <3> QED BY <2>1, <2>2, <2>4, <2>6, <3>1 DEF Fits
  <2> QED BY <2>1, <2>2, <2>3, <2>5, <2>6
<1> QED BY <1>1, <1>2, <1>3, <1>4

(* The parts of the invariant about stacks and vectors. *)
LEMMA StepsKeep ==
    ASSUME Types, StageOK, OrderOK, RestOK, NEW l \in Loops, work[l] # <<>>, NEW s \in Seq(Calls),
           NEW k, NEW ts, Steps(l, s, k, ts), Fits(work[l], s),
           \A t \in ts : t.fn \in TaskFns
    PROVE  StageOK' /\ OrderOK' /\ RestOK'
<1>1. StageOK'
  BY DEF Steps, StageOK
<1>2. OrderOK'
  <2>1. work[l] \in Seq(Calls)
    BY DEF Types
  <2>2. Ordered(s \o Tail(work[l]))
    BY <2>1, OrderPush DEF OrderOK
  <2> QED BY <2>2 DEF Steps, OrderOK
<1>3. RestOK'
  BY DEF Steps, RestOK
<1> QED BY <1>1, <1>2, <1>3

(* A vector of one call, and of none. *)
LEMMA OneCall ==
    ASSUME NEW e \in Calls
    PROVE  /\ <<e>> \in Seq(Calls) /\ <<>> \in Seq(Calls)
           /\ DOMAIN <<e>> = {1} /\ <<e>>[1] = e /\ Len(<<e>>) = 1
           /\ Ordered(<<e>>)
<1>1. <<e>> \in Seq(Calls) /\ <<>> \in Seq(Calls) /\ Len(<<e>>) = 1 /\ <<e>>[1] = e
  OBVIOUS
<1>2. DOMAIN <<e>> = {1}
  <2>1. DOMAIN <<e>> = 1 .. 1
    BY <1>1
  <2> QED BY <2>1
<1>3. 1 .. 1 - 1 = {}
  OBVIOUS
<1>4. Ordered(<<e>>)
  BY <1>1, <1>2, <1>3 DEF Ordered
<1> QED BY <1>1, <1>2, <1>4

(* The empty vector. *)
LEMMA NoCall ==
    /\ <<>> \in Seq(Calls) /\ DOMAIN <<>> = {} /\ Ordered(<<>>)
    /\ \A w : Fits(w, <<>>)
<1>1. <<>> \in Seq(Calls) /\ DOMAIN <<>> = {}
  OBVIOUS
<1> QED BY <1>1 DEF Ordered, Fits

-----------------------------------------------------------------------------
(* A call of a connection returns and makes or queues calls of the same    *)
(* connection: dials, other connections and the channels that are still to *)
(* be handled are not concerned.                                           *)
OwnCalls(l, s, ts) ==
    /\ Callee(l) \in Conns /\ Head(work[l]).fn \notin DialFns
    /\ \A i \in DOMAIN s : s[i].c = Callee(l) /\ s[i].fn \notin DialFns
    /\ \A t \in ts : t \in Calls /\ t.c = Callee(l) /\ t.fn \notin DialFns

(* Only the connection's own calls come and go.                            *)
LEMMA OwnMembers ==
    ASSUME Base, NEW l \in Loops, work[l] # <<>>, NEW s \in Seq(Calls),
           NEW k, NEW ts, Steps(l, s, k, ts), OwnCalls(l, s, ts)
    PROVE  /\ Head(work[l]) \in Calls /\ Has(todo, l, Head(work[l]))
           /\ \A m \in Loops, e \in Calls : e.c # Callee(l) => (Has(todo', m, e) <=> Has(todo, m, e))
           /\ \A m \in Loops, e \in Calls : e.fn \in DialFns => (Has(todo', m, e) <=> Has(todo, m, e))
           /\ \A m \in Loops, e \in Calls :
                Has(todo', m, e) => \/ Has(todo, m, e)
                                    \/ m = l /\ \E i \in DOMAIN s : s[i] = e
                                    \/ m = k /\ e \in ts
<1>1. /\ todo \in Vectors /\ todo[l] # <<>> /\ Head(todo[l]) = Head(work[l])
  BY TodoIs DEF Base
<1>2. Head(work[l]) \in Calls /\ Has(todo, l, Head(work[l]))
  BY <1>1, VecPop, HasPop
<1>3. \A m \in Loops, e \in Calls :
         /\ Has(Pop(todo, l), m, e) => Has(todo, m, e)
         /\ Has(todo, m, e) => Has(Pop(todo, l), m, e) \/ (m = l /\ e = Head(work[l]))
  BY <1>1, HasPop
<1> QED BY <1>2, <1>3 DEF Steps, OwnCalls, Callee

(* So what is said of the other objects' calls stays.                      *)
LEMMA OwnStep ==
    ASSUME Base, NEW l \in Loops, work[l] # <<>>, NEW s \in Seq(Calls),
           NEW k, NEW ts, Steps(l, s, k, ts), OwnCalls(l, s, ts),
           dial' = dial, connector' = connector,
           \A c \in Conns : conn'[c].loop = conn[c].loop,
           \A c \in Conns : c # Callee(l) => (Up(c)' <=> Up(c))
    PROVE  /\ ActiveOK'
           /\ \A d \in Dials : SameDial(d)
           /\ \A d \in Dials : Under({"handleConnect", "newConnection"}, d)
                                 => Under({"handleConnect", "newConnection"}, d)'
           /\ \A c \in Conns : c # Callee(l) => (Dying(c)' <=> Dying(c))
<1>1. \A d \in Dials : SameDial(d)
  BY DEF SameDial, Waits
<1>2. /\ Head(work[l]) \in Calls /\ Has(todo, l, Head(work[l]))
      /\ \A m \in Loops, e \in Calls : e.c # Callee(l) => (Has(todo', m, e) <=> Has(todo, m, e))
      /\ \A m \in Loops, e \in Calls : e.fn \in DialFns => (Has(todo', m, e) <=> Has(todo, m, e))
  BY OwnMembers
<1>3. \A d \in Dials : Under({"handleConnect", "newConnection"}, d)
                         => Under({"handleConnect", "newConnection"}, d)'
  BY <1>2 DEF Under, DialFns
<1>4. \A d \in Dials : Under({"handleConnect"}, d)' => Under({"handleConnect"}, d)
  BY <1>2 DEF Under, DialFns
<1>5. ASSUME NEW c \in Conns, c # Callee(l) PROVE Dying(c)' <=> Dying(c)
  <2>1. conn[c].loop \in Loops /\ conn'[c].loop = conn[c].loop
    BY DEF Base, Types, ConnRec
  <2> QED BY <1>2, <1>5, <2>1 DEF Dying
<1>6. ActiveOK'
  <2> SUFFICES ASSUME NEW m \in Loops, NEW i \in DOMAIN round[m].active, NEW c,
                      c = round[m].active[i].c
               PROVE  /\ \A j \in DOMAIN round[m].active : round[m].active[j].c = c => i = j
                      /\ c \in Conns =>
                            /\ Up(c)' /\ conn'[c].loop = m
                            /\ \A j \in DOMAIN work'[m] : work'[m][j].c # c
                      /\ c \in Dials =>
                            /\ Waits(c)' /\ dial'[c].sock \in {"connected", "refused"}
                            /\ m = connector'.loop /\ ~Under({"handleConnect"}, c)'
    BY DEF ActiveOK, Steps
  <2>1. /\ \A j \in DOMAIN round[m].active : round[m].active[j].c = c => i = j
        /\ c \in Conns =>
              /\ Up(c) /\ conn[c].loop = m
              /\ \A j \in DOMAIN work[m] : work[m][j].c # c
        /\ c \in Dials =>
              /\ Waits(c) /\ dial[c].sock \in {"connected", "refused"}
              /\ m = connector.loop /\ ~Under({"handleConnect"}, c)
    BY DEF Base, ActiveOK
  <2>2. ASSUME c \in Conns PROVE c # Callee(l) /\ \A j \in DOMAIN work'[m] : work'[m][j].c # c
    <3>1. CallOK(l, Head(work[l]))
      BY <1>2 DEF Base, CallsOK
    <3>2. work[l] \in Seq(Calls) /\ s \in Seq(Calls)
      BY DEF Base, Types
    <3>3. 1 \in DOMAIN work[l] /\ Head(work[l]) = work[l][1]
      BY <3>2
    <3>4. CASE m = l
      <4>1. c # Callee(l)
        BY <2>1, <2>2, <3>3, <3>4 DEF Callee
      <4> DEFINE r == s \o Tail(work[l])
      <4>2. ASSUME NEW j \in DOMAIN r
            PROVE  (j \in DOMAIN s /\ r[j] = s[j]) \/ \E q \in DOMAIN work[l] : r[j] = work[l][q]
        <5>1. /\ Len(s) \in Nat /\ Len(work[l]) \in Nat /\ Len(work[l]) >= 1
              /\ Tail(work[l]) \in Seq(Calls) /\ Len(Tail(work[l])) = Len(work[l]) - 1
          BY <3>2, <3>3
        <5>2. j \in 1 .. Len(s) + Len(work[l]) - 1
          BY <3>2, <5>1
        <5>3. CASE j <= Len(s)
          BY <3>2, <5>1, <5>2, <5>3
        <5>4. CASE j > Len(s)
          <6>1. r[j] = Tail(work[l])[j - Len(s)]
            BY <3>2, <5>1, <5>2, <5>4
          <6>2. j - Len(s) \in 1 .. Len(work[l]) - 1
            BY <5>1, <5>2, <5>4
          <6>3. Tail(work[l])[j - Len(s)] = work[l][(j - Len(s)) + 1]
            BY <3>2, <3>3, <6>2
          <6>4. (j - Len(s)) + 1 \in DOMAIN work[l]
            BY <3>2, <5>1, <6>2
          <6> QED BY <6>1, <6>3, <6>4
        <5> QED BY <5>1, <5>2, <5>3, <5>4
      <4>3. work'[l] = r
        BY DEF Steps
      <4> HIDE DEF r
      <4> QED BY <2>1, <2>2, <3>4, <4>1, <4>2, <4>3 DEF OwnCalls
    <3>5. CASE m # l
      <4>1. work'[m] = work[m]
        BY <3>5 DEF Steps
      <4>2. c # Callee(l)
        <5>1. CASE Head(work[l]).fn = "removeConnectionInLoop"
          BY <2>1, <2>2, <3>1, <5>1 DEF CallOK, Callee, Up, Down
        <5>2. CASE Head(work[l]).fn # "removeConnectionInLoop"
          BY <2>1, <2>2, <3>1, <3>5, <5>2 DEF CallOK, Callee, OwnCalls
        <5> QED BY <5>1, <5>2
      <4> QED BY <2>1, <2>2, <4>1, <4>2
    <3> QED BY <3>4, <3>5
  <2>3. ASSUME c \in Conns PROVE Up(c)' /\ conn'[c].loop = m
    BY <2>1, <2>2, <2>3
  <2>4. ASSUME c \in Dials
        PROVE  /\ Waits(c)' /\ dial'[c].sock \in {"connected", "refused"}
               /\ m = connector'.loop /\ ~Under({"handleConnect"}, c)'
    BY <1>1, <1>4, <2>1, <2>4 DEF SameDial
  <2> QED BY <2>1, <2>2, <2>3, <2>4
<1> QED BY <1>1, <1>3, <1>5, <1>6

(* Nor is it torn down, if none of the calls is about that. *)
LEMMA DyingSame ==
    ASSUME Base, NEW l \in Loops, work[l] # <<>>, NEW s \in Seq(Calls),
           NEW k, NEW ts, Steps(l, s, k, ts), OwnCalls(l, s, ts),
           NEW c, c = Callee(l), conn'[c].loop = conn[c].loop,
           Head(work[l]).fn \notin LastCalls,
           \A i \in DOMAIN s : s[i].fn \notin LastCalls,
           \A t \in ts : t.fn \notin LastCalls
    PROVE  Dying(c)' <=> Dying(c)
<1>1. /\ todo \in Vectors /\ todo[l] # <<>> /\ Head(todo[l]) = Head(work[l])
  BY TodoIs DEF Base
<1>2. \A m \in Loops, e \in Calls :
         /\ Has(Pop(todo, l), m, e) => Has(todo, m, e)
         /\ Has(todo, m, e) => Has(Pop(todo, l), m, e) \/ (m = l /\ e = Head(work[l]))
  BY <1>1, HasPop
<1>3. \A m \in Loops, e \in Calls : e.fn \in LastCalls => (Has(todo', m, e) <=> Has(todo, m, e))
  BY <1>2 DEF Steps
<1>4. conn[c].loop \in Loops
  BY DEF OwnCalls, Base, Types, ConnRec
<1> QED BY <1>3, <1>4 DEF Dying, LastCalls

(* The fields of a connection that others rely on. *)
SameFields(c) ==
    /\ conn'[c].fd = conn[c].fd /\ conn'[c].loop = conn[c].loop
    /\ conn'[c].downs = conn[c].downs
    /\ conn'[c].state = conn[c].state \/ (Up(c) /\ Up(c)')
    /\ conn'[c].events = conn[c].events \/ (Up(c) /\ "in" \in conn'[c].events)

(* The variables a call of a connection leaves alone. *)
QuietTypes ==
    /\ conn' \in [Conns -> ConnRec] /\ poller' \in [Loops -> PollerRec]
    /\ connection_map_' = connection_map_ /\ thread_pool_' = thread_pool_
    /\ connector' = connector /\ dial' = dial
    /\ user' \in [Users -> UserRec]
    /\ peer' \in [Conns -> [closed : BOOLEAN, data : BOOLEAN]]
    /\ left' = left /\ fault' = fault

(* A call of a connection that changes nothing others rely on. *)
LEMMA QuietConnStep ==
    ASSUME ServerInv, Running, NEW l \in Loops, work[l] # <<>>, NEW s \in Seq(Calls),
           NEW k, NEW ts, Steps(l, s, k, ts), OwnCalls(l, s, ts), Fits(work[l], s),
           OnceOK', \A t \in ts : t.fn \in TaskFns,
           NEW b, b = Callee(l), Dying(b)' <=> Dying(b),
           \A i \in DOMAIN s : CallOK(l, s[i]),
           \A t \in ts : CallOK(k, t),
           QuietTypes, \A c \in Conns : SameFields(c), SamePollers,
           UserOK', \A c \in Conns : Shared(c) => Shared(c)'
    PROVE  ServerInv'
<1>0. Base /\ Wired
  BY DEF ServerInv
<1>1. StageOK' /\ OrderOK' /\ RestOK'
  BY <1>0, StepsKeep DEF Base
<1>2. \A c \in Conns : conn'[c].loop = conn[c].loop /\ (Up(c)' <=> Up(c))
  BY DEF SameFields, Up
<1>3. /\ ActiveOK'
      /\ \A d \in Dials : SameDial(d)
      /\ \A d \in Dials : Under({"handleConnect", "newConnection"}, d)
                            => Under({"handleConnect", "newConnection"}, d)'
      /\ \A c \in Conns : c # Callee(l) => (Dying(c)' <=> Dying(c))
  BY <1>0, <1>2, OwnStep DEF QuietTypes
<1>4. \A c \in Conns : InMap(c)' <=> InMap(c)
  BY DEF InMap, SameFields, QuietTypes
<1>5. \A c \in Conns : SameConn(c)
  BY <1>3, <1>4 DEF SameConn, SameFields
<1>6. SameMaps
  BY DEF SameMaps, QuietTypes
<1>7. \A m \in Loops, e \in Calls : Has(todo', m, e) => Has(todo, m, e) \/ CallOK(m, e)'
  <2> SUFFICES ASSUME NEW m \in Loops, NEW e \in Calls, Has(todo', m, e), ~Has(todo, m, e)
               PROVE  CallOK(m, e)'
    OBVIOUS
  <2>1. CallOK(m, e)
    BY <1>0, OwnMembers
  <2> QED BY <1>3, <1>5, <1>6, <2>1, CallFrame DEF SameMaps
<1>8. CallsOK' /\ ConnOK' /\ MapOK' /\ DialMapOK' /\ DialOK' /\ AddressOK' /\ FdOK'
  BY <1>0, <1>3, <1>5, <1>6, <1>7, QuietKeeps
<1>9. Wired' /\ UpReg'
  BY <1>0, <1>5, <1>6, WiredQuiet
<1>10. Types'
  <2>1. tasks' \in [Loops -> Seq(Calls)] /\ work' \in [Loops -> Seq(Calls)] /\ round' = round
    BY DEF Steps, Vectors
  <2> QED BY <1>0, <2>1 DEF Base, Types, QuietTypes
<1> QED BY <1>1, <1>3, <1>8, <1>9, <1>10 DEF ServerInv, Base

-----------------------------------------------------------------------------
(* The handlers of a connection.                                           *)

(* What is known of the call that a loop is in. *)
LEMMA CalleeOK ==
    ASSUME ServerInv, NEW l \in Loops, NEW fn, Calling(l, fn)
    PROVE  /\ Base /\ Wired /\ Running
           /\ work[l] # <<>> /\ work[l] \in Seq(Calls)
           /\ Head(work[l]) \in Calls /\ Head(work[l]).fn = fn
           /\ Has(todo, l, Head(work[l]))
           /\ CallOK(l, Head(work[l]))
           /\ fn \notin DialFns => Callee(l) \in Conns
           /\ fn \in DialFns => Callee(l) \in Dials
<1>1. Base /\ Wired /\ Running /\ work[l] # <<>> /\ Head(work[l]).fn = fn
  BY DEF ServerInv, Calling
<1>2. work[l] \in Seq(Calls)
  BY <1>1 DEF Base, Types
<1>3. todo \in Vectors /\ todo[l] # <<>> /\ Head(todo[l]) = Head(work[l])
  BY <1>1, TodoIs DEF Base
<1>4. Has(todo, l, Head(work[l])) /\ Head(work[l]) \in Calls
  BY <1>3, HasPop, VecPop
<1>5. CallOK(l, Head(work[l]))
  BY <1>1, <1>4 DEF Base, CallsOK
<1> QED BY <1>1, <1>2, <1>4, <1>5 DEF CallOK, Callee

(* Pollers that are not touched. *)
LEMMA PollersStay ==
    ASSUME Wired, poller' = poller
    PROVE  SamePollers
  BY DEF Wired, PollOK, SamePollers

(* Users that do nothing. *)
LEMMA UsersStay ==
    ASSUME Base, user' = user, \A c \in Conns : SameFields(c)
    PROVE  UserOK' /\ \A c \in Conns : Shared(c) => Shared(c)'
<1>1. \A c \in Conns : Made(c) => Made(c)'
  BY DEF SameFields, Made, Up, Down
<1>2. \A u \in Users : user[u].holds \subseteq Conns
  BY DEF Base, Types, UserRec
<1>3. UserOK'
  BY <1>1, <1>2 DEF Base, UserOK
<1>4. \A c \in Conns : Shared(c) => Shared(c)'
  BY DEF Shared
<1> QED BY <1>3, <1>4

(* A handler that only returns, and makes calls that move nothing on. *)
LEMMA SimpleReturn ==
    ASSUME ServerInv, NEW l \in Loops, NEW fn, Calling(l, fn), fn \notin DialFns \cup LastCalls,
           NEW s \in Seq(Calls), Return(l, s), tasks' = tasks, round' = round,
           \A i \in DOMAIN s : /\ s[i].c = Callee(l) /\ s[i].fn \notin DialFns \cup LifeFns
                               /\ CallOK(l, s[i]),
           Fits(work[l], s), QuietTypes, poller' = poller,
           \A c \in Conns : SameFields(c), UserOK', \A c \in Conns : Shared(c) => Shared(c)'
    PROVE  ServerInv'
<1>1. /\ Base /\ Wired /\ Running /\ work[l] # <<>> /\ Head(work[l]).fn = fn
      /\ Callee(l) \in Conns /\ Head(work[l]) \in Calls
  BY CalleeOK
<1>2. Steps(l, s, 0, {}) /\ OnceOK'
  BY <1>1, StepsReturn DEF Base
<1>3. OwnCalls(l, s, {})
  BY <1>1 DEF OwnCalls
<1>4. PICK b : b = Callee(l)
  OBVIOUS
<1>5. \A i \in DOMAIN s : s[i].fn \notin LastCalls
  BY DEF LifeFns, LastCalls
<1>6. Dying(b)' <=> Dying(b)
  <2>1. conn'[b].loop = conn[b].loop
    BY <1>1, <1>4 DEF SameFields
  <2> QED BY <1>1, <1>2, <1>3, <1>4, <1>5, <2>1, DyingSame
<1>7. SamePollers
  BY <1>1, PollersStay
<1> QED BY <1>1, <1>2, <1>3, <1>4, <1>6, <1>7, QuietConnStep

(* Nothing of the connections changes. *)
LEMMA ConnsStay ==
    ASSUME conn' = conn
    PROVE  \A c \in Conns : SameFields(c)
  BY DEF SameFields

(* One call in the place of the one that returned. *)
LEMMA FitsOne ==
    ASSUME NEW w, NEW e \in Calls, e.fn \notin LastCalls,
           Head(w).fn \in AboveRead => e.fn \in AboveRead,
           Head(w).fn \in AboveMessage => e.fn \in AboveMessage
    PROVE  Fits(w, <<e>>)
<1>1. DOMAIN <<e>> = {1} /\ <<e>>[1] = e /\ Ordered(<<e>>)
  BY OneCall
<1> QED BY <1>1 DEF Fits

(* handleRead *)
LEMMA HandleReadKeeps ==
    ASSUME ServerInv, NEW l \in Loops, HandleRead(l)
    PROVE  ServerInv'
<1> DEFINE c == Callee(l)
<1>0. PICK s \in {<<Call("messageCb", c, TRUE)>>, <<Call("handleClose", c, FALSE)>>, <<>>} :
         Return(l, s)
  BY DEF HandleRead
<1>1. /\ Calling(l, "handleRead") /\ Return(l, s) /\ tasks' = tasks /\ round' = round
      /\ poller' = poller /\ conn' = conn /\ user' = user
      /\ peer' = [peer EXCEPT ![c].data = FALSE]
  <2>1. /\ Calling(l, "handleRead") /\ tasks' = tasks /\ round' = round
        /\ poller' = poller /\ conn' = conn /\ user' = user
        /\ peer' = [peer EXCEPT ![c].data = FALSE]
    BY DEF HandleRead
  <2> QED BY <1>0, <2>1
<1>2. /\ Base /\ Wired /\ Head(work[l]).fn = "handleRead" /\ c \in Conns
      /\ CallOK(l, Head(work[l]))
  BY <1>1, CalleeOK DEF DialFns
<1>3. QuietTypes
  <2>1. peer' \in [Conns -> [closed : BOOLEAN, data : BOOLEAN]]
    BY <1>1, <1>2 DEF Base, Types
  <2> QED BY <1>1, <1>2, <2>1 DEF HandleRead, serverVars, connectorVars, QuietTypes, Base, Types
<1>4. (\A b \in Conns : SameFields(b)) /\ UserOK' /\ \A b \in Conns : Shared(b) => Shared(b)'
  BY <1>1, <1>2, ConnsStay, UsersStay
<1>5. "handleRead" \notin DialFns \cup LastCalls \cup AboveRead \cup AboveMessage
  BY DEF DialFns, LastCalls, AboveRead, AboveMessage
<1> DEFINE m == Call("messageCb", c, TRUE)
           h == Call("handleClose", c, FALSE)
<1>6. Up(c) /\ conn[c].loop = l
  BY <1>2 DEF CallOK, Callee, DialFns
<1>7. /\ m \in Calls /\ m.c = c /\ m.fn \notin DialFns \cup LifeFns \cup LastCalls /\ CallOK(l, m)
      /\ h \in Calls /\ h.c = c /\ h.fn \notin DialFns \cup LifeFns \cup LastCalls /\ CallOK(l, h)
  <2>1. /\ m \in Calls /\ m.c = c /\ m.fn = "messageCb" /\ m.ref
        /\ h \in Calls /\ h.c = c /\ h.fn = "handleClose"
    BY <1>2 DEF Calls, Call, Functions
  <2> HIDE DEF m, h, c
  <2> QED BY <1>2, <1>6, <2>1 DEF CallOK, DialFns, LifeFns, LastCalls
<1> HIDE DEF m, h
<1>8. s \in Seq(Calls) /\ Fits(work[l], s)
      /\ \A i \in DOMAIN s : s[i] \in {m, h}
  <2>1. s \in {<<m>>, <<h>>, <<>>}
    BY <1>0 DEF m, h
  <2>2. Fits(work[l], <<m>>) /\ Fits(work[l], <<h>>)
    BY <1>2, <1>5, <1>7, FitsOne
  <2>3. /\ <<m>> \in Seq(Calls) /\ DOMAIN <<m>> = {1} /\ <<m>>[1] = m
        /\ <<h>> \in Seq(Calls) /\ DOMAIN <<h>> = {1} /\ <<h>>[1] = h
    BY <1>7, OneCall
  <2> QED BY <2>1, <2>2, <2>3, NoCall
<1> QED BY <1>1, <1>3, <1>4, <1>5, <1>7, <1>8, SimpleReturn DEF c

(* A handler that returns, after at most one call that moves nothing on. *)
LEMMA ReturnOne ==
    ASSUME ServerInv, NEW l \in Loops, NEW fn, Calling(l, fn), fn \notin DialFns \cup LastCalls,
           NEW e \in Calls, NEW s \in {<<>>, <<e>>}, Return(l, s), tasks' = tasks, round' = round,
           s = <<e>> => /\ e.c = Callee(l) /\ e.fn \notin DialFns \cup LifeFns
                        /\ CallOK(l, e)
                        /\ fn \in AboveRead => e.fn \in AboveRead
                        /\ fn \in AboveMessage => e.fn \in AboveMessage,
           QuietTypes, poller' = poller,
           \A c \in Conns : SameFields(c), UserOK', \A c \in Conns : Shared(c) => Shared(c)'
    PROVE  ServerInv'
<1>1. Head(work[l]).fn = fn
  BY CalleeOK
<1>2. /\ <<e>> \in Seq(Calls) /\ DOMAIN <<e>> = {1} /\ <<e>>[1] = e
      /\ <<>> \in Seq(Calls) /\ DOMAIN <<>> = {} /\ Fits(work[l], <<>>)
  BY OneCall, NoCall
<1>3. CASE s = <<>>
  BY <1>2, <1>3, SimpleReturn
<1>4. CASE s = <<e>>
  <2>1. e.fn \notin LastCalls
    BY <1>4 DEF LifeFns, LastCalls
  <2>2. Fits(work[l], <<e>>)
    BY <1>1, <1>4, <2>1, FitsOne
  <2>3. \A i \in DOMAIN s : /\ s[i].c = Callee(l) /\ s[i].fn \notin DialFns \cup LifeFns
                            /\ CallOK(l, s[i])
    BY <1>2, <1>4
  <2> HIDE DEF Fits
  <2> QED BY <1>2, <1>4, <2>2, <2>3, SimpleReturn
<1> QED BY <1>3, <1>4

(* forceCloseInLoop *)
LEMMA ForceCloseInLoopKeeps ==
    ASSUME ServerInv, NEW l \in Loops, ForceCloseInLoop(l)
    PROVE  ServerInv'
<1> DEFINE c == Callee(l)
           h == Call("handleClose", c, FALSE)
           s == IF conn[c].state # "disconnected" THEN <<h>> ELSE <<>>
<1>1. /\ Calling(l, "forceCloseInLoop") /\ Return(l, s) /\ tasks' = tasks /\ round' = round
      /\ poller' = poller /\ conn' = conn /\ user' = user
  BY DEF ForceCloseInLoop, outside
<1>2. /\ Base /\ Wired /\ Head(work[l]).fn = "forceCloseInLoop" /\ c \in Conns
      /\ CallOK(l, Head(work[l]))
  BY <1>1, CalleeOK DEF DialFns
<1>3. QuietTypes
  BY <1>1, <1>2 DEF ForceCloseInLoop, serverVars, connectorVars, outside, QuietTypes, Base, Types
<1>4. (\A b \in Conns : SameFields(b)) /\ UserOK' /\ \A b \in Conns : Shared(b) => Shared(b)'
  BY <1>1, <1>2, ConnsStay, UsersStay
<1>5. "forceCloseInLoop" \notin DialFns \cup LastCalls \cup AboveRead \cup AboveMessage
  BY DEF DialFns, LastCalls, AboveRead, AboveMessage
<1>6. Made(c) /\ conn[c].loop = l
  BY <1>2 DEF CallOK, Callee, DialFns
<1>7. s \in {<<>>, <<h>>} /\ (s = <<h>> => Up(c))
  BY <1>6 DEF Made, Down
<1>8. h \in Calls /\ h.c = c /\ h.fn = "handleClose"
  BY <1>2 DEF Calls, Call, Functions
<1> HIDE DEF c, h, s
<1>9. s = <<h>> => CallOK(l, h) /\ h.fn \notin DialFns \cup LifeFns
  BY <1>2, <1>6, <1>7, <1>8 DEF CallOK, DialFns, LifeFns
<1> QED BY <1>1, <1>3, <1>4, <1>5, <1>7, <1>8, <1>9, ReturnOne DEF c

(* shutdownInLoop *)
LEMMA ShutdownInLoopKeeps ==
    ASSUME ServerInv, NEW l \in Loops, ShutdownInLoop(l)
    PROVE  ServerInv'
<1> DEFINE c == Callee(l)
<1>1. /\ Calling(l, "shutdownInLoop") /\ Return(l, <<>>) /\ tasks' = tasks /\ round' = round
      /\ poller' = poller /\ user' = user
      /\ conn' = IF Writing(c) THEN conn ELSE [conn EXCEPT ![c].fin = TRUE]
  BY DEF ShutdownInLoop, outside
<1>2. /\ Base /\ Wired /\ c \in Conns
  BY <1>1, CalleeOK DEF DialFns
<1>3. conn \in [Conns -> ConnRec]
  BY <1>2 DEF Base, Types
<1>4. conn' \in [Conns -> ConnRec] /\ \A b \in Conns : SameFields(b)
  BY <1>1, <1>2, <1>3 DEF SameFields, ConnRec
<1>5. QuietTypes
  BY <1>1, <1>2, <1>4
     DEF ShutdownInLoop, serverVars, connectorVars, outside, QuietTypes, Base, Types
<1>6. UserOK' /\ \A b \in Conns : Shared(b) => Shared(b)'
  BY <1>1, <1>2, <1>4, UsersStay
<1>7. "shutdownInLoop" \notin DialFns \cup LastCalls
  BY DEF DialFns, LastCalls
<1> QED BY <1>1, <1>4, <1>5, <1>6, <1>7, NoCall, SimpleReturn

(* A callback of the application that calls something on its connection. *)
LEMMA CallbackKeeps ==
    ASSUME Friendly, ServerInv, NEW l \in Loops, NEW fn \in {"messageCb", "writeCb", "handleError", "connectCb"},
           Calling(l, fn), NEW ops \in SUBSET Ops, CallbackBody(l, Callee(l), ops),
           fn = "handleError" => "forceClose" \notin ops,
           UNCHANGED <<serverVars, poller, tasks, round, peer, fault, left>>,
           user' \in [Users -> UserRec],
           \A u \in Users :
              /\ user'[u].pc = user[u].pc /\ user'[u].op = user[u].op /\ user'[u].c = user[u].c
              /\ user[u].holds \subseteq user'[u].holds
              /\ user'[u].holds \subseteq user[u].holds \cup {Callee(l)}
    PROVE  ServerInv'
<1> DEFINE c == Callee(l)
<1>1. PICK o \in ops \cup {"none"} : Inline(l, o, c)
  BY DEF CallbackBody, Friendly
<1>2. /\ Base /\ Wired /\ Head(work[l]).fn = fn /\ c \in Conns /\ CallOK(l, Head(work[l]))
  BY CalleeOK DEF DialFns
<1>3. Made(c) /\ conn[c].loop = l
  BY <1>2 DEF CallOK, Callee, DialFns, Made
<1>4. conn \in [Conns -> ConnRec]
  BY <1>2 DEF Base, Types
<1> DEFINE g == IF o = "send" THEN "sendInLoop" ELSE IF o = "shutdown" THEN "shutdownInLoop"
                ELSE "forceCloseInLoop"
           e == Call(g, c, TRUE)
<1>5. o \in {"none", "send", "shutdown", "forceClose"}
  BY <1>1 DEF Ops
<1>6. \E s \in {<<>>, <<e>>} :
         /\ Return(l, s)
         /\ conn' = conn \/ (Up(c) /\ conn' = [conn EXCEPT ![c].state = "disconnecting"])
         /\ s = <<e>> => o # "none"
  <2>1. CASE o = "none"
    BY <1>1, <2>1 DEF Inline
  <2>2. CASE o = "send"
    BY <1>1, <2>2 DEF Inline
  <2>3. CASE o \in {"shutdown", "forceClose"}
    <3>1. CASE conn[c].state # "disconnected"
      <4>1. Up(c)
        BY <1>3, <3>1 DEF Made, Down
      <4>2. /\ conn' = [conn EXCEPT ![c].state = "disconnecting"]
            /\ Return(l, <<e>>)
        BY <1>1, <2>3, <3>1 DEF Inline
      <4> QED BY <2>3, <4>1, <4>2
    <3>2. CASE conn[c].state = "disconnected"
      BY <1>1, <2>3, <3>2 DEF Inline
    <3> QED BY <3>1, <3>2
  <2> QED BY <1>5, <2>1, <2>2, <2>3
<1>7. PICK s \in {<<>>, <<e>>} :
         /\ Return(l, s)
         /\ conn' = conn \/ (Up(c) /\ conn' = [conn EXCEPT ![c].state = "disconnecting"])
         /\ s = <<e>> => o # "none"
  BY <1>6
<1>8. /\ e \in Calls /\ e.c = c /\ e.ref /\ e.fn = g
      /\ g \in {"sendInLoop", "shutdownInLoop", "forceCloseInLoop"}
  BY <1>2 DEF Calls, Call, Functions
<1>9. s = <<e>> /\ fn = "handleError" => g \in AboveRead
  BY <1>1, <1>5, <1>7 DEF AboveRead
<1> HIDE DEF e, g, c
<1>10. e.fn \notin DialFns \cup LifeFns /\ CallOK(l, e)
  BY <1>2, <1>3, <1>8 DEF CallOK, DialFns, LifeFns
<1>11. conn' \in [Conns -> ConnRec] /\ \A b \in Conns : SameFields(b)
  BY <1>2, <1>4, <1>7 DEF SameFields, ConnRec, States, Up
<1>12. QuietTypes
  BY <1>2, <1>11 DEF serverVars, connectorVars, QuietTypes, Base, Types
<1>13. UserOK' /\ \A b \in Conns : Shared(b) => Shared(b)'
  <2>1. \A b \in Conns : Made(b) => Made(b)'
    BY <1>11 DEF SameFields, Made, Up, Down
  <2>2. \A u \in Users : user[u].holds \subseteq Conns
    BY <1>2 DEF Base, Types, UserRec
  <2>3. UserOK'
    BY <1>2, <1>3, <2>1, <2>2 DEF Base, UserOK, c
  <2> QED BY <2>3 DEF Shared
<1>14. /\ fn \notin DialFns \cup LastCalls \cup AboveMessage
       /\ fn \in AboveRead => fn = "handleError"
  BY DEF DialFns, LastCalls, AboveRead, AboveMessage
<1>15. tasks' = tasks /\ round' = round /\ poller' = poller
  OBVIOUS
<1>16. s = <<e>> => /\ e.c = Callee(l) /\ e.fn \notin DialFns \cup LifeFns
                    /\ CallOK(l, e)
                    /\ fn \in AboveRead => e.fn \in AboveRead
                    /\ fn \in AboveMessage => e.fn \in AboveMessage
  BY <1>8, <1>9, <1>10, <1>14 DEF c
<1>17. e \in Calls /\ Return(l, s) /\ fn \notin DialFns \cup LastCalls
  BY <1>7, <1>8, <1>14
<1>18. e \in Calls /\ s \in {<<>>, <<e>>} /\ Return(l, s) /\ Calling(l, fn)
  BY <1>17
<1> QED BY ONLY ServerInv, l \in Loops, <1>11, <1>12, <1>13, <1>15, <1>16, <1>17, <1>18, ReturnOne

(* messageCb *)
LEMMA MessageCbKeeps ==
    ASSUME Friendly, ServerInv, NEW l \in Loops, MessageCb(l)
    PROVE  ServerInv'
<1>1. user \in [Users -> UserRec]
  BY DEF ServerInv, Base, Types
<1>2. HandlerOps \in SUBSET Ops
  BY ServerAssumption
<1>3. /\ Calling(l, "messageCb") /\ CallbackBody(l, Callee(l), HandlerOps)
      /\ UNCHANGED <<serverVars, poller, tasks, round, peer, fault, left>> /\ user' = user
  BY DEF MessageCb, outside
<1> QED BY <1>1, <1>2, <1>3, CallbackKeeps

(* writeCb *)
LEMMA WriteCbKeeps ==
    ASSUME Friendly, ServerInv, NEW l \in Loops, WriteCb(l)
    PROVE  ServerInv'
<1>1. user \in [Users -> UserRec]
  BY DEF ServerInv, Base, Types
<1>2. HandlerOps \in SUBSET Ops
  BY ServerAssumption
<1>3. /\ Calling(l, "writeCb") /\ CallbackBody(l, Callee(l), HandlerOps)
      /\ UNCHANGED <<serverVars, poller, tasks, round, peer, fault, left>> /\ user' = user
  BY DEF WriteCb, outside
<1> QED BY <1>1, <1>2, <1>3, CallbackKeeps

(* handleError *)
LEMMA HandleErrorKeeps ==
    ASSUME Friendly, ServerInv, NEW l \in Loops, HandleError(l)
    PROVE  ServerInv'
<1>1. user \in [Users -> UserRec]
  BY DEF ServerInv, Base, Types
<1>2. ErrorOps \in SUBSET Ops /\ "forceClose" \notin ErrorOps
  BY ServerAssumption DEF Friendly
<1>3. /\ Calling(l, "handleError") /\ CallbackBody(l, Callee(l), ErrorOps)
      /\ UNCHANGED <<serverVars, poller, tasks, round, peer, fault, left>> /\ user' = user
  BY DEF HandleError, outside
<1> QED BY <1>1, <1>2, <1>3, CallbackKeeps

(* connectCb *)
LEMMA ConnectCbKeeps ==
    ASSUME Friendly, ServerInv, NEW l \in Loops, ConnectCb(l)
    PROVE  ServerInv'
<1>1. user \in [Users -> UserRec]
  BY DEF ServerInv, Base, Types
<1>2. HandlerOps \in SUBSET Ops
  BY ServerAssumption
<1>3. /\ Calling(l, "connectCb")
      /\ UNCHANGED <<serverVars, poller, tasks, round, peer, fault, left>>
  BY DEF ConnectCb
<1>4. Base /\ Wired /\ Callee(l) \in Conns
  BY <1>3, CalleeOK DEF DialFns
<1>5. CASE conn[Callee(l)].downs = 0
  <2>1. CallbackBody(l, Callee(l), HandlerOps)
    BY <1>5 DEF ConnectCb
  <2>2. PICK us \in SUBSET Users :
           user' = [u \in Users |->
                      IF u \in us THEN [user[u] EXCEPT !.holds = @ \cup {Callee(l)}] ELSE user[u]]
    BY <1>5 DEF ConnectCb
  <2>3. user' \in [Users -> UserRec]
    BY <1>1, <1>4, <2>2 DEF UserRec
  <2>4. \A u \in Users :
              /\ user'[u].pc = user[u].pc /\ user'[u].op = user[u].op /\ user'[u].c = user[u].c
              /\ user[u].holds \subseteq user'[u].holds
              /\ user'[u].holds \subseteq user[u].holds \cup {Callee(l)}
    BY <1>1, <2>2 DEF UserRec
  <2> QED BY <1>2, <1>3, <2>1, <2>3, <2>4, CallbackKeeps
<1>6. CASE conn[Callee(l)].downs # 0
  <2>1. Return(l, <<>>) /\ conn' = conn /\ user' = user
    BY <1>6 DEF ConnectCb
  <2>2. QuietTypes
    BY <1>3, <1>4, <2>1 DEF serverVars, connectorVars, QuietTypes, Base, Types
  <2>3. (\A b \in Conns : SameFields(b)) /\ UserOK' /\ \A b \in Conns : Shared(b) => Shared(b)'
    BY <1>4, <2>1, ConnsStay, UsersStay
  <2>4. "connectCb" \notin DialFns \cup LastCalls
    BY DEF DialFns, LastCalls
  <2> QED BY <1>3, <2>1, <2>2, <2>3, <2>4, NoCall, SimpleReturn
<1> QED BY <1>5, <1>6

(* removeConnection *)
LEMMA RemoveConnectionKeeps ==
    ASSUME ServerInv, NEW l \in Loops, RemoveConnection(l)
    PROVE  ServerInv'
<1> DEFINE c == Callee(l)
           e == Call("removeConnectionInLoop", c, TRUE)
<1>1. /\ Calling(l, "removeConnection") /\ round' = round
      /\ poller' = poller /\ conn' = conn /\ user' = user
      /\ \/ l = 0 /\ Return(l, <<e>>) /\ tasks' = tasks
         \/ l # 0 /\ Return(l, <<>>) /\ Queue(0, e)
  BY DEF RemoveConnection, outside
<1>2. /\ Base /\ Wired /\ Running /\ work[l] # <<>> /\ Head(work[l]).fn = "removeConnection"
      /\ c \in Conns /\ CallOK(l, Head(work[l]))
  BY <1>1, CalleeOK DEF DialFns
<1>3. QuietTypes
  BY <1>1, <1>2 DEF RemoveConnection, serverVars, connectorVars, outside, QuietTypes, Base, Types
<1>4. (\A b \in Conns : SameFields(b)) /\ UserOK' /\ \A b \in Conns : Shared(b) => Shared(b)'
  BY <1>1, <1>2, ConnsStay, UsersStay
<1>5. e \in Calls /\ e.c = c /\ e.fn = "removeConnectionInLoop" /\ e.ref
  BY <1>2 DEF Calls, Call, Functions
<1>6. Down(c) /\ InMap(c)
  BY <1>2 DEF CallOK, Callee
<1>7. MovesOn(l)
  BY <1>2 DEF MovesOn, LifeFns
<1>8. 0 \in Loops
  BY BaseLoop
<1>9. SamePollers
  BY <1>1, <1>2, PollersStay
<1>10. "removeConnection" \notin DialFns \cup LastCalls \cup AboveRead \cup AboveMessage
  BY DEF DialFns, LastCalls, AboveRead, AboveMessage
<1> HIDE DEF e
<1>11. CallOK(0, e) /\ e.fn \notin DialFns \cup LastCalls /\ e.fn \in TaskFns
  <2> HIDE DEF c
  <2> QED BY <1>2, <1>5, <1>6 DEF CallOK, DialFns, LastCalls, TaskFns
<1>12. /\ <<e>> \in Seq(Calls) /\ DOMAIN <<e>> = {1} /\ <<e>>[1] = e
       /\ <<>> \in Seq(Calls) /\ DOMAIN <<>> = {} /\ Fits(work[l], <<>>)
  BY <1>5, OneCall, NoCall
<1>13. Fits(work[l], <<e>>)
  BY <1>2, <1>5, <1>10, <1>11, FitsOne
<1>14. PICK b : b = Callee(l)
  OBVIOUS
<1>15. CASE l = 0
  <2>1. Return(l, <<e>>) /\ tasks' = tasks
    BY <1>1, <1>15
  <2> DEFINE s == <<e>>
  <2>2. /\ \A i, j \in DOMAIN s : s[i].fn \in LifeFns /\ s[j].fn \in LifeFns => i = j
        /\ \A i \in DOMAIN s : s[i].fn \in LifeFns => s[i].c = Callee(l) /\ MovesOn(l)
        /\ \A i \in DOMAIN s : s[i] = e
    BY <1>5, <1>7, <1>12
  <2>3. s \in Seq(Calls) /\ Return(l, s) /\ Fits(work[l], s)
    BY <1>12, <1>13, <2>1
  <2> HIDE DEF s
  <2>4. Steps(l, s, 0, {}) /\ OnceOK'
    BY <1>1, <1>2, <2>1, <2>2, <2>3, StepsReturn DEF Base
  <2>5. OwnCalls(l, s, {})
    BY <1>2, <1>5, <1>10, <1>11, <2>2 DEF OwnCalls
  <2>6. Dying(b)' <=> Dying(b)
    <3>1. conn'[b].loop = conn[b].loop
      BY <1>1
    <3> QED BY <1>2, <1>10, <1>11, <1>14, <2>2, <2>3, <2>4, <2>5, <3>1, DyingSame
  <2>7. \A i \in DOMAIN s : CallOK(l, s[i])
    BY <1>11, <1>15, <2>2
  <2> QED BY <1>2, <1>3, <1>4, <1>9, <1>14, <2>3, <2>4, <2>5, <2>6, <2>7, QuietConnStep
<1>16. CASE l # 0
  <2>1. Return(l, <<>>) /\ Queue(0, e)
    BY <1>1, <1>16
  <2> DEFINE s == <<>>
             ts == {e}
  <2>2. \A i \in DOMAIN s : FALSE
    BY <1>12
  <2>3. s \in Seq(Calls) /\ Return(l, s) /\ Fits(work[l], s)
    BY <1>12, <2>1
  <2> HIDE DEF s
  <2>4. Steps(l, s, 0, ts) /\ OnceOK'
    BY <1>1, <1>2, <1>5, <1>7, <1>8, <2>1, <2>2, <2>3, StepsQueue DEF Base
  <2>5. \A t \in ts : /\ t \in Calls /\ t.c = Callee(l) /\ t.fn \notin DialFns \cup LastCalls
                      /\ t.fn \in TaskFns /\ CallOK(0, t)
    BY <1>5, <1>11
  <2> HIDE DEF ts
  <2>6. OwnCalls(l, s, ts)
    BY <1>2, <1>10, <2>2, <2>5 DEF OwnCalls
  <2>7. Dying(b)' <=> Dying(b)
    <3>1. conn'[b].loop = conn[b].loop
      BY <1>1
    <3> QED BY <1>2, <1>10, <1>14, <2>2, <2>3, <2>4, <2>5, <2>6, <3>1, DyingSame
  <2> QED BY <1>2, <1>3, <1>4, <1>9, <1>14, <2>2, <2>3, <2>4, <2>5, <2>6, <2>7, QuietConnStep
<1> QED BY <1>15, <1>16

(* destroyConnection: the connection is down by then. *)
LEMMA DestroyConnectionKeeps ==
    ASSUME ServerInv, NEW l \in Loops, DestroyConnection(l)
    PROVE  ServerInv'
<1> DEFINE c == Callee(l)
           e == Call("remove", c, TRUE)
           s == <<e>>
<1>1. /\ Calling(l, "destroyConnection") /\ tasks' = tasks /\ round' = round
      /\ poller' = poller /\ user' = user
  BY DEF DestroyConnection, outside
<1>2. /\ Base /\ Wired /\ Running /\ work[l] # <<>> /\ Head(work[l]).fn = "destroyConnection"
      /\ c \in Conns /\ CallOK(l, Head(work[l])) /\ work[l] \in Seq(Calls)
      /\ Head(work[l]) \in Calls /\ Has(todo, l, Head(work[l]))
  BY <1>1, CalleeOK DEF DialFns
<1>3. Down(c) /\ ~InMap(c) /\ conn[c].loop = l
  BY <1>2 DEF CallOK, Callee, DialFns
<1>4. conn \in [Conns -> ConnRec] /\ conn[c].state = "disconnected"
  BY <1>2, <1>3 DEF Base, Types, Down
<1>5. conn' = conn
  <2>1. conn' = [conn EXCEPT ![c].state = IF @ = "connected" THEN "disconnected" ELSE @]
    BY DEF DestroyConnection
  <2> QED BY <1>2, <1>4, <2>1 DEF ConnRec
<1>6. e \in Calls /\ e.c = c /\ e.fn = "remove" /\ e.ref
  BY <1>2 DEF Calls, Call, Functions
<1>7. Return(l, s)
  <2>1. Return(l, <<>> \o <<e>>)
    BY <1>4 DEF DestroyConnection
  <2>2. <<>> \o <<e>> = <<e>>
    BY <1>6
  <2> QED BY <2>1, <2>2
<1>8. QuietTypes
  BY <1>1, <1>2, <1>5
     DEF DestroyConnection, serverVars, connectorVars, outside, QuietTypes, Base, Types
<1>9. (\A b \in Conns : SameFields(b)) /\ UserOK' /\ \A b \in Conns : Shared(b) => Shared(b)'
  BY <1>1, <1>2, <1>5, ConnsStay, UsersStay
<1>10. MovesOn(l)
  BY <1>2 DEF MovesOn, LifeFns
<1>11. SamePollers
  BY <1>1, <1>2, PollersStay
<1>12. Len(work[l]) = 1
  <2>1. 1 \in DOMAIN work[l] /\ work[l][1] = Head(work[l]) /\ Ordered(work[l])
    BY <1>2 DEF Base, OrderOK
  <2> QED BY <1>2, <2>1 DEF Ordered, LastCalls
<1> HIDE DEF e
<1>13. CallOK(l, e) /\ e.fn \notin DialFns
  <2> HIDE DEF c
  <2> QED BY <1>2, <1>3, <1>6 DEF CallOK, DialFns
<1>14. s \in Seq(Calls) /\ DOMAIN s = {1} /\ s[1] = e /\ Len(s) = 1 /\ Ordered(s)
  BY <1>6, OneCall
<1> HIDE DEF s
<1>15. Fits(work[l], s)
  BY <1>2, <1>12, <1>14 DEF Fits, AboveRead, AboveMessage
<1>16. Steps(l, s, 0, {}) /\ OnceOK'
  <2>1. /\ \A i, j \in DOMAIN s : s[i].fn \in LifeFns /\ s[j].fn \in LifeFns => i = j
        /\ \A i \in DOMAIN s : s[i].fn \in LifeFns => s[i].c = Callee(l) /\ MovesOn(l)
    BY <1>6, <1>10, <1>14
  <2> QED BY <1>1, <1>2, <1>7, <1>14, <2>1, StepsReturn DEF Base
<1>17. OwnCalls(l, s, {})
  BY <1>2, <1>6, <1>13, <1>14 DEF OwnCalls, DialFns
<1>18. PICK b : b = Callee(l)
  OBVIOUS
<1>19. Dying(b)' <=> Dying(b)
  <2>1. Dying(b)
    BY <1>2, <1>3, <1>18 DEF Dying, Callee
  <2>2. Has(todo', l, e)
    BY <1>6, <1>14, <1>16 DEF Steps
  <2>3. Dying(b)'
    BY <1>3, <1>5, <1>6, <1>18, <2>2 DEF Dying
  <2> QED BY <2>1, <2>3
<1>20. \A i \in DOMAIN s : CallOK(l, s[i])
  BY <1>13, <1>14
<1> QED BY <1>2, <1>8, <1>9, <1>11, <1>14, <1>15, <1>16, <1>17, <1>18, <1>19, <1>20, QuietConnStep

-----------------------------------------------------------------------------
(* The pollers.                                                            *)

(* A map with some of the keys. *)
LEMMA PartialIs ==
    ASSUME NEW S, NEW T, NEW g, g \in [DOMAIN g -> T], DOMAIN g \subseteq S
    PROVE  g \in Partial(S, T)
  BY DEF Partial

(* pop_back *)
LEMMA PopBack ==
    ASSUME NEW S, NEW s \in Seq(S), NEW n \in Nat, Len(s) = n + 1
    PROVE  /\ SubSeq(s, 1, n) \in Seq(S) /\ Len(SubSeq(s, 1, n)) = n
           /\ \A i \in 1 .. n : SubSeq(s, 1, n)[i] = s[i]
<1>1. \A i \in 1 .. n : s[i] \in S
  BY ElementOfSeq
<1> QED BY <1>1, SubSeqProperties

(* The fields of a poller, and that a descriptor is never the mark of an   *)
(* ignored one.                                                            *)
LEMMA PollerFields ==
    ASSUME NEW p \in PollerRec, PollerOK(p)
    PROVE  /\ p.pollfds \in Seq(Entries) /\ Len(p.pollfds) \in Nat
           /\ DOMAIN p.pollfds = 1 .. Len(p.pollfds)
           /\ p.channels \in [DOMAIN p.channels -> Channels] /\ DOMAIN p.channels \subseteq PollFds
           /\ p.index \in [Channels -> Nat] /\ p.crashed \in BOOLEAN
           /\ p = [channels |-> p.channels, pollfds |-> p.pollfds, index |-> p.index,
                   crashed |-> p.crashed]
           /\ \A f \in PollFds : f \in Int /\ (f = -1 \/ f >= 1)
           /\ \A f \in DOMAIN p.channels :
                 /\ p.channels[f] \in Channels
                 /\ p.index[p.channels[f]] + 1 \in 1 .. Len(p.pollfds)
                 /\ p.index[p.channels[f]] \in Nat
                 /\ EntryOf(p, f) \in Entries
           /\ \A f, g \in DOMAIN p.channels : p.index[p.channels[f]] = p.index[p.channels[g]] => f = g
<1>1. /\ p.pollfds \in Seq(Entries)
      /\ p.channels \in Partial(PollFds, Channels)
      /\ p.index \in [Channels -> Nat] /\ p.crashed \in BOOLEAN
      /\ p = [channels |-> p.channels, pollfds |-> p.pollfds, index |-> p.index,
              crashed |-> p.crashed]
  BY DEF PollerRec
<1>2. p.channels \in [DOMAIN p.channels -> Channels] /\ DOMAIN p.channels \subseteq PollFds
  BY <1>1 DEF Partial
<1>3. Len(p.pollfds) \in Nat /\ DOMAIN p.pollfds = 1 .. Len(p.pollfds)
  BY <1>1
<1>4. \A f \in PollFds : f \in Int /\ (f = -1 \/ f >= 1)
  BY ServerAssumption DEF PollFds, SomeFds, BadFd
<1>5. \A f \in DOMAIN p.channels :
         /\ p.channels[f] \in Channels
         /\ p.index[p.channels[f]] + 1 \in 1 .. Len(p.pollfds)
         /\ p.index[p.channels[f]] \in Nat
  BY <1>1, <1>2, <1>3 DEF PollerOK
<1>6. \A f \in DOMAIN p.channels : EntryOf(p, f) \in Entries
  BY <1>1, <1>5, ElementOfSeq DEF EntryOf
<1>7. ASSUME NEW f \in DOMAIN p.channels, NEW g \in DOMAIN p.channels,
             p.index[p.channels[f]] = p.index[p.channels[g]]
      PROVE  f = g
  <2>1. EntryOf(p, f).fd \in {f, Ignored(f)} /\ EntryOf(p, g).fd \in {g, Ignored(g)}
    BY DEF PollerOK
  <2>2. EntryOf(p, f) = EntryOf(p, g)
    BY <1>7 DEF EntryOf
  <2>3. f \in Int /\ (f = -1 \/ f >= 1) /\ g \in Int /\ (g = -1 \/ g >= 1)
    BY <1>2, <1>4
  <2> QED BY <2>1, <2>2, <2>3 DEF Ignored
<1> QED BY <1>1, <1>2, <1>3, <1>4, <1>5, <1>6, <1>7

(* updateChannel of a registered channel: its entry, and no other. *)
LEMMA PollUpdate ==
    ASSUME NEW p \in PollerRec, PollerOK(p), NEW f \in DOMAIN p.channels,
           NEW ev \in SUBSET Events, NEW q, q = UpdateChannel(p, p.channels[f], f, ev)
    PROVE  /\ q \in PollerRec /\ PollerOK(q) /\ q.channels = p.channels
           /\ EntryOf(q, f).fd = IF ev = {} THEN Ignored(f) ELSE f
           /\ \A g \in DOMAIN p.channels : g # f => EntryOf(q, g) = EntryOf(p, g)
<1> DEFINE k == p.index[p.channels[f]] + 1
           new == [fd |-> IF ev = {} THEN Ignored(f) ELSE f, events |-> ev]
<1>1. /\ p.pollfds \in Seq(Entries) /\ Len(p.pollfds) \in Nat
      /\ p.channels \in [DOMAIN p.channels -> Channels] /\ DOMAIN p.channels \subseteq PollFds
      /\ p.index \in [Channels -> Nat] /\ p.crashed \in BOOLEAN
      /\ p = [channels |-> p.channels, pollfds |-> p.pollfds, index |-> p.index,
              crashed |-> p.crashed]
      /\ f \in Int
      /\ \A g \in DOMAIN p.channels :
            /\ p.index[p.channels[g]] + 1 \in 1 .. Len(p.pollfds)
            /\ p.index[p.channels[g]] \in Nat
      /\ \A g \in DOMAIN p.channels : p.index[p.channels[g]] = p.index[p.channels[f]] => g = f
  BY PollerFields
<1>2. q = UpdateEntry(p, p.channels[f], f, ev)
  BY DEF UpdateChannel, Registered
<1>3. /\ q.channels = p.channels /\ q.index = p.index /\ q.crashed = p.crashed
      /\ q.pollfds = [p.pollfds EXCEPT ![k] = new]
      /\ q = [channels |-> q.channels, pollfds |-> q.pollfds, index |-> q.index,
              crashed |-> q.crashed]
  BY <1>1, <1>2 DEF UpdateEntry
<1>4. new \in Entries /\ new.fd = IF ev = {} THEN Ignored(f) ELSE f
  BY <1>1 DEF Entries, Ignored
<1>5. k \in 1 .. Len(p.pollfds)
  BY <1>1
<1> HIDE DEF k, new
<1>6. /\ q.pollfds \in Seq(Entries) /\ Len(q.pollfds) = Len(p.pollfds)
      /\ \A i \in 1 .. Len(p.pollfds) : q.pollfds[i] = IF i = k THEN new ELSE p.pollfds[i]
  BY <1>1, <1>3, <1>4, <1>5, ExceptSeq
<1>7. q \in PollerRec
  BY <1>1, <1>3, <1>6 DEF PollerRec, Partial
<1>8. EntryOf(q, f) = new
  BY <1>3, <1>5, <1>6 DEF EntryOf, k
<1>9. ASSUME NEW g \in DOMAIN p.channels, g # f PROVE EntryOf(q, g) = EntryOf(p, g)
  <2>1. p.index[p.channels[g]] + 1 # k /\ p.index[p.channels[g]] + 1 \in 1 .. Len(p.pollfds)
    BY <1>1, <1>9 DEF k
  <2> QED BY <1>3, <1>6, <2>1 DEF EntryOf
<1>10. PollerOK(q)
  <2>1. ASSUME NEW g \in DOMAIN q.channels
        PROVE  q.index[q.channels[g]] < Len(q.pollfds) /\ EntryOf(q, g).fd \in {g, Ignored(g)}
    BY <1>3, <1>4, <1>6, <1>8, <1>9, <2>1 DEF PollerOK
  <2> QED BY <1>3, <1>6, <2>1 DEF PollerOK
<1> QED BY <1>3, <1>4, <1>7, <1>8, <1>9, <1>10

(* updateChannel of a channel that is not registered: a new entry. *)
LEMMA PollInsert ==
    ASSUME NEW p \in PollerRec, PollerOK(p), NEW f \in PollFds, f \notin DOMAIN p.channels,
           NEW c \in Channels, \A g \in DOMAIN p.channels : p.channels[g] # c,
           NEW ev \in SUBSET Events, NEW q, q = UpdateChannel(p, c, f, ev)
    PROVE  /\ q \in PollerRec /\ PollerOK(q) /\ q.channels = With(p.channels, f, c)
           /\ EntryOf(q, f).fd = f
           /\ \A g \in DOMAIN p.channels : EntryOf(q, g) = EntryOf(p, g)
<1> DEFINE n == Len(p.pollfds)
           new == [fd |-> f, events |-> ev]
<1>1. /\ p.pollfds \in Seq(Entries) /\ n \in Nat
      /\ p.channels \in [DOMAIN p.channels -> Channels] /\ DOMAIN p.channels \subseteq PollFds
      /\ p.index \in [Channels -> Nat] /\ p.crashed \in BOOLEAN
      /\ p = [channels |-> p.channels, pollfds |-> p.pollfds, index |-> p.index,
              crashed |-> p.crashed]
      /\ f \in Int
      /\ \A g \in DOMAIN p.channels :
            /\ p.channels[g] \in Channels
            /\ p.index[p.channels[g]] + 1 \in 1 .. n
            /\ p.index[p.channels[g]] \in Nat
  BY PollerFields
<1>2. q = InsertEntry(p, c, f, ev)
  BY DEF UpdateChannel, Registered
<1>3. /\ q.channels = With(p.channels, f, c) /\ q.index = [p.index EXCEPT ![c] = n]
      /\ q.crashed = p.crashed /\ q.pollfds = Append(p.pollfds, new)
      /\ q = [channels |-> q.channels, pollfds |-> q.pollfds, index |-> q.index,
              crashed |-> q.crashed]
  BY <1>1, <1>2 DEF InsertEntry
<1>4. new \in Entries /\ new.fd = f
  BY <1>1 DEF Entries
<1> HIDE DEF new
<1>5. /\ q.pollfds \in Seq(Entries) /\ Len(q.pollfds) = n + 1
      /\ q.pollfds[n + 1] = new
      /\ \A i \in 1 .. n : q.pollfds[i] = p.pollfds[i]
  BY <1>1, <1>3, <1>4
<1>6. /\ DOMAIN q.channels = DOMAIN p.channels \cup {f}
      /\ q.channels[f] = c
      /\ \A g \in DOMAIN p.channels : q.channels[g] = p.channels[g]
      /\ q.channels \in [DOMAIN q.channels -> Channels] /\ DOMAIN q.channels \subseteq PollFds
  BY <1>1, <1>3 DEF With
<1>7. /\ q.index \in [Channels -> Nat] /\ q.index[c] = n
      /\ \A g \in DOMAIN p.channels : q.index[p.channels[g]] = p.index[p.channels[g]]
  BY <1>1, <1>3
<1>8. q \in PollerRec
  <2>1. q.channels \in Partial(PollFds, Channels)
    BY <1>6, PartialIs
  <2>2. q.crashed \in BOOLEAN
    BY <1>1, <1>3
  <2> QED BY <1>3, <1>5, <1>7, <2>1, <2>2 DEF PollerRec
<1>9. EntryOf(q, f) = new
  BY <1>5, <1>6, <1>7 DEF EntryOf
<1>10. \A g \in DOMAIN p.channels : EntryOf(q, g) = EntryOf(p, g)
  BY <1>1, <1>5, <1>6, <1>7 DEF EntryOf
<1>11. PollerOK(q)
  <2>1. ASSUME NEW g \in DOMAIN q.channels
        PROVE  q.index[q.channels[g]] < Len(q.pollfds) /\ EntryOf(q, g).fd \in {g, Ignored(g)}
    <3>1. CASE g = f
      BY <1>1, <1>4, <1>5, <1>6, <1>7, <1>9, <3>1
    <3>2. CASE g # f
      <4>1. g \in DOMAIN p.channels
        BY <1>6, <3>2
      <4>2. p.index[p.channels[g]] < n /\ EntryOf(p, g).fd \in {g, Ignored(g)}
        BY <4>1 DEF PollerOK
      <4> QED BY <1>1, <1>5, <1>6, <1>7, <1>10, <4>1, <4>2
    <3> QED BY <3>1, <3>2
  <2>2. \A g, h \in DOMAIN q.channels : q.channels[g] = q.channels[h] => g = h
    BY <1>6 DEF PollerOK
  <2>3. ASSUME NEW i \in 1 .. Len(q.pollfds)
        PROVE  \E g \in DOMAIN q.channels : q.index[q.channels[g]] = i - 1
    <3>1. CASE i = n + 1
      BY <1>1, <1>6, <1>7, <3>1
    <3>2. CASE i # n + 1
      <4>1. i \in 1 .. Len(p.pollfds)
        BY <1>1, <1>5, <3>2
      <4>2. PICK g \in DOMAIN p.channels : p.index[p.channels[g]] = i - 1
        BY <4>1 DEF PollerOK
      <4> QED BY <1>6, <1>7, <4>2
    <3> QED BY <3>1, <3>2
  <2> QED BY <2>1, <2>2, <2>3 DEF PollerOK
<1> QED BY <1>3, <1>4, <1>8, <1>9, <1>10, <1>11

(* removeChannel of a registered channel: it crashes, or the others keep   *)
(* their entries.                                                          *)
LEMMA PollRemove ==
    ASSUME NEW p \in PollerRec, PollerOK(p), NEW f \in DOMAIN p.channels,
           NEW q, q = RemoveChannel(p, p.channels[f], f)
    PROVE  /\ q \in PollerRec
           /\ \/ q.crashed /\ q.channels = p.channels
              \/ /\ PollerOK(q) /\ q.channels = Without(p.channels, f)
                 /\ \A g \in DOMAIN p.channels : g # f => EntryOf(q, g) = EntryOf(p, g)
<1> DEFINE n == Len(p.pollfds) - 1
           c == p.channels[f]
           idx == p.index[c]
           less == Without(p.channels, f)
           e == p.pollfds[n + 1]
<1>1. /\ p.pollfds \in Seq(Entries) /\ Len(p.pollfds) \in Nat
      /\ p.channels \in [DOMAIN p.channels -> Channels] /\ DOMAIN p.channels \subseteq PollFds
      /\ p.index \in [Channels -> Nat] /\ p.crashed \in BOOLEAN
      /\ p = [channels |-> p.channels, pollfds |-> p.pollfds, index |-> p.index,
              crashed |-> p.crashed]
      /\ \A g \in PollFds : g \in Int /\ (g = -1 \/ g >= 1)
      /\ \A g \in DOMAIN p.channels :
            /\ p.channels[g] \in Channels
            /\ p.index[p.channels[g]] + 1 \in 1 .. Len(p.pollfds)
            /\ p.index[p.channels[g]] \in Nat
            /\ EntryOf(p, g).fd \in {g, Ignored(g)}
      /\ \A g, h \in DOMAIN p.channels : p.index[p.channels[g]] = p.index[p.channels[h]] => g = h
      /\ \A g, h \in DOMAIN p.channels : p.channels[g] = p.channels[h] => g = h
      /\ \A i \in 1 .. Len(p.pollfds) : \E g \in DOMAIN p.channels : p.index[p.channels[g]] = i - 1
  BY PollerFields DEF PollerOK
<1>2. q = RemoveEntry(p, c, f)
  BY DEF RemoveChannel, Registered
<1>3. n \in Nat /\ Len(p.pollfds) = n + 1 /\ idx \in 0 .. n
  BY <1>1
<1>4. /\ less \in Partial(PollFds, Channels) /\ DOMAIN less = DOMAIN p.channels \ {f}
      /\ \A g \in DOMAIN p.channels : g # f => less[g] = p.channels[g]
  <2>1. /\ DOMAIN less = DOMAIN p.channels \ {f}
        /\ \A g \in DOMAIN p.channels : g # f => less[g] = p.channels[g]
        /\ less \in [DOMAIN less -> Channels]
    BY <1>1 DEF Without
  <2> QED BY <1>1, <2>1, PartialIs
<1>5. CASE idx = n
  <2>1. /\ q.channels = less /\ q.index = p.index /\ q.crashed = p.crashed
        /\ q.pollfds = SubSeq(p.pollfds, 1, n)
        /\ q = [channels |-> q.channels, pollfds |-> q.pollfds, index |-> q.index,
                crashed |-> q.crashed]
    BY <1>1, <1>2, <1>5 DEF RemoveEntry
  <2> HIDE DEF n, less
  <2>2. /\ q.pollfds \in Seq(Entries) /\ Len(q.pollfds) = n
        /\ \A i \in 1 .. n : q.pollfds[i] = p.pollfds[i]
    BY <1>1, <1>3, <2>1, PopBack
  <2>3. q \in PollerRec
    BY <1>1, <1>4, <2>1, <2>2 DEF PollerRec
  <2>4. ASSUME NEW g \in DOMAIN p.channels, g # f
        PROVE  /\ EntryOf(q, g) = EntryOf(p, g) /\ q.channels[g] = p.channels[g]
               /\ q.index[q.channels[g]] < n
               /\ EntryOf(q, g).fd \in {g, Ignored(g)}
    <3>1. p.index[p.channels[g]] # n
      BY <1>1, <1>5, <2>4
    <3>2. p.index[p.channels[g]] + 1 \in 1 .. n
      BY <1>1, <1>3, <3>1
    <3> QED BY <1>1, <1>3, <1>4, <2>1, <2>2, <2>4, <3>2, SMTT(60) DEF EntryOf
  <2>5. PollerOK(q)
    <3>1. ASSUME NEW i \in 1 .. Len(q.pollfds)
          PROVE  \E g \in DOMAIN q.channels : q.index[q.channels[g]] = i - 1
      <4>1. i \in 1 .. n /\ i \in 1 .. Len(p.pollfds) /\ i - 1 # n
        BY <1>3, <2>2
      <4>2. PICK g \in DOMAIN p.channels : p.index[p.channels[g]] = i - 1
        BY <1>1, <4>1
      <4>3. g # f
        BY <1>5, <4>1, <4>2
      <4> QED BY <1>4, <2>1, <4>2, <4>3
    <3>2. \A g, h \in DOMAIN q.channels : q.channels[g] = q.channels[h] => g = h
      BY <1>1, <1>4, <2>1
    <3> QED BY <1>4, <2>1, <2>2, <2>4, <3>1, <3>2 DEF PollerOK
  <2> QED BY <2>1, <2>3, <2>4, <2>5 DEF less
<1>6. CASE idx # n /\ e.fd \notin DOMAIN less
  <2>1. /\ q.channels = p.channels /\ q.index = p.index /\ q.crashed = TRUE
        /\ q.pollfds = p.pollfds
        /\ q = [channels |-> q.channels, pollfds |-> q.pollfds, index |-> q.index,
                crashed |-> q.crashed]
    BY <1>1, <1>2, <1>6 DEF RemoveEntry, LookupMoved
  <2>2. q \in PollerRec
    BY <2>1 DEF PollerRec
  <2> QED BY <2>1, <2>2
<1>7. CASE idx # n /\ e.fd \in DOMAIN less
  <2> DEFINE g == e.fd
             u == [p.pollfds EXCEPT ![idx + 1] = e]
  <2>1. /\ q.channels = less /\ q.index = [p.index EXCEPT ![less[g]] = idx]
        /\ q.crashed = p.crashed
        /\ q.pollfds = SubSeq(u, 1, n)
        /\ q = [channels |-> q.channels, pollfds |-> q.pollfds, index |-> q.index,
                crashed |-> q.crashed]
    BY <1>1, <1>2, <1>7 DEF RemoveEntry, LookupMoved, NewIndex
  <2>2. g \in DOMAIN p.channels /\ g # f /\ p.index[p.channels[g]] = n /\ EntryOf(p, g) = e
    <3>1. g \in DOMAIN p.channels /\ g # f
      BY <1>4, <1>7
    <3>2. PICK h \in DOMAIN p.channels : p.index[p.channels[h]] = n
      <4>1. n + 1 \in 1 .. Len(p.pollfds)
        BY <1>3
      <4>2. (n + 1) - 1 = n
        BY <1>3
      <4> HIDE DEF n
      <4> QED BY <1>1, <4>1, <4>2
    <3>3. EntryOf(p, h) = e /\ e.fd \in {h, Ignored(h)}
      BY <1>1, <3>2 DEF EntryOf
    <3>4. /\ h \in Int /\ (h = -1 \/ h >= 1)
          /\ e.fd \in Int /\ (e.fd = -1 \/ e.fd >= 1)
      BY <1>1, <3>1, <3>2
    <3>5. h = e.fd
      BY <3>3, <3>4 DEF Ignored
    <3> QED BY <3>1, <3>2, <3>3, <3>5
  <2>3. less[g] = p.channels[g] /\ p.channels[g] \in Channels
    BY <1>1, <1>4, <2>2
  <2>4. e \in Entries
    BY <1>1, <1>3, ElementOfSeq
  <2> HIDE DEF less, e, n
  <2>5. /\ u \in Seq(Entries) /\ Len(u) = n + 1
        /\ \A i \in 1 .. n + 1 : u[i] = IF i = idx + 1 THEN e ELSE p.pollfds[i]
    <3>1. idx + 1 \in 1 .. Len(p.pollfds)
      BY <1>3
    <3> QED BY <1>1, <1>3, <2>4, <3>1, ExceptSeq
  <2> HIDE DEF u
  <2>6. /\ q.pollfds \in Seq(Entries) /\ Len(q.pollfds) = n
        /\ \A i \in 1 .. n : q.pollfds[i] = IF i = idx + 1 THEN e ELSE p.pollfds[i]
    <3>1. /\ SubSeq(u, 1, n) \in Seq(Entries) /\ Len(SubSeq(u, 1, n)) = n
          /\ \A i \in 1 .. n : SubSeq(u, 1, n)[i] = u[i]
      BY <1>3, <2>5, PopBack
    <3>2. \A i \in 1 .. n : i \in 1 .. n + 1
      BY <1>3
    <3> QED BY <2>1, <2>5, <3>1, <3>2
  <2>7. /\ q.index \in [Channels -> Nat] /\ q.index[p.channels[g]] = idx
        /\ \A h \in DOMAIN p.channels : h # g => q.index[p.channels[h]] = p.index[p.channels[h]]
    BY <1>1, <1>3, <2>1, <2>2, <2>3
  <2>8. q \in PollerRec
    BY <1>1, <1>4, <2>1, <2>6, <2>7 DEF PollerRec
  <2>9. ASSUME NEW h \in DOMAIN p.channels, h # f
        PROVE  /\ EntryOf(q, h) = EntryOf(p, h) /\ q.channels[h] = p.channels[h]
               /\ q.index[q.channels[h]] < n
               /\ EntryOf(q, h).fd \in {h, Ignored(h)}
    <3>1. q.channels[h] = p.channels[h]
      BY <1>4, <2>1, <2>9
    <3>2. CASE h = g
      <4>1. idx + 1 \in 1 .. n
        BY <1>3, <1>7
      <4>2. EntryOf(q, h) = e
        BY <2>6, <2>7, <3>1, <3>2, <4>1 DEF EntryOf
      <4> QED BY <1>1, <1>3, <2>2, <2>7, <3>1, <3>2, <4>1, <4>2
    <3>3. CASE h # g
      <4>1. p.index[p.channels[h]] # n /\ p.index[p.channels[h]] # idx
        BY <1>1, <2>2, <2>9, <3>3
      <4>2. /\ p.index[p.channels[h]] + 1 \in 1 .. n /\ p.index[p.channels[h]] + 1 # idx + 1
            /\ p.index[p.channels[h]] < n
        BY <1>1, <1>3, <4>1
      <4>3. EntryOf(q, h) = EntryOf(p, h)
        BY <2>6, <2>7, <3>1, <3>3, <4>2 DEF EntryOf
      <4> QED BY <1>1, <2>7, <3>1, <3>3, <4>2, <4>3
    <3> QED BY <3>2, <3>3
  <2>10. PollerOK(q)
    <3>1. ASSUME NEW i \in 1 .. Len(q.pollfds)
          PROVE  \E h \in DOMAIN q.channels : q.index[q.channels[h]] = i - 1
      <4>1. i \in 1 .. n /\ i \in 1 .. Len(p.pollfds) /\ i - 1 # n
        BY <1>3, <2>6
      <4>2. CASE i - 1 = idx
        BY <1>4, <2>1, <2>2, <2>3, <2>7, <4>2
      <4>3. CASE i - 1 # idx
        <5>1. PICK h \in DOMAIN p.channels : p.index[p.channels[h]] = i - 1
          BY <1>1, <4>1
        <5>2. h # f /\ h # g
          BY <2>2, <4>1, <4>3, <5>1
        <5> QED BY <1>4, <2>1, <2>7, <5>1, <5>2
      <4> QED BY <4>2, <4>3
    <3>2. \A h, k \in DOMAIN q.channels : q.channels[h] = q.channels[k] => h = k
      BY <1>1, <1>4, <2>1
    <3> QED BY <1>4, <2>1, <2>6, <2>9, <3>1, <3>2 DEF PollerOK
  <2> QED BY <2>1, <2>8, <2>9, <2>10 DEF less
<1> QED BY <1>5, <1>6, <1>7

-----------------------------------------------------------------------------
(* The handlers that write.                                                *)

(* A connection that is up changes its interest in writing. *)
LEMMA UpdatePollers ==
    ASSUME Base, Wired, NEW c \in Conns, Up(c), NEW ev \in SUBSET Events, "in" \in ev, Update(c, ev)
    PROVE  poller' \in [Loops -> PollerRec] /\ SamePollers
<1> DEFINE l == conn[c].loop
           f == conn[c].fd
           p == poller[l]
<1>1. l \in Loops /\ poller \in [Loops -> PollerRec] /\ p \in PollerRec
  BY DEF Base, Types, ConnRec
<1>2. f \in DOMAIN p.channels /\ p.channels[f] = c
  BY DEF Base, UpReg, Reg
<1>3. PollerOK(p) /\ Owned(l, f)
  BY <1>1, <1>2 DEF Wired, PollOK
<1>4. EntryOf(p, f).fd = f
  <2>1. conn[c].events # {}
    BY DEF Base, ConnOK
  <2>2. c # Timer /\ c \notin Dials
    BY ServerAssumption
  <2> QED BY <1>2, <1>3, <2>1, <2>2 DEF Owned
<1> HIDE DEF l, f
<1>5. poller' = [poller EXCEPT ![l] = UpdateChannel(p, c, f, ev)]
  BY DEF Update, l, f
<1> HIDE DEF p
<1>6. PICK q : q = UpdateChannel(p, p.channels[f], f, ev)
  OBVIOUS
<1>7. /\ q \in PollerRec /\ PollerOK(q) /\ q.channels = p.channels
      /\ EntryOf(q, f).fd = f
      /\ \A g \in DOMAIN p.channels : g # f => EntryOf(q, g) = EntryOf(p, g)
  BY <1>1, <1>2, <1>3, <1>6, PollUpdate, SMTT(60)
<1>8. poller' = [poller EXCEPT ![l] = q]
  BY <1>2, <1>5, <1>6
<1>9. poller' \in [Loops -> PollerRec] /\ poller'[l] = q /\ \A k \in Loops : k # l => poller'[k] = poller[k]
  BY <1>1, <1>7, <1>8
<1>10. SamePollers
  <2> SUFFICES ASSUME NEW k \in Loops
               PROVE  /\ poller'[k].channels = poller[k].channels
                      /\ PollerOK(poller'[k])
                      /\ \A g \in DOMAIN poller[k].channels :
                            EntryOf(poller'[k], g).fd = EntryOf(poller[k], g).fd
    BY DEF SamePollers
  <2>1. CASE k = l
    BY <1>4, <1>7, <1>9, <2>1 DEF p
  <2>2. CASE k # l
    BY <1>9, <2>2 DEF Wired, PollOK
  <2> QED BY <2>1, <2>2
<1> QED BY <1>9, <1>10

(* A handler that returns, and may queue a call of write_cb_. *)
LEMMA WriteReturn ==
    ASSUME ServerInv, NEW l \in Loops, NEW fn, Calling(l, fn), fn \notin DialFns \cup LastCalls,
           NEW s \in Seq(Calls), Return(l, s), round' = round,
           NEW t \in Calls, t.fn = "writeCb", t.c = Callee(l), CallOK(l, t),
           tasks' = tasks \/ Queue(l, t),
           \A i \in DOMAIN s : /\ s[i].c = Callee(l) /\ s[i].fn \notin DialFns \cup LifeFns
                               /\ CallOK(l, s[i]),
           Fits(work[l], s), QuietTypes, SamePollers,
           \A c \in Conns : SameFields(c), UserOK', \A c \in Conns : Shared(c) => Shared(c)'
    PROVE  ServerInv'
<1>1. /\ Base /\ Wired /\ Running /\ work[l] # <<>> /\ Head(work[l]).fn = fn
      /\ Callee(l) \in Conns /\ Head(work[l]) \in Calls
  BY CalleeOK
<1>2. \A i \in DOMAIN s : s[i].fn \notin LastCalls
  BY DEF LifeFns, LastCalls
<1>3. t.fn \notin DialFns \cup LifeFns \cup LastCalls /\ t.fn \in TaskFns
  BY DEF DialFns, LifeFns, LastCalls, TaskFns
<1>4. \E ts \in {{}, {t}}, k \in Loops : k = l /\ Steps(l, s, k, ts) /\ OnceOK'
  <2>1. CASE tasks' = tasks
    <3>1. Steps(l, s, 0, {}) /\ OnceOK'
      BY <1>1, <2>1, StepsReturn DEF Base
    <3>2. Steps(l, s, l, {})
      BY <3>1 DEF Steps
    <3> QED BY <3>1, <3>2
  <2>2. CASE Queue(l, t)
    <3>1. Steps(l, s, l, {t}) /\ OnceOK'
      BY <1>1, <1>3, <2>2, StepsQueue DEF Base
    <3> QED BY <3>1
  <2> QED BY <2>1, <2>2
<1>5. PICK ts \in {{}, {t}} : Steps(l, s, l, ts) /\ OnceOK'
  BY <1>4
<1>6. \A x \in ts : x = t
  OBVIOUS
<1>7. OwnCalls(l, s, ts)
  BY <1>1, <1>3, <1>6 DEF OwnCalls
<1>8. PICK b : b = Callee(l)
  OBVIOUS
<1>9. Dying(b)' <=> Dying(b)
  <2>1. conn'[b].loop = conn[b].loop
    BY <1>1, <1>8 DEF SameFields
  <2>2. \A x \in ts : x.fn \notin LastCalls
    BY <1>3, <1>6
  <2> QED BY <1>1, <1>2, <1>5, <1>7, <1>8, <2>1, <2>2, DyingSame
<1>10. \A x \in ts : x.fn \in TaskFns /\ CallOK(l, x)
  BY <1>3, <1>6
<1> QED BY <1>1, <1>5, <1>7, <1>8, <1>9, <1>10, QuietConnStep

(* Buffering the rest of a message. *)
LEMMA BufferRestIs ==
    ASSUME Base, Wired, NEW c \in Conns, Up(c), BufferRest(c)
    PROVE  /\ conn' \in [Conns -> ConnRec] /\ \A b \in Conns : SameFields(b)
           /\ poller' \in [Loops -> PollerRec] /\ SamePollers
<1>1. conn \in [Conns -> ConnRec] /\ poller \in [Loops -> PollerRec]
  BY DEF Base, Types
<1>2. conn' = [conn EXCEPT ![c].buffered = TRUE, ![c].events = @ \cup {"out"}]
  BY DEF BufferRest
<1>3. "in" \in conn[c].events /\ conn[c].events \in SUBSET Events
  BY <1>1 DEF Base, ConnOK, ConnRec
<1>4. conn' \in [Conns -> ConnRec] /\ \A b \in Conns : SameFields(b)
  BY <1>1, <1>2, <1>3 DEF SameFields, ConnRec, Events
<1>5. CASE Writing(c)
  BY <1>1, <1>4, <1>5, PollersStay DEF BufferRest
<1>6. CASE ~Writing(c)
  <2>1. Update(c, conn[c].events \cup {"out"})
    BY <1>6 DEF BufferRest
  <2>2. conn[c].events \cup {"out"} \in SUBSET Events /\ "in" \in conn[c].events \cup {"out"}
    BY <1>3 DEF Events
  <2> QED BY <1>4, <2>1, <2>2, UpdatePollers
<1> QED BY <1>5, <1>6

(* Everything was written. *)
LEMMA AllWrittenIs ==
    ASSUME Base, Wired, NEW c \in Conns, Up(c), Update(c, conn[c].events \ {"out"}),
           conn' = [conn EXCEPT ![c].buffered = FALSE, ![c].events = @ \ {"out"}]
    PROVE  /\ conn' \in [Conns -> ConnRec] /\ \A b \in Conns : SameFields(b)
           /\ poller' \in [Loops -> PollerRec] /\ SamePollers
<1>1. conn \in [Conns -> ConnRec] /\ poller \in [Loops -> PollerRec]
  BY DEF Base, Types
<1>2. "in" \in conn[c].events \ {"out"} /\ conn[c].events \ {"out"} \in SUBSET Events
  BY <1>1 DEF Base, ConnOK, ConnRec
<1>3. conn' \in [Conns -> ConnRec] /\ \A b \in Conns : SameFields(b)
  BY <1>1, <1>2 DEF SameFields, ConnRec
<1>4. poller' \in [Loops -> PollerRec] /\ SamePollers
  BY <1>2, UpdatePollers
<1> QED BY <1>3, <1>4

(* sendInLoop *)
LEMMA SendInLoopKeeps ==
    ASSUME ServerInv, NEW l \in Loops, SendInLoop(l)
    PROVE  ServerInv'
<1> DEFINE c == Callee(l)
           t == Call("writeCb", c, TRUE)
<1>1. /\ Calling(l, "sendInLoop") /\ Return(l, <<>>) /\ round' = round /\ user' = user
  BY DEF SendInLoop, outside
<1>2. /\ Base /\ Wired /\ Head(work[l]).fn = "sendInLoop" /\ c \in Conns
      /\ CallOK(l, Head(work[l]))
  BY <1>1, CalleeOK DEF DialFns
<1>3. Made(c) /\ conn[c].loop = l
  BY <1>2 DEF CallOK, Callee, DialFns
<1>4. t \in Calls /\ t.fn = "writeCb" /\ t.c = c /\ t.ref
  BY <1>2 DEF Calls, Call, Functions
<1>5. /\ tasks' = tasks \/ Queue(l, t)
      /\ \/ conn' = conn /\ poller' = poller
         \/ Up(c) /\ BufferRest(c)
  <2>1. CASE conn[c].state = "disconnected"
    BY <2>1 DEF SendInLoop
  <2>2. CASE conn[c].state # "disconnected" /\ (Writing(c) \/ conn[c].buffered)
    BY <1>3, <2>2 DEF SendInLoop, Made, Down
  <2>3. CASE conn[c].state # "disconnected" /\ ~(Writing(c) \/ conn[c].buffered)
    <3>1. Up(c)
      BY <1>3, <2>3 DEF Made, Down
    <3>2. \E r \in SendResults(c) :
                 \/ /\ r = "all"
                    /\ Queue(l, Call("writeCb", c, TRUE))
                    /\ UNCHANGED <<conn, poller>>
                 \/ r = "later" /\ BufferRest(c) /\ UNCHANGED tasks
                 \/ r = "error" /\ UNCHANGED <<conn, poller, tasks>>
      BY <2>3 DEF SendInLoop
    <3> QED BY <3>1, <3>2
  <2> QED BY <2>1, <2>2, <2>3
<1>6. conn \in [Conns -> ConnRec] /\ poller \in [Loops -> PollerRec]
  BY <1>2 DEF Base, Types
<1>7. /\ conn' \in [Conns -> ConnRec] /\ \A b \in Conns : SameFields(b)
      /\ poller' \in [Loops -> PollerRec] /\ SamePollers
  BY <1>2, <1>5, <1>6, BufferRestIs, ConnsStay, PollersStay
<1>8. QuietTypes
  BY <1>2, <1>7 DEF SendInLoop, serverVars, connectorVars, outside, QuietTypes, Base, Types
<1>9. UserOK' /\ \A b \in Conns : Shared(b) => Shared(b)'
  BY <1>1, <1>2, <1>7, UsersStay
<1>10. "sendInLoop" \notin DialFns \cup LastCalls
  BY DEF DialFns, LastCalls
<1> HIDE DEF t
<1>11. CallOK(l, t)
  <2> HIDE DEF c
  <2> QED BY <1>2, <1>3, <1>4 DEF CallOK, DialFns
<1>12. <<>> \in Seq(Calls) /\ DOMAIN <<>> = {} /\ Fits(work[l], <<>>)
  BY NoCall
<1>13. tasks' = tasks \/ Queue(l, t)
  BY <1>5
<1> QED BY <1>1, <1>4, <1>7, <1>8, <1>9, <1>10, <1>11, <1>12, <1>13, WriteReturn

(* handleWrite *)
LEMMA HandleWriteKeeps ==
    ASSUME ServerInv, NEW l \in Loops, HandleWrite(l)
    PROVE  ServerInv'
<1> DEFINE c == Callee(l)
           t == Call("writeCb", c, TRUE)
           e == Call("shutdownInLoop", c, FALSE)
<1>1. /\ Calling(l, "handleWrite") /\ round' = round /\ user' = user
  BY DEF HandleWrite, outside
<1>2. /\ Base /\ Wired /\ Head(work[l]).fn = "handleWrite" /\ c \in Conns
      /\ CallOK(l, Head(work[l]))
  BY <1>1, CalleeOK DEF DialFns
<1>3. Made(c) /\ Linked(c) /\ conn[c].loop = l
  BY <1>2 DEF CallOK, Callee, DialFns
<1>4. /\ t \in Calls /\ t.fn = "writeCb" /\ t.c = c /\ t.ref
      /\ e \in Calls /\ e.fn = "shutdownInLoop" /\ e.c = c
  BY <1>2 DEF Calls, Call, Functions
<1>5. conn \in [Conns -> ConnRec] /\ poller \in [Loops -> PollerRec]
  BY <1>2 DEF Base, Types
<1>6. /\ \E s \in {<<>>, <<e>>} : Return(l, s)
      /\ tasks' = tasks \/ Queue(l, t)
      /\ conn' \in [Conns -> ConnRec] /\ \A b \in Conns : SameFields(b)
      /\ poller' \in [Loops -> PollerRec] /\ SamePollers
  <2>1. CASE /\ Writing(c)
             /\ conn' = [conn EXCEPT ![c].buffered = FALSE, ![c].events = @ \ {"out"}]
             /\ Update(c, conn[c].events \ {"out"})
             /\ Queue(l, t)
             /\ Return(l, IF conn[c].state = "disconnecting" THEN <<e>> ELSE <<>>)
    <3>1. Up(c)
      BY <1>2, <1>3, <2>1 DEF Made, Writing, Base, ConnOK
    <3>2. conn' = [conn EXCEPT ![c].buffered = FALSE, ![c].events = @ \ {"out"}]
      BY <2>1
    <3>3. Update(c, conn[c].events \ {"out"})
      BY <2>1
    <3>4. /\ conn' \in [Conns -> ConnRec] /\ \A b \in Conns : SameFields(b)
          /\ poller' \in [Loops -> PollerRec] /\ SamePollers
      <4> HIDE DEF c
      <4> QED BY <1>2, <3>1, <3>2, <3>3, AllWrittenIs
    <3> QED BY <2>1, <3>4
  <2>2. CASE Return(l, <<>>) /\ UNCHANGED <<conn, poller, tasks>>
    BY <1>2, <1>5, <2>2, ConnsStay, PollersStay
  <2> QED BY <2>1, <2>2 DEF HandleWrite
<1>7. QuietTypes
  BY <1>2, <1>6 DEF HandleWrite, serverVars, connectorVars, outside, QuietTypes, Base, Types
<1>8. UserOK' /\ \A b \in Conns : Shared(b) => Shared(b)'
  BY <1>1, <1>2, <1>6, UsersStay
<1>9. "handleWrite" \notin DialFns \cup LastCalls \cup AboveRead \cup AboveMessage
  BY DEF DialFns, LastCalls, AboveRead, AboveMessage
<1> HIDE DEF t, e
<1>10. CallOK(l, t) /\ CallOK(l, e) /\ e.fn \notin DialFns \cup LifeFns \cup LastCalls
  <2> HIDE DEF c
  <2> QED BY <1>2, <1>3, <1>4 DEF CallOK, DialFns, LifeFns, LastCalls
<1>11. PICK s \in {<<>>, <<e>>} : Return(l, s)
  BY <1>6
<1>12. /\ s \in Seq(Calls) /\ Fits(work[l], s)
       /\ \A i \in DOMAIN s : /\ s[i].c = Callee(l) /\ s[i].fn \notin DialFns \cup LifeFns
                              /\ CallOK(l, s[i])
  <2>1. Fits(work[l], <<e>>)
    BY <1>2, <1>4, <1>9, <1>10, FitsOne
  <2>2. /\ <<e>> \in Seq(Calls) /\ DOMAIN <<e>> = {1} /\ <<e>>[1] = e
        /\ <<>> \in Seq(Calls) /\ DOMAIN <<>> = {} /\ Fits(work[l], <<>>)
    BY <1>4, OneCall, NoCall
  <2>3. CASE s = <<e>>
    BY <1>4, <1>10, <2>1, <2>2, <2>3
  <2>4. CASE s = <<>>
    BY <2>2, <2>4
  <2> QED BY <2>3, <2>4
<1>13. t \in Calls /\ t.fn = "writeCb" /\ t.c = Callee(l) /\ (tasks' = tasks \/ Queue(l, t))
  BY <1>4, <1>6
<1> QED BY ONLY ServerInv, l \in Loops, <1>1, <1>6, <1>7, <1>8, <1>9, <1>10, <1>11, <1>12, <1>13, WriteReturn

-----------------------------------------------------------------------------
(* The handlers that move a connection on.                                 *)

(* The parts of the invariant that are not about the pollers, after a call *)
(* of a connection that changes this connection only.                      *)
LEMMA OwnConnStep ==
    ASSUME Base, NEW l \in Loops, work[l] # <<>>, NEW s \in Seq(Calls),
           NEW k, NEW ts, Steps(l, s, k, ts), OwnCalls(l, s, ts),
           dial' = dial, connector' = connector, left' = left, user' = user,
           NEW b, b = Callee(l), b \in Conns, conn[b].state # "none",
           conn'[b].fd = conn[b].fd, conn'[b].loop = conn[b].loop,
           \A c \in Conns : c # b => SameFields(c) /\ (InMap(c)' <=> InMap(c)),
           \A m \in Loops, e \in Calls : Has(todo', m, e) /\ e.c = b => CallOK(m, e)',
           Up(b)' => InMap(b)' /\ conn'[b].downs = 0 /\ "in" \in conn'[b].events,
           Down(b)' => conn'[b].events = {} /\ conn'[b].downs = 1,
           Made(b)', Linked(b)' => Linked(b), MapOK'
    PROVE  /\ \A c \in Conns : c # b => SameConn(c)
           /\ CallsOK' /\ ActiveOK' /\ ConnOK' /\ DialMapOK' /\ DialOK' /\ AddressOK' /\ FdOK' /\ UserOK'
<1>1. \A c \in Conns : conn'[c].loop = conn[c].loop /\ (c # b => (Up(c)' <=> Up(c)))
  BY DEF SameFields, Up
<1>2. /\ ActiveOK'
      /\ \A d \in Dials : SameDial(d)
      /\ \A d \in Dials : Under({"handleConnect", "newConnection"}, d)
                            => Under({"handleConnect", "newConnection"}, d)'
      /\ \A c \in Conns : c # b => (Dying(c)' <=> Dying(c))
  BY <1>1, OwnStep
<1>3. \A c \in Conns : c # b => SameConn(c)
  BY <1>2 DEF SameConn, SameFields
<1>4. /\ \A m \in Loops, e \in Calls : e.c # b => (Has(todo', m, e) <=> Has(todo, m, e))
  BY OwnMembers
<1>5. \A c \in Conns : Shared(c) => Shared(c)'
  BY DEF Shared
<1>6. CallsOK'
  <2> SUFFICES ASSUME NEW m \in Loops, NEW e \in Calls, Has(todo', m, e), e.c # b
               PROVE  CallOK(m, e)'
    BY DEF CallsOK
  <2>1. CallOK(m, e)
    BY <1>4 DEF Base, CallsOK
  <2> QED BY <1>2, <1>3, <1>5, <2>1, CallFrame
<1>7. ASSUME NEW c \in Conns, c # b
      PROVE  /\ Up(c)' => InMap(c)' /\ conn'[c].downs = 0 /\ "in" \in conn'[c].events
             /\ Down(c)' => conn'[c].events = {} /\ conn'[c].downs = 1
             /\ ~Made(c)' => conn'[c].events = {} /\ conn'[c].downs = 0
             /\ conn'[c].state = "connecting" => InMap(c)'
             /\ conn'[c].state = "none" => ~InMap(c)'
             /\ Made(c)' <=> Made(c)
             /\ Linked(c)' <=> Linked(c)
             /\ conn'[c].state = "none" <=> conn[c].state = "none"
             /\ conn'[c].fd = conn[c].fd
  BY <1>3, <1>7, ConnFrame DEF Base, SameFields
<1>8. ConnOK'
  <2>1. conn'[b].state \notin {"none", "connecting"}
    BY DEF Made, Up, Down
  <2> QED BY <1>7, <2>1 DEF ConnOK
<1>9. DialMapOK' /\ DialOK' /\ AddressOK'
  BY <1>2 DEF Base, DialMapOK, DialOK, AddressOK, SameDial, OpenDial
<1>10. FdOK'
  <2>1. \A c \in Conns : Linked(c)' => Linked(c) /\ conn'[c].fd = conn[c].fd
    BY <1>7
  <2>2. \A c \in Conns : conn'[c].fd = conn[c].fd /\ (conn'[c].state # "none" => conn[c].state # "none")
    BY <1>7
  <2>3. \A d \in Dials : (OpenDial(d)' <=> OpenDial(d)) /\ dial'[d].fd = dial[d].fd
    BY DEF OpenDial
  <2> QED BY <2>1, <2>2, <2>3 DEF Base, FdOK
<1>11. UserOK'
  <2>1. \A c \in Conns : Made(c) => Made(c)'
    BY <1>7
  <2>2. \A u \in Users : user[u].holds \subseteq Conns
    BY DEF Base, Types, UserRec
  <2> QED BY <2>1, <2>2 DEF Base, UserOK
<1> QED BY <1>2, <1>3, <1>6, <1>8, <1>9, <1>10, <1>11

(* A connection that is up has no call under way that moves it on. *)
LEMMA UpNoLife ==
    ASSUME Base, NEW c \in Conns, Up(c)
    PROVE  NoLife(todo, c)
<1>1. todo \in Vectors
  BY TodoIs DEF Base
<1>2. ASSUME NEW k \in Loops, NEW e \in Calls, Has(todo, k, e), e.fn \in LifeFns, e.c = c
      PROVE  FALSE
  <2>1. CallOK(k, e)
    BY <1>2 DEF Base, CallsOK
  <2>2. c \notin Dials
    BY ServerAssumption
  <2> QED BY <1>2, <2>1, <2>2 DEF CallOK, LifeFns, DialFns, Up, Down
<1> QED BY <1>1, <1>2, NoLifeHas

(* A connection that is up stops watching: its entry is ignored. *)
LEMMA IgnorePollers ==
    ASSUME Base, Wired, NEW c \in Conns, Up(c), Update(c, {})
    PROVE  /\ poller' \in [Loops -> PollerRec]
           /\ \A k \in Loops :
                 /\ poller'[k].channels = poller[k].channels
                 /\ PollerOK(poller'[k])
                 /\ \A g \in DOMAIN poller[k].channels :
                       EntryOf(poller'[k], g).fd =
                          IF k = conn[c].loop /\ g = conn[c].fd THEN Ignored(g)
                          ELSE EntryOf(poller[k], g).fd
<1> DEFINE l == conn[c].loop
           f == conn[c].fd
           p == poller[l]
<1>1. l \in Loops /\ poller \in [Loops -> PollerRec] /\ p \in PollerRec
  BY DEF Base, Types, ConnRec
<1>2. f \in DOMAIN p.channels /\ p.channels[f] = c
  BY DEF Base, UpReg, Reg
<1>3. PollerOK(p)
  BY <1>1 DEF Wired, PollOK
<1> HIDE DEF l, f
<1>5. poller' = [poller EXCEPT ![l] = UpdateChannel(p, c, f, {})]
  BY DEF Update, l, f
<1> HIDE DEF p
<1>6. PICK q : q = UpdateChannel(p, p.channels[f], f, {})
  OBVIOUS
<1>7. /\ q \in PollerRec /\ PollerOK(q) /\ q.channels = p.channels
      /\ EntryOf(q, f).fd = Ignored(f)
      /\ \A g \in DOMAIN p.channels : g # f => EntryOf(q, g) = EntryOf(p, g)
  BY <1>1, <1>2, <1>3, <1>6, PollUpdate
<1>8. poller' = [poller EXCEPT ![l] = q]
  BY <1>2, <1>5, <1>6
<1>9. poller' \in [Loops -> PollerRec] /\ poller'[l] = q /\ \A k \in Loops : k # l => poller'[k] = poller[k]
  BY <1>1, <1>7, <1>8
<1>10. ASSUME NEW k \in Loops
       PROVE  /\ poller'[k].channels = poller[k].channels
              /\ PollerOK(poller'[k])
              /\ \A g \in DOMAIN poller[k].channels :
                    EntryOf(poller'[k], g).fd =
                       IF k = l /\ g = f THEN Ignored(g) ELSE EntryOf(poller[k], g).fd
  <2>1. CASE k = l
    BY <1>7, <1>9, <2>1 DEF p
  <2>2. CASE k # l
    BY <1>9, <2>2 DEF Wired, PollOK
  <2> QED BY <2>1, <2>2
<1> QED BY <1>9, <1>10 DEF l, f

(* handleClose: the calls that need the connection up are gone. *)
LEMMA HandleCloseKeeps ==
    ASSUME ServerInv, NEW l \in Loops, HandleClose(l)
    PROVE  ServerInv'
<1>0. PICK b : b = Callee(l)
  OBVIOUS
<1> DEFINE e1 == Call("connectCb", b, TRUE)
           e2 == Call("removeConnection", b, TRUE)
           s == <<e1, e2>>
<1>1. /\ Calling(l, "handleClose") /\ tasks' = tasks /\ round' = round /\ Return(l, s)
      /\ conn' = [conn EXCEPT ![b].state = "disconnected", ![b].events = {},
                              ![b].downs = IF @ < 2 THEN @ + 1 ELSE @]
      /\ Update(b, {}) /\ user' = user /\ left' = left /\ fault' = fault
      /\ dial' = dial /\ connector' = connector /\ connection_map_' = connection_map_
      /\ thread_pool_' = thread_pool_ /\ peer' = peer
  BY <1>0 DEF HandleClose, EventsAfterClose, outside, serverVars, connectorVars
<1>2. /\ Base /\ Wired /\ Running /\ work[l] # <<>> /\ Head(work[l]).fn = "handleClose"
      /\ b \in Conns /\ CallOK(l, Head(work[l])) /\ work[l] \in Seq(Calls)
  BY <1>0, <1>1, CalleeOK DEF DialFns
<1>3. Up(b) /\ conn[b].loop = l /\ InMap(b) /\ conn[b].downs = 0
  <2>1. Up(b) /\ conn[b].loop = l
    BY <1>0, <1>2 DEF CallOK, Callee, DialFns
  <2> QED BY <1>2, <2>1 DEF Base, ConnOK
<1>4. conn \in [Conns -> ConnRec]
  BY <1>2 DEF Base, Types
<1>5. /\ conn' \in [Conns -> ConnRec]
      /\ conn'[b].state = "disconnected" /\ conn'[b].events = {} /\ conn'[b].downs = 1
      /\ conn'[b].fd = conn[b].fd /\ conn'[b].loop = conn[b].loop
      /\ \A c \in Conns : c # b => conn'[c] = conn[c]
  <2>1. conn[b].downs = 0 => (IF conn[b].downs < 2 THEN conn[b].downs + 1 ELSE conn[b].downs) = 1
    OBVIOUS
  <2>2. conn' = [conn EXCEPT ![b] = [conn[b] EXCEPT !.state = "disconnected", !.events = {},
                                                    !.downs = 1]]
    BY <1>1, <1>2, <1>3, <1>4, <2>1
  <2>3. PICK r : r = [conn[b] EXCEPT !.state = "disconnected", !.events = {}, !.downs = 1]
    OBVIOUS
  <2>4. conn[b] \in ConnRec
    BY <1>2, <1>4
  <2>5. /\ r.state = "disconnected" /\ r.events = {} /\ r.downs = 1
        /\ r.fd = conn[b].fd /\ r.loop = conn[b].loop
        /\ r \in ConnRec
    <3>1. conn[b] = [state |-> conn[b].state, fd |-> conn[b].fd, loop |-> conn[b].loop,
                     events |-> conn[b].events, buffered |-> conn[b].buffered,
                     fin |-> conn[b].fin, downs |-> conn[b].downs]
      BY <2>4 DEF ConnRec
    <3>2. r = [state |-> "disconnected", fd |-> conn[b].fd, loop |-> conn[b].loop,
               events |-> {}, buffered |-> conn[b].buffered, fin |-> conn[b].fin, downs |-> 1]
      BY <2>3, <3>1
    <3>3. /\ {} \in SUBSET Events /\ 1 \in 0 .. 2 /\ "disconnected" \in States
          /\ conn[b].fd \in SomeFds /\ conn[b].loop \in Loops
          /\ conn[b].buffered \in BOOLEAN /\ conn[b].fin \in BOOLEAN
      BY <2>4 DEF ConnRec, States
    <3> QED BY <3>2, <3>3 DEF ConnRec
  <2> QED BY <1>2, <1>4, <2>2, <2>3, <2>5
<1>6. /\ e1 \in Calls /\ e1.c = b /\ e1.fn = "connectCb" /\ e1.ref
      /\ e2 \in Calls /\ e2.c = b /\ e2.fn = "removeConnection" /\ e2.ref
  BY <1>2 DEF Calls, Call, Functions
<1> HIDE DEF e1, e2
<1>7. s \in Seq(Calls) /\ DOMAIN s = {1, 2} /\ s[1] = e1 /\ s[2] = e2 /\ Len(s) = 2
  <2>1. s \in Seq(Calls) /\ Len(s) = 2 /\ s[1] = e1 /\ s[2] = e2
    BY <1>6
  <2>2. DOMAIN s = 1 .. 2
    BY <2>1
  <2> QED BY <2>1, <2>2
<1> HIDE DEF s
<1>8. Fits(work[l], s)
  <2>1. \A i \in DOMAIN s : s[i].fn \in {"connectCb", "removeConnection"}
    BY <1>6, <1>7
  <2> QED BY <1>2, <2>1 DEF Fits, Ordered, LastCalls, AboveRead, AboveMessage
<1>9. MovesOn(l)
  BY <1>0, <1>2, <1>3, UpNoLife DEF MovesOn
<1>10. Steps(l, s, 0, {}) /\ OnceOK'
  <2>1. /\ \A i, j \in DOMAIN s : s[i].fn \in LifeFns /\ s[j].fn \in LifeFns => i = j
        /\ \A i \in DOMAIN s : s[i].fn \in LifeFns => s[i].c = Callee(l) /\ MovesOn(l)
    BY <1>0, <1>6, <1>7, <1>9 DEF LifeFns
  <2> QED BY <1>1, <1>2, <1>7, <2>1, StepsReturn DEF Base
<1>11. OwnCalls(l, s, {})
  BY <1>0, <1>2, <1>6, <1>7 DEF OwnCalls, DialFns
<1>12. StageOK' /\ OrderOK' /\ RestOK'
  BY <1>2, <1>7, <1>8, <1>10, StepsKeep DEF Base
<1>13. Types'
  <2>1. tasks' \in [Loops -> Seq(Calls)] /\ work' \in [Loops -> Seq(Calls)]
    BY <1>10 DEF Steps, Vectors
  <2>2. poller' \in [Loops -> PollerRec]
    BY <1>1, <1>2, <1>3, IgnorePollers
  <2> QED BY <1>1, <1>2, <1>5, <2>1, <2>2 DEF Base, Types
<1>14. InMap(b)' /\ Down(b)' /\ Made(b)' /\ Linked(b)'
  BY <1>1, <1>3, <1>5 DEF InMap, Down, Made, Linked
<1>15. \A c \in Conns : c # b => SameFields(c) /\ (InMap(c)' <=> InMap(c))
  BY <1>1, <1>5 DEF SameFields, InMap
<1>16. ASSUME NEW m \in Loops, NEW e \in Calls, Has(todo', m, e), e.c = b
       PROVE  CallOK(m, e)'
  <2>1. CASE ~Has(todo, m, e)
    <3>1. m = l /\ (e = e1 \/ e = e2)
      <4>1. m = l /\ \E i \in DOMAIN s : s[i] = e
        BY <1>2, <1>7, <1>10, <1>11, <1>16, <2>1, OwnMembers
      <4> QED BY <1>7, <4>1
    <3> QED BY <1>2, <1>3, <1>5, <1>6, <1>14, <3>1 DEF CallOK, DialFns
  <2>2. CASE Has(todo, m, e)
    <3>1. CallOK(m, e)
      BY <1>2, <2>2 DEF Base, CallsOK
    <3>2. e.fn \notin {"handleClose", "handleRead", "messageCb"}
      <4> SUFFICES ASSUME e.fn \in {"handleClose", "handleRead", "messageCb"} PROVE FALSE
        OBVIOUS
      <4>1. m = l
        BY <1>3, <1>16, <3>1 DEF CallOK, DialFns
      <4>2. ~Has(rest', l, e)
        BY <1>12 DEF RestOK, TaskFns
      <4>3. Has(work', l, e)
        <5>1. \A j \in Loops : \A x : Has(todo', j, x) <=> Has(work', j, x) \/ Has(rest', j, x)
          BY <1>12, <1>13, TodoIsNext DEF TodoSplit
        <5> QED BY <1>16, <4>1, <4>2, <5>1
      <4>4. PICK i \in DOMAIN work'[l] : work'[l][i] = e
        BY <4>3 DEF Has
      <4>5. work'[l] \in Seq(Calls) /\ work'[l][1] = e1 /\ i \in 1 .. Len(work'[l])
        <5>1. work'[l] = s \o Tail(work[l]) /\ work'[l] \in Seq(Calls)
          BY <1>10 DEF Steps, Vectors
        <5>2. Tail(work[l]) \in Seq(Calls)
          BY <1>2
        <5>3. (s \o Tail(work[l]))[1] = s[1]
          <6>1. \A u, v \in Seq(Calls) : u # <<>> => (u \o v)[1] = u[1]
            OBVIOUS
          <6>2. s # <<>>
            BY DEF s
          <6> QED BY <1>7, <5>2, <6>1, <6>2
        <5>4. DOMAIN work'[l] = 1 .. Len(work'[l])
          BY <5>1
        <5> QED BY <1>7, <5>1, <5>3, <5>4
      <4>6. Ordered(work'[l])
        BY <1>12 DEF OrderOK
      <4>7. i # 1
        BY <1>6, <4>4, <4>5
      <4>8. 1 \in 1 .. i - 1
        BY <4>5, <4>7
      <4> QED BY <1>6, <4>4, <4>5, <4>6, <4>7, <4>8 DEF Ordered, AboveRead, AboveMessage
    <3>3. Shared(b) => Shared(b)'
      BY <1>1 DEF Shared
    <3>4. b \notin Dials
      BY <1>2, ServerAssumption
    <3> QED BY <1>3, <1>5, <1>14, <1>16, <3>1, <3>2, <3>3, <3>4 DEF CallOK, DialFns, Up, Down
  <2> QED BY <2>1, <2>2
<1>17. MapOK'
  BY <1>1, <1>2, <1>5 DEF Base, MapOK, Types, Partial
<1>18. /\ \A c \in Conns : c # b => SameConn(c)
       /\ CallsOK' /\ ActiveOK' /\ ConnOK' /\ DialMapOK' /\ DialOK' /\ AddressOK' /\ FdOK' /\ UserOK'
  <2>1. Linked(b) /\ conn[b].state # "none" /\ ~Up(b)'
    BY <1>3, <1>5 DEF Linked, Up
  <2> QED BY <1>0, <1>1, <1>2, <1>5, <1>7, <1>10, <1>11, <1>14, <1>15, <1>16, <1>17, <2>1, OwnConnStep
<1>19. /\ poller' \in [Loops -> PollerRec]
       /\ \A k \in Loops :
             /\ poller'[k].channels = poller[k].channels
             /\ PollerOK(poller'[k])
             /\ \A g \in DOMAIN poller[k].channels :
                   EntryOf(poller'[k], g).fd =
                      IF k = l /\ g = conn[b].fd THEN Ignored(g) ELSE EntryOf(poller[k], g).fd
  BY <1>1, <1>2, <1>3, IgnorePollers
<1>20. \A c \in Conns : Reg(c)' <=> Reg(c)
  <2>1. \A c \in Conns : conn[c].loop \in Loops /\ conn'[c].loop = conn[c].loop /\ conn'[c].fd = conn[c].fd
    BY <1>4, <1>5 DEF ConnRec
  <2> QED BY <1>19, <2>1 DEF Reg
<1>21. UpReg'
  <2>1. \A c \in Conns : Up(c)' => Up(c)
    BY <1>3, <1>5 DEF Up
  <2> QED BY <1>2, <1>20, <2>1 DEF Base, UpReg
<1>22. Wired'
  <2>1. PollOK'
    <3> SUFFICES ASSUME NEW k \in Loops, NEW f \in DOMAIN poller[k].channels PROVE Owned(k, f)'
      BY <1>19 DEF PollOK
    <3>1. Owned(k, f)
      BY <1>2 DEF Wired, PollOK
    <3>2. poller'[k].channels[f] = poller[k].channels[f]
      BY <1>19
    <3>3. CASE poller[k].channels[f] = b
      <4>1. conn[b].fd = f /\ conn[b].loop = k
        BY <1>2, <3>1, <3>3, ServerAssumption DEF Owned
      <4> QED BY <1>2, <1>3, <1>5, <1>19, <3>2, <3>3, <4>1 DEF Owned
    <3>4. CASE poller[k].channels[f] # b
      <4>1. k = l => f # conn[b].fd
        BY <1>2, <1>3, <3>4 DEF Base, UpReg, Reg
      <4>2. EntryOf(poller'[k], f).fd = EntryOf(poller[k], f).fd
        BY <1>19, <4>1
      <4> QED BY <1>1, <1>5, <3>1, <3>2, <3>4, <4>2 DEF Owned
    <3> QED BY <3>3, <3>4
  <2>2. RegOK'
    <3>1. \A c \in Conns : (Made(c)' /\ Linked(c)') <=> (Made(c) /\ Linked(c))
      <4>1. \A c \in Conns : c # b => (Made(c)' <=> Made(c)) /\ (Linked(c)' <=> Linked(c))
        BY <1>2, <1>18, ConnFrame DEF Base
      <4>2. Made(b) /\ Linked(b)
        BY <1>3 DEF Made, Linked
      <4> QED BY <1>14, <4>1, <4>2
    <3> QED BY <1>2, <1>20, <3>1 DEF Wired, RegOK
  <2>3. WaitsOK'
    <3>1. connector.loop \in Loops
      BY <1>2 DEF Base, Types
    <3> QED BY <1>1, <1>2, <1>19, <3>1 DEF Wired, WaitsOK
  <2> QED BY <2>1, <2>2, <2>3 DEF Wired
<1> QED BY <1>10, <1>12, <1>13, <1>17, <1>18, <1>21, <1>22 DEF ServerInv, Base

(* A channel is registered with the poller of loop l. *)
LEMMA InsertPollers ==
    ASSUME Base, Wired, NEW l \in Loops, NEW f \in PollFds, f \notin DOMAIN poller[l].channels,
           NEW c \in Channels, \A g \in DOMAIN poller[l].channels : poller[l].channels[g] # c,
           NEW ev \in SUBSET Events,
           poller' = [poller EXCEPT ![l] = UpdateChannel(poller[l], c, f, ev)]
    PROVE  /\ poller' \in [Loops -> PollerRec]
           /\ \A k \in Loops :
                 /\ PollerOK(poller'[k])
                 /\ DOMAIN poller'[k].channels
                      = DOMAIN poller[k].channels \cup (IF k = l THEN {f} ELSE {})
                 /\ \A g \in DOMAIN poller[k].channels :
                       /\ poller'[k].channels[g] = poller[k].channels[g]
                       /\ EntryOf(poller'[k], g) = EntryOf(poller[k], g)
           /\ poller'[l].channels[f] = c /\ EntryOf(poller'[l], f).fd = f
<1>1. poller \in [Loops -> PollerRec] /\ poller[l] \in PollerRec
  BY DEF Base, Types
<1>2. \A k \in Loops : PollerOK(poller[k])
  BY DEF Wired, PollOK
<1>3. PICK q : q = UpdateChannel(poller[l], c, f, ev)
  OBVIOUS
<1>4. /\ q \in PollerRec /\ PollerOK(q) /\ q.channels = With(poller[l].channels, f, c)
      /\ EntryOf(q, f).fd = f
      /\ \A g \in DOMAIN poller[l].channels : EntryOf(q, g) = EntryOf(poller[l], g)
  BY <1>1, <1>2, <1>3, PollInsert
<1>5. /\ DOMAIN q.channels = DOMAIN poller[l].channels \cup {f} /\ q.channels[f] = c
      /\ \A g \in DOMAIN poller[l].channels : q.channels[g] = poller[l].channels[g]
  BY <1>4 DEF With
<1>6. /\ poller' \in [Loops -> PollerRec] /\ poller'[l] = q
      /\ \A k \in Loops : k # l => poller'[k] = poller[k]
  BY <1>1, <1>3, <1>4
<1>7. ASSUME NEW k \in Loops
      PROVE  /\ PollerOK(poller'[k])
             /\ DOMAIN poller'[k].channels
                  = DOMAIN poller[k].channels \cup (IF k = l THEN {f} ELSE {})
             /\ \A g \in DOMAIN poller[k].channels :
                   /\ poller'[k].channels[g] = poller[k].channels[g]
                   /\ EntryOf(poller'[k], g) = EntryOf(poller[k], g)
  <2>1. CASE k = l
    BY <1>4, <1>5, <1>6, <2>1
  <2>2. CASE k # l
    BY <1>2, <1>6, <2>2
  <2> QED BY <2>1, <2>2
<1> QED BY <1>4, <1>5, <1>6, <1>7

(* A channel leaves the poller of loop l, or the process dies. *)
LEMMA RemovePollers ==
    ASSUME Base, Wired, NEW l \in Loops, NEW f \in DOMAIN poller[l].channels,
           poller' = [poller EXCEPT ![l] = RemoveChannel(poller[l], poller[l].channels[f], f)]
    PROVE  /\ poller' \in [Loops -> PollerRec]
           /\ \/ /\ poller'[l].crashed
                 /\ \A k \in Loops : poller'[k].channels = poller[k].channels
              \/ \A k \in Loops :
                    /\ PollerOK(poller'[k])
                    /\ DOMAIN poller'[k].channels
                         = DOMAIN poller[k].channels \ (IF k = l THEN {f} ELSE {})
                    /\ \A g \in DOMAIN poller'[k].channels :
                          /\ poller'[k].channels[g] = poller[k].channels[g]
                          /\ EntryOf(poller'[k], g) = EntryOf(poller[k], g)
<1>1. poller \in [Loops -> PollerRec] /\ poller[l] \in PollerRec
  BY DEF Base, Types
<1>2. \A k \in Loops : PollerOK(poller[k])
  BY DEF Wired, PollOK
<1>3. PICK q : q = RemoveChannel(poller[l], poller[l].channels[f], f)
  OBVIOUS
<1>4. /\ q \in PollerRec
      /\ \/ q.crashed /\ q.channels = poller[l].channels
         \/ /\ PollerOK(q) /\ q.channels = Without(poller[l].channels, f)
            /\ \A g \in DOMAIN poller[l].channels : g # f => EntryOf(q, g) = EntryOf(poller[l], g)
  BY <1>1, <1>2, <1>3, PollRemove
<1>5. /\ poller' \in [Loops -> PollerRec] /\ poller'[l] = q
      /\ \A k \in Loops : k # l => poller'[k] = poller[k]
  BY <1>1, <1>3, <1>4
<1>6. CASE q.crashed /\ q.channels = poller[l].channels
  BY <1>5, <1>6
<1>7. CASE /\ PollerOK(q) /\ q.channels = Without(poller[l].channels, f)
           /\ \A g \in DOMAIN poller[l].channels : g # f => EntryOf(q, g) = EntryOf(poller[l], g)
  <2>1. /\ DOMAIN q.channels = DOMAIN poller[l].channels \ {f}
        /\ \A g \in DOMAIN q.channels : q.channels[g] = poller[l].channels[g]
    BY <1>7 DEF Without
  <2>2. ASSUME NEW k \in Loops
        PROVE  /\ PollerOK(poller'[k])
               /\ DOMAIN poller'[k].channels
                    = DOMAIN poller[k].channels \ (IF k = l THEN {f} ELSE {})
               /\ \A g \in DOMAIN poller'[k].channels :
                     /\ poller'[k].channels[g] = poller[k].channels[g]
                     /\ EntryOf(poller'[k], g) = EntryOf(poller[k], g)
    <3>1. CASE k = l
      BY <1>5, <1>7, <2>1, <3>1
    <3>2. CASE k # l
      BY <1>2, <1>5, <3>2
    <3> QED BY <3>1, <3>2
  <2> QED BY <1>5, <2>2
<1> QED BY <1>4, <1>6, <1>7

(* A connection that connects is not registered, nor is its descriptor. *)
LEMMA FreshChannel ==
    ASSUME Base, Wired, NEW c \in Conns, conn[c].state = "connecting"
    PROVE  LET p == poller[conn[c].loop] IN
           /\ conn[c].fd \notin DOMAIN p.channels
           /\ \A g \in DOMAIN p.channels : p.channels[g] # c
<1> DEFINE l == conn[c].loop
           f == conn[c].fd
           p == poller[l]
<1>1. conn \in [Conns -> ConnRec] /\ l \in Loops /\ f \in SomeFds
  BY DEF Base, Types, ConnRec
<1>2. InMap(c) /\ ~Made(c) /\ ~Reg(c)
  BY DEF Base, ConnOK, Made, Up, Down, Wired, RegOK
<1>3. \A g \in DOMAIN p.channels : Owned(l, g)
  BY <1>1 DEF Wired, PollOK
<1>4. \A g \in DOMAIN p.channels : p.channels[g] = c => g = f
  BY <1>3, ServerAssumption DEF Owned
<1>5. f \notin DOMAIN p.channels
  <2> SUFFICES ASSUME f \in DOMAIN p.channels PROVE FALSE
    OBVIOUS
  <2>1. CASE p.channels[f] \in Conns
    <3>1. conn[p.channels[f]].fd = f /\ conn[p.channels[f]].loop = l
      BY <1>3, <2>1, ServerAssumption DEF Owned
    <3>2. Reg(p.channels[f])
      BY <3>1 DEF Reg
    <3>3. Linked(p.channels[f]) /\ Linked(c)
      BY <1>2, <2>1, <3>2 DEF Wired, RegOK, Linked
    <3>4. p.channels[f] = c
      BY <2>1, <3>1, <3>3 DEF Base, FdOK
    <3> QED BY <1>2, <3>2, <3>4
  <2>2. CASE p.channels[f] \in Dials
    <3>1. f \in DOMAIN connector.conn_map /\ connector.conn_map[f] = p.channels[f]
      BY <1>3, <2>2, ServerAssumption DEF Owned
    <3>2. dial[p.channels[f]].fd = f
      BY <3>1 DEF Base, DialMapOK
    <3>3. OpenDial(p.channels[f])
      BY <2>2, <3>1, <3>2 DEF Base, DialOK, Waits
    <3> QED BY <1>2, <2>2, <3>2, <3>3 DEF Base, FdOK, Linked
  <2>3. CASE p.channels[f] = Timer
    BY <1>1, <1>3, <2>3, ServerAssumption DEF Owned, SomeFds, BadFd
  <2> QED BY <1>3, <2>1, <2>2, <2>3 DEF Owned
<1> QED BY <1>2, <1>4, <1>5

(* connectComplete: the connection is registered, as itself. *)
LEMMA ConnectCompleteKeeps ==
    ASSUME ServerInv, NEW l \in Loops, ConnectComplete(l)
    PROVE  ServerInv'
<1>0. PICK b : b = Callee(l)
  OBVIOUS
<1> DEFINE t == Call("connectCb", b, TRUE)
           s == <<t>>
           f == conn[b].fd
           ev == conn[b].events \cup {"in"}
<1>1. /\ Calling(l, "connectComplete") /\ tasks' = tasks /\ round' = round /\ Return(l, s)
      /\ conn' = [conn EXCEPT ![b].state = "connected", ![b].events = @ \cup {"in"}]
      /\ Update(b, ev) /\ user' = user /\ left' = left
      /\ fault' \in {fault, "emptyFunction"}
      /\ dial' = dial /\ connector' = connector /\ connection_map_' = connection_map_
      /\ thread_pool_' = thread_pool_ /\ peer' = peer
  BY <1>0 DEF ConnectComplete, serverVars, connectorVars
<1>2. /\ Base /\ Wired /\ Running /\ work[l] # <<>> /\ Head(work[l]).fn = "connectComplete"
      /\ b \in Conns /\ CallOK(l, Head(work[l])) /\ work[l] \in Seq(Calls)
  BY <1>0, <1>1, CalleeOK DEF DialFns
<1>3. conn[b].state = "connecting" /\ conn[b].loop = l
  BY <1>0, <1>2 DEF CallOK, Callee, DialFns
<1>4. conn \in [Conns -> ConnRec]
  BY <1>2 DEF Base, Types
<1>5. InMap(b) /\ ~Made(b) /\ conn[b].downs = 0 /\ conn[b].events = {}
  <2>1. ~Made(b)
    BY <1>3 DEF Made, Up, Down
  <2> QED BY <1>2, <1>3, <2>1 DEF Base, ConnOK
<1>6. ev \in SUBSET Events /\ "in" \in ev
  BY <1>5 DEF Events
<1>7. /\ conn' \in [Conns -> ConnRec]
      /\ conn'[b].state = "connected" /\ conn'[b].events = ev /\ conn'[b].downs = 0
      /\ conn'[b].fd = f /\ conn'[b].loop = l
      /\ \A c \in Conns : c # b => conn'[c] = conn[c]
  <2>1. conn' = [conn EXCEPT ![b] = [conn[b] EXCEPT !.state = "connected", !.events = ev]]
    BY <1>1, <1>2, <1>4
  <2>2. PICK r : r = [conn[b] EXCEPT !.state = "connected", !.events = ev]
    OBVIOUS
  <2>3. conn[b] \in ConnRec
    BY <1>2, <1>4
  <2> HIDE DEF ev
  <2>4. /\ r.state = "connected" /\ r.events = ev /\ r.downs = conn[b].downs
        /\ r.fd = conn[b].fd /\ r.loop = conn[b].loop
        /\ r \in ConnRec
    <3>1. conn[b] = [state |-> conn[b].state, fd |-> conn[b].fd, loop |-> conn[b].loop,
                     events |-> conn[b].events, buffered |-> conn[b].buffered,
                     fin |-> conn[b].fin, downs |-> conn[b].downs]
      BY <2>3 DEF ConnRec
    <3>2. r = [state |-> "connected", fd |-> conn[b].fd, loop |-> conn[b].loop,
               events |-> ev, buffered |-> conn[b].buffered, fin |-> conn[b].fin,
               downs |-> conn[b].downs]
      BY <2>2, <3>1
    <3>3. "connected" \in States /\ conn[b].fd \in SomeFds /\ conn[b].loop \in Loops
          /\ conn[b].buffered \in BOOLEAN /\ conn[b].fin \in BOOLEAN /\ conn[b].downs \in 0 .. 2
      BY <2>3 DEF ConnRec, States
    <3> QED BY <1>6, <3>2, <3>3 DEF ConnRec
  <2> QED BY <1>2, <1>3, <1>4, <1>5, <2>1, <2>2, <2>4
<1>8. t \in Calls /\ t.c = b /\ t.fn = "connectCb" /\ t.ref
  BY <1>2 DEF Calls, Call, Functions
<1> HIDE DEF t
<1>9. s \in Seq(Calls) /\ DOMAIN s = {1} /\ s[1] = t
  BY <1>8, OneCall
<1>10. Fits(work[l], s)
  BY <1>2, <1>8, FitsOne DEF LastCalls, AboveRead, AboveMessage
<1> HIDE DEF s, f, ev
<1>11. MovesOn(l)
  BY <1>2 DEF MovesOn, LifeFns
<1>12. Steps(l, s, 0, {}) /\ OnceOK'
  <2>1. /\ \A i, j \in DOMAIN s : s[i].fn \in LifeFns /\ s[j].fn \in LifeFns => i = j
        /\ \A i \in DOMAIN s : s[i].fn \in LifeFns => s[i].c = Callee(l) /\ MovesOn(l)
    BY <1>8, <1>9 DEF LifeFns
  <2> QED BY <1>1, <1>2, <1>9, <2>1, StepsReturn DEF Base
<1>13. OwnCalls(l, s, {})
  BY <1>0, <1>2, <1>8, <1>9 DEF OwnCalls, DialFns
<1>14. StageOK' /\ OrderOK' /\ RestOK'
  BY <1>2, <1>9, <1>10, <1>12, StepsKeep DEF Base
<1>15. /\ f \notin DOMAIN poller[l].channels
       /\ \A g \in DOMAIN poller[l].channels : poller[l].channels[g] # b
  BY <1>2, <1>3, FreshChannel DEF f
<1>16. /\ poller' \in [Loops -> PollerRec]
       /\ \A k \in Loops :
             /\ PollerOK(poller'[k])
             /\ DOMAIN poller'[k].channels
                  = DOMAIN poller[k].channels \cup (IF k = l THEN {f} ELSE {})
             /\ \A g \in DOMAIN poller[k].channels :
                   /\ poller'[k].channels[g] = poller[k].channels[g]
                   /\ EntryOf(poller'[k], g) = EntryOf(poller[k], g)
       /\ poller'[l].channels[f] = b /\ EntryOf(poller'[l], f).fd = f
  <2>1. poller' = [poller EXCEPT ![l] = UpdateChannel(poller[l], b, f, ev)]
    BY <1>1, <1>3 DEF Update, f
  <2>2. f \in PollFds /\ b \in Channels
    BY <1>2, <1>4 DEF f, ConnRec, PollFds, Channels
  <2> QED BY <1>2, <1>6, <1>15, <2>1, <2>2, InsertPollers
<1>17. Types'
  <2>1. tasks' \in [Loops -> Seq(Calls)] /\ work' \in [Loops -> Seq(Calls)]
    BY <1>12 DEF Steps, Vectors
  <2> QED BY <1>1, <1>2, <1>7, <1>16, <2>1 DEF Base, Types
<1>18. InMap(b)' /\ Up(b)' /\ Made(b)' /\ Linked(b)'
  BY <1>1, <1>5, <1>7 DEF InMap, Up, Made, Linked, f
<1>19. \A c \in Conns : c # b => SameFields(c) /\ (InMap(c)' <=> InMap(c))
  BY <1>1, <1>7 DEF SameFields, InMap
<1>20. ASSUME NEW m \in Loops, NEW e \in Calls, Has(todo', m, e), e.c = b
       PROVE  CallOK(m, e)'
  <2>1. Has(Pop(todo, l), m, e) \/ (m = l /\ e = t)
    BY <1>9, <1>12, <1>20 DEF Steps
  <2>2. CASE Has(Pop(todo, l), m, e)
    <3>1. NoLife(Pop(todo, l), b) /\ Pop(todo, l) \in Vectors /\ todo \in Vectors /\ todo[l] # <<>>
      BY <1>0, <1>2, <1>11, MovedOn, TodoIs, VecPop DEF Base
    <3>2. e.fn \notin LifeFns
      BY <1>20, <2>2, <3>1, NoLifeHas
    <3>3. Has(todo, m, e)
      BY <2>2, <3>1, HasPop
    <3>4. CallOK(m, e)
      BY <1>2, <3>3 DEF Base, CallsOK
    <3>5. b \notin Dials
      BY <1>2, ServerAssumption
    <3> QED BY <1>5, <1>20, <3>2, <3>4, <3>5 DEF CallOK, DialFns, LifeFns, Made, Calls, Functions
  <2>3. CASE m = l /\ e = t
    BY <1>2, <1>7, <1>8, <1>18, <2>3 DEF CallOK, DialFns
  <2> QED BY <2>1, <2>2, <2>3
<1>21. MapOK'
  BY <1>1, <1>2, <1>7 DEF Base, MapOK, Types, Partial, f
<1>22. /\ \A c \in Conns : c # b => SameConn(c)
       /\ CallsOK' /\ ActiveOK' /\ ConnOK' /\ DialMapOK' /\ DialOK' /\ AddressOK' /\ FdOK' /\ UserOK'
  <2>1. Linked(b) /\ conn[b].state # "none" /\ ~Down(b)'
    BY <1>3, <1>5, <1>7 DEF Linked, Down
  <2>2. conn'[b].fd = conn[b].fd /\ conn'[b].loop = conn[b].loop /\ "in" \in conn'[b].events
    BY <1>3, <1>6, <1>7 DEF f
  <2> QED BY <1>0, <1>1, <1>2, <1>7, <1>9, <1>12, <1>13, <1>18, <1>19, <1>20, <1>21, <2>1, <2>2, OwnConnStep
<1>23. Reg(b)' /\ \A c \in Conns : c # b => (Reg(c)' <=> Reg(c))
  <2>1. \A c \in Conns : conn[c].loop \in Loops
    BY <1>4 DEF ConnRec
  <2>2. Reg(b)'
    BY <1>7, <1>16 DEF Reg
  <2>3. ASSUME NEW c \in Conns, c # b PROVE Reg(c)' <=> Reg(c)
    BY <1>7, <1>15, <1>16, <2>1, <2>3 DEF Reg
  <2> QED BY <2>2, <2>3
<1>24. UpReg'
  <2>1. \A c \in Conns : c # b => (Up(c)' <=> Up(c))
    BY <1>7 DEF Up
  <2> QED BY <1>2, <1>23, <2>1 DEF Base, UpReg
<1>25. Wired'
  <2>1. PollOK'
    <3> SUFFICES ASSUME NEW k \in Loops, NEW g \in DOMAIN poller'[k].channels PROVE Owned(k, g)'
      BY <1>16 DEF PollOK
    <3>1. CASE k = l /\ g = f
      <4>1. conn'[b].events # {}
        BY <1>6, <1>7
      <4> QED BY <1>2, <1>7, <1>16, <3>1, <4>1 DEF Owned
    <3>2. CASE ~(k = l /\ g = f)
      <4>1. g \in DOMAIN poller[k].channels
        BY <1>16, <3>2
      <4>2. Owned(k, g) /\ poller'[k].channels[g] = poller[k].channels[g]
            /\ EntryOf(poller'[k], g) = EntryOf(poller[k], g)
        BY <1>2, <1>16, <4>1 DEF Wired, PollOK
      <4>3. poller[k].channels[g] # b
        <5> SUFFICES ASSUME poller[k].channels[g] = b PROVE FALSE
          OBVIOUS
        <5>1. conn[b].loop = k
          BY <1>2, <4>2, ServerAssumption DEF Owned
        <5> QED BY <1>3, <1>15, <4>1, <5>1
      <4> QED BY <1>1, <1>7, <4>2, <4>3 DEF Owned
    <3> QED BY <3>1, <3>2
  <2>2. RegOK'
    <3>1. \A c \in Conns : c # b => (Made(c)' <=> Made(c)) /\ (Linked(c)' <=> Linked(c))
      BY <1>2, <1>22, ConnFrame DEF Base
    <3> QED BY <1>2, <1>18, <1>23, <3>1 DEF Wired, RegOK
  <2>3. WaitsOK'
    <3>1. connector.loop \in Loops
      BY <1>2 DEF Base, Types
    <3> QED BY <1>1, <1>2, <1>16, <3>1 DEF Wired, WaitsOK
  <2> QED BY <2>1, <2>2, <2>3 DEF Wired
<1> QED BY <1>12, <1>14, <1>17, <1>21, <1>22, <1>24, <1>25 DEF ServerInv, Base

(* removeConnectionInLoop: the functor that is queued holds the connection *)
(* in the place of the map.                                                *)
LEMMA RemoveConnectionInLoopKeeps ==
    ASSUME ServerInv, NEW l \in Loops, RemoveConnectionInLoop(l)
    PROVE  ServerInv'
<1>0. PICK b : b = Callee(l)
  OBVIOUS
<1> DEFINE t == Call("destroyConnection", b, TRUE)
           s == <<>>
           ts == {t}
           k == conn[b].loop
           f == conn[b].fd
<1>1. /\ Calling(l, "removeConnectionInLoop") /\ round' = round /\ Return(l, s)
      /\ conn' = conn /\ user' = user /\ left' = left /\ fault' = fault
      /\ dial' = dial /\ connector' = connector /\ poller' = poller
      /\ thread_pool_' = thread_pool_ /\ peer' = peer
  BY <1>0 DEF RemoveConnectionInLoop, outside, connectorVars
<1>2. /\ Base /\ Wired /\ Running /\ work[l] # <<>> /\ Head(work[l]).fn = "removeConnectionInLoop"
      /\ b \in Conns /\ CallOK(l, Head(work[l])) /\ work[l] \in Seq(Calls)
  BY <1>0, <1>1, CalleeOK DEF DialFns
<1>3. Down(b) /\ InMap(b)
  BY <1>0, <1>2 DEF CallOK, Callee
<1>4. conn \in [Conns -> ConnRec] /\ k \in Loops /\ connection_map_ \in Partial(SomeFds, Conns)
  BY <1>2 DEF Base, Types, ConnRec
<1>5. connection_map_' = Without(connection_map_, f) /\ Queue(k, t)
  BY <1>0, <1>3 DEF RemoveConnectionInLoop, InMap, Erase, DestroyFunctor
<1>6. t \in Calls /\ t.c = b /\ t.fn = "destroyConnection" /\ t.ref
  BY <1>2 DEF Calls, Call, Functions
<1> HIDE DEF t
<1>7. s \in Seq(Calls) /\ DOMAIN s = {} /\ Fits(work[l], s)
  BY NoCall
<1> HIDE DEF s, f, k
<1>8. MovesOn(l)
  BY <1>2 DEF MovesOn, LifeFns
<1>9. Steps(l, s, k, ts) /\ OnceOK'
  <2>1. Types /\ StageOK /\ OnceOK /\ \A i \in DOMAIN s : s[i].fn \notin LifeFns
    BY <1>2, <1>7 DEF Base
  <2> QED BY <1>0, <1>1, <1>2, <1>4, <1>5, <1>6, <1>7, <1>8, <2>1, StepsQueue
<1>10. \A x \in ts : x = t
  OBVIOUS
<1> HIDE DEF ts
<1>11. OwnCalls(l, s, ts)
  BY <1>0, <1>2, <1>6, <1>7, <1>10 DEF OwnCalls, DialFns
<1>12. StageOK' /\ OrderOK' /\ RestOK'
  <2>1. \A x \in ts : x.fn \in TaskFns
    BY <1>6, <1>10 DEF TaskFns
  <2> QED BY <1>2, <1>7, <1>9, <2>1, StepsKeep DEF Base
<1>13. /\ DOMAIN connection_map_' = DOMAIN connection_map_ \ {f}
       /\ \A g \in DOMAIN connection_map_' : connection_map_'[g] = connection_map_[g]
       /\ connection_map_' \in Partial(SomeFds, Conns)
  <2>1. connection_map_ \in [DOMAIN connection_map_ -> Conns] /\ DOMAIN connection_map_ \subseteq SomeFds
    BY <1>4 DEF Partial
  <2>2. PICK m : m = connection_map_'
    OBVIOUS
  <2>3. /\ DOMAIN m = DOMAIN connection_map_ \ {f}
        /\ \A g \in DOMAIN m : m[g] = connection_map_[g]
        /\ m \in [DOMAIN m -> Conns] /\ DOMAIN m \subseteq SomeFds
    BY <1>5, <2>1, <2>2 DEF Without
  <2> QED BY <2>2, <2>3, PartialIs
<1>14. Types'
  <2>1. tasks' \in [Loops -> Seq(Calls)] /\ work' \in [Loops -> Seq(Calls)]
    BY <1>9 DEF Steps, Vectors
  <2> QED BY <1>1, <1>2, <1>13, <2>1 DEF Base, Types
<1>15. ~InMap(b)' /\ Down(b)' /\ Made(b)' /\ Dying(b)' /\ Linked(b)' /\ Linked(b)
  <2>1. ~InMap(b)' /\ Down(b)' /\ Made(b)'
    BY <1>1, <1>3, <1>13 DEF InMap, Down, Made, f
  <2>2. Has(todo', k, t)
    BY <1>4, <1>6, <1>9 DEF Steps, ts
  <2>3. Dying(b)'
    BY <1>1, <1>6, <2>2 DEF Dying, k
  <2> QED BY <1>3, <2>1, <2>3 DEF Linked
<1>16. \A c \in Conns : c # b => SameFields(c) /\ (InMap(c)' <=> InMap(c))
  <2>1. \A c \in Conns : c # b => (InMap(c)' <=> InMap(c))
    BY <1>1, <1>3, <1>13 DEF InMap, f
  <2> QED BY <1>1, <2>1 DEF SameFields
<1>17. ASSUME NEW m \in Loops, NEW e \in Calls, Has(todo', m, e), e.c = b
       PROVE  CallOK(m, e)'
  <2>1. Has(Pop(todo, l), m, e) \/ (m = k /\ e = t)
    BY <1>7, <1>9, <1>10, <1>17 DEF Steps
  <2>2. CASE Has(Pop(todo, l), m, e)
    <3>1. NoLife(Pop(todo, l), b) /\ Pop(todo, l) \in Vectors /\ todo \in Vectors /\ todo[l] # <<>>
      BY <1>0, <1>2, <1>8, MovedOn, TodoIs, VecPop DEF Base
    <3>2. e.fn \notin LifeFns
      BY <1>17, <2>2, <3>1, NoLifeHas
    <3>3. Has(todo, m, e)
      BY <2>2, <3>1, HasPop
    <3>4. CallOK(m, e)
      BY <1>2, <3>3 DEF Base, CallsOK
    <3>5. b \notin Dials
      BY <1>2, ServerAssumption
    <3>6. Shared(b) => Shared(b)'
      BY <1>1 DEF Shared
    <3> QED BY <1>1, <1>3, <1>15, <1>17, <3>2, <3>4, <3>5, <3>6 DEF CallOK, DialFns, LifeFns, Up, Down
  <2>3. CASE m = k /\ e = t
    BY <1>1, <1>2, <1>6, <1>15, <2>3 DEF CallOK, DialFns, k
  <2> QED BY <2>1, <2>2, <2>3
<1>18. MapOK'
  BY <1>1, <1>2, <1>13 DEF Base, MapOK
<1>19. /\ \A c \in Conns : c # b => SameConn(c)
       /\ CallsOK' /\ ActiveOK' /\ ConnOK' /\ DialMapOK' /\ DialOK' /\ AddressOK' /\ FdOK' /\ UserOK'
  <2>1. conn[b].state # "none" /\ ~Up(b)' /\ conn'[b].fd = conn[b].fd /\ conn'[b].loop = conn[b].loop
    BY <1>1, <1>3 DEF Up, Down
  <2>2. conn'[b].events = {} /\ conn'[b].downs = 1
    BY <1>1, <1>2, <1>3 DEF Base, ConnOK
  <2> QED BY <1>0, <1>1, <1>2, <1>7, <1>9, <1>11, <1>15, <1>16, <1>17, <1>18, <2>1, <2>2, OwnConnStep
<1>20. UpReg'
  BY <1>1, <1>2 DEF Base, UpReg, Up, Reg
<1>21. Wired'
  <2>1. PollOK' /\ WaitsOK'
    <3>1. ASSUME NEW m \in Loops, NEW g \in DOMAIN poller[m].channels PROVE Owned(m, g)'
      <4>1. Owned(m, g)
        BY <1>2 DEF Wired, PollOK
      <4> QED BY <1>1, <4>1 DEF Owned
    <3>2. \A m \in Loops : PollerOK(poller'[m])
      BY <1>1, <1>2 DEF Wired, PollOK
    <3>3. PollOK'
      BY <1>1, <3>1, <3>2 DEF PollOK
    <3>4. WaitsOK'
      BY <1>1, <1>2 DEF Wired, WaitsOK
    <3> QED BY <3>3, <3>4
  <2>2. RegOK'
    <3>1. \A c \in Conns : c # b => (Made(c)' <=> Made(c)) /\ (Linked(c)' <=> Linked(c))
      BY <1>2, <1>19, ConnFrame DEF Base
    <3>2. \A c \in Conns : Reg(c)' <=> Reg(c)
      BY <1>1 DEF Reg
    <3>3. Made(b)
      BY <1>3 DEF Made
    <3> QED BY <1>2, <1>15, <3>1, <3>2, <3>3 DEF Wired, RegOK
  <2> QED BY <2>1, <2>2 DEF Wired
<1> QED BY <1>9, <1>12, <1>14, <1>18, <1>19, <1>20, <1>21 DEF ServerInv, Base

(* remove: nothing is left that touches the connection through a raw       *)
(* pointer.                                                                *)
LEMMA RemoveKeeps ==
    ASSUME ServerInv, NEW l \in Loops, Remove(l)
    PROVE  ServerInv'
<1>0. PICK b : b = Callee(l)
  OBVIOUS
<1> DEFINE s == <<>>
           f == conn[b].fd
<1>1. /\ Calling(l, "remove") /\ round' = round /\ tasks' = tasks /\ Return(l, s)
      /\ conn' = conn /\ user' = user /\ left' = left
      /\ fault' = IF poller'[l].crashed THEN "null" ELSE fault
      /\ poller' = [poller EXCEPT ![l] = RemoveChannel(poller[l], b, f)]
      /\ dial' = dial /\ connector' = connector /\ connection_map_' = connection_map_
      /\ thread_pool_' = thread_pool_ /\ peer' = peer
  BY <1>0 DEF Remove, serverVars, connectorVars
<1>2. /\ Base /\ Wired /\ Running /\ work[l] # <<>> /\ Head(work[l]).fn = "remove"
      /\ Head(work[l]) \in Calls /\ Has(todo, l, Head(work[l]))
      /\ b \in Conns /\ CallOK(l, Head(work[l])) /\ work[l] \in Seq(Calls)
  BY <1>0, <1>1, CalleeOK DEF DialFns
<1>3. Down(b) /\ ~InMap(b) /\ conn[b].loop = l /\ Made(b)
  BY <1>0, <1>2 DEF CallOK, Callee, DialFns, Made
<1>4. conn \in [Conns -> ConnRec]
  BY <1>2 DEF Base, Types
<1>5. Len(work[l]) = 1
  <2>1. 1 \in DOMAIN work[l] /\ work[l][1] = Head(work[l]) /\ Ordered(work[l])
    BY <1>2 DEF Base, OrderOK
  <2> QED BY <1>2, <2>1 DEF Ordered, LastCalls
<1>6. Linked(b) /\ Reg(b)
  <2>1. Linked(b)
    BY <1>0, <1>2, <1>3 DEF Dying, Callee, Linked
  <2> QED BY <1>2, <1>3, <2>1 DEF Wired, RegOK
<1>7. s \in Seq(Calls) /\ DOMAIN s = {} /\ Fits(work[l], s)
  BY NoCall
<1>8. \A i \in DOMAIN work'[l] : FALSE
  <2>1. work' = [work EXCEPT ![l] = s \o Tail(work[l])]
    BY <1>1 DEF Return
  <2>2. Tail(work[l]) \in Seq(Calls) /\ Len(Tail(work[l])) = 0 /\ Len(s) = 0
    BY <1>2, <1>5, <1>7
  <2>3. work \in [Loops -> Seq(Calls)]
    BY <1>2 DEF Base, Types
  <2>4. work'[l] = s \o Tail(work[l])
    BY <2>1, <2>3
  <2> HIDE DEF s
  <2>5. s \o Tail(work[l]) \in Seq(Calls) /\ Len(s \o Tail(work[l])) = 0
    BY <1>7, <2>2
  <2> QED BY <2>4, <2>5
<1> HIDE DEF s
<1>9. MovesOn(l)
  BY <1>2 DEF MovesOn, LifeFns
<1>10. Steps(l, s, 0, {}) /\ OnceOK'
  <2>1. Types /\ StageOK /\ OnceOK /\ \A i \in DOMAIN s : FALSE
    BY <1>2, <1>7 DEF Base
  <2> QED BY <1>1, <1>2, <1>7, <2>1, StepsReturn
<1>11. OwnCalls(l, s, {})
  BY <1>0, <1>2, <1>7 DEF OwnCalls, DialFns
<1>12. StageOK' /\ OrderOK' /\ RestOK'
  BY <1>2, <1>7, <1>10, StepsKeep DEF Base
<1>13. f \in DOMAIN poller[l].channels /\ poller[l].channels[f] = b
  BY <1>3, <1>6 DEF Reg
<1> HIDE DEF f
<1> DEFINE Gone == \A k \in Loops :
                      /\ PollerOK(poller'[k])
                      /\ DOMAIN poller'[k].channels
                           = DOMAIN poller[k].channels \ (IF k = l THEN {f} ELSE {})
                      /\ \A g \in DOMAIN poller'[k].channels :
                            /\ poller'[k].channels[g] = poller[k].channels[g]
                            /\ EntryOf(poller'[k], g) = EntryOf(poller[k], g)
<1>14. /\ poller' \in [Loops -> PollerRec]
       /\ \/ /\ poller'[l].crashed
             /\ \A k \in Loops : poller'[k].channels = poller[k].channels
          \/ Gone
  <2>1. poller' = [poller EXCEPT ![l] = RemoveChannel(poller[l], poller[l].channels[f], f)]
    BY <1>1, <1>13 DEF f
  <2> QED BY <1>2, <1>13, <2>1, RemovePollers
<1> HIDE DEF Gone
<1>15. Types'
  <2>1. tasks' \in [Loops -> Seq(Calls)] /\ work' \in [Loops -> Seq(Calls)]
    BY <1>10 DEF Steps, Vectors
  <2> QED BY <1>1, <1>2, <1>14, <2>1 DEF Base, Types
<1>16. NoLife(Pop(todo, l), b) /\ Pop(todo, l) \in Vectors /\ todo \in Vectors /\ todo[l] # <<>>
  BY <1>0, <1>2, <1>9, MovedOn, TodoIs, VecPop DEF Base
<1>17. \A m \in Loops, e \in Calls : Has(todo', m, e) => Has(Pop(todo, l), m, e) /\ Has(todo, m, e)
  <2>1. \A m \in Loops, e \in Calls : Has(todo', m, e) => Has(Pop(todo, l), m, e)
    BY <1>7, <1>10 DEF Steps
  <2> QED BY <1>16, <2>1, HasPop
<1>18. \A m \in Loops, e \in Calls : Has(todo', m, e) /\ e.c = b => e.fn \notin LifeFns
  BY <1>16, <1>17, NoLifeHas
<1>19. ~InMap(b)' /\ Down(b)' /\ Made(b)' /\ ~Dying(b)' /\ ~Linked(b)'
  <2>1. ~InMap(b)' /\ Down(b)' /\ Made(b)'
    BY <1>1, <1>3 DEF InMap, Down, Made
  <2>2. ~Dying(b)'
    BY <1>1, <1>3, <1>18 DEF Dying, LifeFns
  <2> QED BY <2>1, <2>2 DEF Linked
<1>20. \A c \in Conns : c # b => SameFields(c) /\ (InMap(c)' <=> InMap(c))
  BY <1>1 DEF SameFields, InMap
<1>21. ASSUME NEW m \in Loops, NEW e \in Calls, Has(todo', m, e), e.c = b
       PROVE  CallOK(m, e)'
  <2>1. CallOK(m, e) /\ e.fn \notin LifeFns
    BY <1>2, <1>17, <1>18, <1>21 DEF Base, CallsOK
  <2>2. b \notin Dials
    BY <1>2, ServerAssumption
  <2>3. Shared(b) => Shared(b)'
    BY <1>1 DEF Shared
  <2>4. e.fn \notin {"handleWrite", "handleError", "shutdownInLoop"}
    <3> SUFFICES ASSUME e.fn \in {"handleWrite", "handleError", "shutdownInLoop"} PROVE FALSE
      OBVIOUS
    <3>1. m = l
      BY <1>3, <1>21, <2>1 DEF CallOK, DialFns
    <3>2. ~Has(rest', l, e)
      BY <1>12 DEF RestOK, TaskFns
    <3>3. ~Has(work', l, e)
      BY <1>8 DEF Has
    <3> QED BY <1>12, <1>15, <1>21, <3>1, <3>2, <3>3, TodoIsNext DEF TodoSplit
  <2> QED BY <1>1, <1>3, <1>19, <1>21, <2>1, <2>2, <2>3, <2>4 DEF CallOK, DialFns, LifeFns, Up, Down
<1>22. MapOK'
  BY <1>1, <1>2 DEF Base, MapOK
<1>23. /\ \A c \in Conns : c # b => SameConn(c)
       /\ CallsOK' /\ ActiveOK' /\ ConnOK' /\ DialMapOK' /\ DialOK' /\ AddressOK' /\ FdOK' /\ UserOK'
  <2>1. conn[b].state # "none" /\ ~Up(b)' /\ conn'[b].fd = conn[b].fd /\ conn'[b].loop = conn[b].loop
    BY <1>1, <1>3 DEF Up, Down
  <2>2. conn'[b].events = {} /\ conn'[b].downs = 1
    BY <1>1, <1>2, <1>3 DEF Base, ConnOK
  <2> QED BY <1>0, <1>1, <1>2, <1>7, <1>10, <1>11, <1>19, <1>20, <1>21, <1>22, <2>1, <2>2, OwnConnStep
<1>24. \A c \in Conns : conn[c].loop \in Loops
  BY <1>4 DEF ConnRec
<1>25. Gone => ~Reg(b)' /\ \A c \in Conns : c # b => (Reg(c)' <=> Reg(c))
  <2> SUFFICES ASSUME Gone PROVE ~Reg(b)' /\ \A c \in Conns : c # b => (Reg(c)' <=> Reg(c))
    OBVIOUS
  <2>1. ~Reg(b)'
    BY <1>1, <1>3 DEF Reg, Gone, f
  <2>2. ASSUME NEW c \in Conns, c # b PROVE Reg(c)' <=> Reg(c)
    BY <1>1, <1>13, <1>24, <2>2 DEF Reg, Gone
  <2> QED BY <2>1, <2>2
<1>26. UpReg'
  <2>1. ~Up(b)' /\ \A c \in Conns : Up(c)' <=> Up(c)
    BY <1>1, <1>3 DEF Up, Down
  <2>2. CASE Gone
    BY <1>2, <1>25, <2>1, <2>2 DEF Base, UpReg
  <2>3. CASE \A k \in Loops : poller'[k].channels = poller[k].channels
    <3>1. \A c \in Conns : Reg(c)' <=> Reg(c)
      BY <1>1, <1>24, <2>3 DEF Reg
    <3> QED BY <1>2, <2>1, <3>1 DEF Base, UpReg
  <2> QED BY <1>14, <2>2, <2>3
<1>27. Running' => Wired'
  <2> SUFFICES ASSUME Running' PROVE Wired'
    OBVIOUS
  <2>1. Gone
    BY <1>1, <1>14 DEF Running
  <2>2. PollOK'
    <3> SUFFICES ASSUME NEW k \in Loops, NEW g \in DOMAIN poller'[k].channels PROVE Owned(k, g)'
      BY <2>1 DEF PollOK, Gone
    <3>1. g \in DOMAIN poller[k].channels
      BY <2>1 DEF Gone
    <3>2. Owned(k, g) /\ poller'[k].channels[g] = poller[k].channels[g]
          /\ EntryOf(poller'[k], g) = EntryOf(poller[k], g)
      BY <1>2, <2>1, <3>1 DEF Wired, PollOK, Gone
    <3> QED BY <1>1, <3>2 DEF Owned
  <2>3. RegOK'
    <3>1. \A c \in Conns : c # b => (Made(c)' <=> Made(c)) /\ (Linked(c)' <=> Linked(c))
      BY <1>2, <1>23, ConnFrame DEF Base
    <3> QED BY <1>2, <1>19, <1>25, <2>1, <3>1 DEF Wired, RegOK
  <2>4. WaitsOK'
    <3>1. connector.loop \in Loops /\ connector.conn_map \in Partial(Fds, Dials)
      BY <1>2 DEF Base, Types
    <3>2. \A g \in DOMAIN connector.conn_map : connector.conn_map[g] # b
      BY <1>2, <3>1, ServerAssumption DEF Partial
    <3>3. ASSUME NEW g \in DOMAIN connector.conn_map
          PROVE  /\ g \in DOMAIN poller'[connector.loop].channels
                 /\ poller'[connector.loop].channels[g] = connector.conn_map[g]
      <4>1. g \in DOMAIN poller[connector.loop].channels
            /\ poller[connector.loop].channels[g] = connector.conn_map[g]
        BY <1>2, <3>3 DEF Wired, WaitsOK
      <4>2. ~(connector.loop = l /\ g = f)
        BY <1>13, <3>2, <4>1
      <4> QED BY <2>1, <3>1, <4>1, <4>2 DEF Gone
    <3> QED BY <1>1, <3>3 DEF WaitsOK
  <2> QED BY <2>2, <2>3, <2>4 DEF Wired
<1> QED BY <1>10, <1>12, <1>15, <1>22, <1>23, <1>26, <1>27 DEF ServerInv, Base

-----------------------------------------------------------------------------
(* Steps of the loops and of others that leave every object as it is.      *)
StaysPut ==
    /\ conn' = conn /\ connection_map_' = connection_map_ /\ thread_pool_' = thread_pool_
    /\ connector' = connector /\ dial' = dial /\ poller' = poller /\ fault' = fault
    /\ left'.fails = left.fails

(* Only what is to be called, the rounds and the users are to be looked at *)
(* then.                                                                   *)
LEMMA FrameStep ==
    ASSUME ServerInv, Running, StaysPut,
           \A m \in Loops, e \in Calls : Has(todo, m, e) => Has(todo', m, e),
           \A m \in Loops, e \in Calls : e.fn \in LastCalls /\ Has(todo', m, e) => Has(todo, m, e),
           \A m \in Loops, e \in Calls : Has(todo', m, e) =>
              CallOK(m, e)' \/ (Has(todo, m, e) /\ (Shared(e.c) => Shared(e.c)')),
           Types', StageOK', OrderOK', RestOK', OnceOK', ActiveOK', UserOK'
    PROVE  ServerInv'
<1>1. Base /\ Wired
  BY DEF ServerInv
<1>2. \A c \in Conns : Dying(c)' <=> Dying(c)
  <2>1. \A c \in Conns : conn[c].loop \in Loops
    BY <1>1 DEF Base, Types, ConnRec
  <2> QED BY <2>1 DEF StaysPut, Dying, LastCalls
<1>3. \A c \in Conns : SameConn(c)
  BY <1>2 DEF StaysPut, SameConn, InMap
<1>4. \A d \in Dials : SameDial(d)
  BY DEF StaysPut, SameDial, Waits
<1>5. CallsOK'
  <2> SUFFICES ASSUME NEW m \in Loops, NEW e \in Calls, Has(todo', m, e) PROVE CallOK(m, e)'
    BY DEF CallsOK
  <2>1. CASE Has(todo, m, e) /\ (Shared(e.c) => Shared(e.c)')
    <3>1. CallOK(m, e)
      BY <1>1, <2>1 DEF Base, CallsOK
    <3> QED BY <1>3, <1>4, <2>1, <3>1, CallFrame DEF StaysPut
  <2> QED BY <2>1
<1>6. \A d \in Dials : Under({"handleConnect", "newConnection"}, d)
                         => Under({"handleConnect", "newConnection"}, d)'
  BY DEF Under
<1>7. ASSUME NEW c \in Conns
      PROVE  /\ Up(c)' => InMap(c)' /\ conn'[c].downs = 0 /\ "in" \in conn'[c].events
             /\ Down(c)' => conn'[c].events = {} /\ conn'[c].downs = 1
             /\ ~Made(c)' => conn'[c].events = {} /\ conn'[c].downs = 0
             /\ conn'[c].state = "connecting" => InMap(c)'
             /\ conn'[c].state = "none" => ~InMap(c)'
             /\ Linked(c)' <=> Linked(c)
  BY <1>1, <1>3, ConnFrame DEF Base
<1>8. ConnOK'
  BY <1>7 DEF ConnOK
<1>9. MapOK' /\ DialMapOK' /\ AddressOK'
  BY <1>1 DEF Base, StaysPut, MapOK, DialMapOK, AddressOK
<1>10. DialOK'
  BY <1>1, <1>4, <1>6 DEF Base, StaysPut, DialOK, SameDial, OpenDial
<1>11. FdOK'
  <2>1. \A d \in Dials : OpenDial(d)' <=> OpenDial(d)
    BY DEF StaysPut, OpenDial
  <2> QED BY <1>1, <1>7, <2>1 DEF Base, StaysPut, FdOK
<1>12. Wired' /\ UpReg'
  <2>1. SameMaps /\ SamePollers
    BY <1>1, PollersStay DEF StaysPut, SameMaps
  <2> QED BY <1>1, <1>3, <2>1, WiredQuiet
<1> QED BY <1>5, <1>8, <1>9, <1>10, <1>11, <1>12 DEF ServerInv, Base

(* What a channel that is still to be handled relies on. *)
ActiveAt(l, c) ==
    /\ c \in Conns =>
          /\ Up(c) /\ conn[c].loop = l
          /\ \A j \in DOMAIN work[l] : work[l][j].c # c
    /\ c \in Dials =>
          /\ Waits(c) /\ dial[c].sock \in {"connected", "refused"}
          /\ l = connector.loop /\ ~Under({"handleConnect"}, c)

(* ActiveOK, one channel at a time ... *)
LEMMA ActiveIs ==
    ASSUME ActiveOK, NEW l \in Loops, NEW i \in DOMAIN round[l].active, NEW c,
           c = round[l].active[i].c
    PROVE  /\ \A j \in DOMAIN round[l].active : round[l].active[j].c = c => i = j
           /\ ActiveAt(l, c)
  BY DEF ActiveOK, ActiveAt

(* ... and after a step. *)
LEMMA ActiveNext ==
    ASSUME \A l \in Loops : \A i \in DOMAIN round'[l].active : \A c :
              c = round'[l].active[i].c =>
                 /\ \A j \in DOMAIN round'[l].active : round'[l].active[j].c = c => i = j
                 /\ ActiveAt(l, c)'
    PROVE  ActiveOK'
  BY DEF ActiveOK, ActiveAt, Up, Waits, Under

(* Nobody moved. *)
LEMMA ActiveStays ==
    ASSUME ActiveOK, round' = round, work' = work, conn' = conn, dial' = dial,
           connector' = connector,
           \A d : Under({"handleConnect"}, d)' <=> Under({"handleConnect"}, d)
    PROVE  ActiveOK'
<1>1. ASSUME NEW l \in Loops, NEW i \in DOMAIN round'[l].active, NEW c,
             c = round'[l].active[i].c
      PROVE  /\ \A j \in DOMAIN round'[l].active : round'[l].active[j].c = c => i = j
             /\ ActiveAt(l, c)'
  <2>1. i \in DOMAIN round[l].active /\ c = round[l].active[i].c
    BY <1>1
  <2>2. /\ \A j \in DOMAIN round[l].active : round[l].active[j].c = c => i = j
        /\ ActiveAt(l, c)
    BY ONLY ActiveOK, l \in Loops, <2>1, ActiveIs
  <2>3. ActiveAt(l, c)'
    BY <2>2 DEF ActiveAt, Up, Waits
  <2> QED BY <2>2, <2>3
<1> QED BY <1>1, ActiveNext

(* The peers change nothing that is relied on. *)
LEMMA PeersKeep ==
    ASSUME ServerInv, NEW c \in Conns, PeerSend(c) \/ PeerClose(c)
    PROVE  ServerInv'
<1>1. /\ Running /\ conn' = conn /\ user' = user /\ tasks' = tasks /\ round' = round /\ work' = work
      /\ connection_map_' = connection_map_ /\ thread_pool_' = thread_pool_
      /\ connector' = connector /\ dial' = dial /\ poller' = poller /\ fault' = fault
  BY DEF PeerSend, PeerClose, serverVars, connectorVars
<1>2. /\ Types /\ StageOK /\ OrderOK /\ RestOK /\ OnceOK /\ ActiveOK /\ UserOK
  BY DEF ServerInv, Base
<1>3. /\ peer' \in [Conns -> [closed : BOOLEAN, data : BOOLEAN]]
      /\ left' \in [data : Int, calls : Int, clients : Int, fails : {0, 1}]
      /\ left'.fails = left.fails
  <2>1. /\ peer \in [Conns -> [closed : BOOLEAN, data : BOOLEAN]]
        /\ left \in [data : Int, calls : Int, clients : Int, fails : {0, 1}]
    BY <1>2 DEF Types
  <2>2. CASE PeerSend(c)
    <3>1. /\ peer' = [peer EXCEPT ![c].data = TRUE]
          /\ left' = [left EXCEPT !.data = @ - 1]
      BY <2>2 DEF PeerSend
    <3>2. peer' \in [Conns -> [closed : BOOLEAN, data : BOOLEAN]]
      BY <2>1, <3>1
    <3> QED BY <2>1, <3>1, <3>2
  <2>3. CASE PeerClose(c)
    <3>1. peer' = [peer EXCEPT ![c].closed = TRUE] /\ left' = left
      BY <2>3 DEF PeerClose
    <3> QED BY <2>1, <3>1
  <2> QED BY <2>2, <2>3
<1>4. rest' = rest /\ todo' = todo
  BY <1>1 DEF rest, todo
<1>5. Types' /\ StageOK' /\ OrderOK' /\ RestOK' /\ OnceOK' /\ UserOK'
  BY <1>1, <1>2, <1>3, <1>4 DEF Types, StageOK, OrderOK, RestOK, OnceOK, UserOK, Made, Up, Down
<1>6. ActiveOK'
  <2>1. \A d : Under({"handleConnect"}, d)' <=> Under({"handleConnect"}, d)
    BY <1>4 DEF Under
  <2> QED BY <1>1, <1>2, <2>1, ActiveStays DEF ServerInv, Base
<1>7. StaysPut
  BY <1>1, <1>3 DEF StaysPut
<1>8. \A x : Shared(x)' <=> Shared(x)
  BY <1>1 DEF Shared
<1> QED BY <1>1, <1>4, <1>5, <1>6, <1>7, <1>8, FrameStep

(* A loop that goes on to its next task, or round: what it has to call is  *)
(* the same.                                                               *)
LEMMA TurnStep ==
    ASSUME ServerInv, Running, StaysPut, NEW l \in Loops, todo' = todo,
           user' = user, left' = left, peer' = peer,
           round' \in [Loops -> Rounds], tasks' \in [Loops -> Seq(Calls)],
           work' \in [Loops -> Seq(Calls)],
           \A m \in Loops : m # l => round'[m] = round[m] /\ work'[m] = work[m],
           round'[l].active = <<>>, StageOK', Ordered(work'[l]),
           \A m \in Loops, e \in Calls : Has(rest', m, e) => Has(rest, m, e)
    PROVE  ServerInv'
<1>1. /\ Types /\ StageOK /\ OrderOK /\ RestOK /\ OnceOK /\ ActiveOK /\ UserOK
  BY DEF ServerInv, Base
<1>2. Types'
  BY <1>1 DEF Types, StaysPut
<1>3. OrderOK'
  BY <1>1 DEF OrderOK
<1>4. RestOK'
  BY <1>1 DEF RestOK
<1>5. OnceOK'
  BY <1>1 DEF OnceOK
<1>6. ActiveOK'
  <2>1. \A c : /\ Up(c)' <=> Up(c) /\ conn'[c] = conn[c]
    BY DEF StaysPut, Up
  <2>2. \A d : /\ Waits(d)' <=> Waits(d)
               /\ dial'[d] = dial[d] /\ (Under({"handleConnect"}, d)' <=> Under({"handleConnect"}, d))
    BY DEF StaysPut, Waits, Under
  <2>3. DOMAIN round'[l].active = {} /\ connector' = connector /\ conn' = conn
    BY DEF StaysPut
  <2> SUFFICES ASSUME NEW m \in Loops, NEW i \in DOMAIN round'[m].active,
                      NEW c, c = round'[m].active[i].c
               PROVE  /\ \A j \in DOMAIN round'[m].active : round'[m].active[j].c = c => i = j
                      /\ ActiveAt(m, c)'
    BY ActiveNext
  <2>4. m # l /\ round'[m] = round[m] /\ work'[m] = work[m]
    BY <2>3
  <2>5. /\ \A j \in DOMAIN round[m].active : round[m].active[j].c = c => i = j
        /\ ActiveAt(m, c)
    BY <1>1, <2>4, ActiveIs
  <2> QED BY <2>1, <2>2, <2>3, <2>4, <2>5 DEF ActiveAt
<1>7. UserOK'
  BY <1>1 DEF UserOK, StaysPut, Made, Up, Down
<1>8. \A x : Shared(x)' <=> Shared(x)
  BY DEF Shared
<1> QED BY <1>2, <1>3, <1>4, <1>5, <1>6, <1>7, <1>8, FrameStep

(* The end of a vector of tasks, and the whole of it. *)
LEMMA SubSeqEnds ==
    ASSUME NEW b \in Seq(Calls)
    PROVE  /\ SubSeq(b, 1, Len(b)) = b
           /\ SubSeq(b, Len(b) + 1, Len(b)) = <<>>
           /\ \A n \in 1 .. Len(b) :
                 SubSeq(b, n, Len(b)) = <<b[n]>> \o SubSeq(b, n + 1, Len(b))
<1>1. ASSUME NEW m \in 1 .. Len(b) + 1
      PROVE  /\ SubSeq(b, m, Len(b)) \in Seq(Calls)
             /\ Len(SubSeq(b, m, Len(b))) = Len(b) - m + 1
             /\ \A i \in 1 .. Len(b) - m + 1 : SubSeq(b, m, Len(b))[i] = b[m + i - 1]
  <2>1. \A i \in m .. Len(b) : b[i] \in Calls
    OBVIOUS
  <2> QED BY <2>1, SubSeqProperties
<1>2. SubSeq(b, 1, Len(b)) = b
  <2>1. /\ SubSeq(b, 1, Len(b)) \in Seq(Calls) /\ Len(SubSeq(b, 1, Len(b))) = Len(b)
        /\ \A i \in 1 .. Len(b) : SubSeq(b, 1, Len(b))[i] = b[i]
    BY <1>1
  <2> QED BY <2>1, SeqEqual
<1>3. SubSeq(b, Len(b) + 1, Len(b)) = <<>>
  BY <1>1, EmptySeq
<1>4. ASSUME NEW n \in 1 .. Len(b)
      PROVE  SubSeq(b, n, Len(b)) = <<b[n]>> \o SubSeq(b, n + 1, Len(b))
  <2> DEFINE s == SubSeq(b, n, Len(b))
             t == SubSeq(b, n + 1, Len(b))
             u == <<b[n]>>
  <2>1. /\ s \in Seq(Calls) /\ Len(s) = Len(b) - n + 1
        /\ \A i \in 1 .. Len(b) - n + 1 : s[i] = b[n + i - 1]
    BY <1>1
  <2>2. /\ t \in Seq(Calls) /\ Len(t) = Len(b) - n
        /\ \A i \in 1 .. Len(b) - n : t[i] = b[n + i]
    BY <1>1
  <2>3. u \in Seq(Calls) /\ Len(u) = 1 /\ u[1] = b[n]
    OBVIOUS
  <2> HIDE DEF s, t, u
  <2>4. /\ u \o t \in Seq(Calls) /\ Len(u \o t) = Len(b) - n + 1
        /\ (u \o t)[1] = b[n]
        /\ \A i \in 2 .. Len(b) - n + 1 : (u \o t)[i] = t[i - 1]
    <3>0. Len(b) \in Nat /\ n \in Int /\ 1 <= n /\ n <= Len(b)
      OBVIOUS
    <3>1. /\ u \o t \in Seq(Calls) /\ Len(u \o t) = Len(u) + Len(t)
          /\ \A i \in 1 .. Len(u) + Len(t) :
                (u \o t)[i] = IF i <= Len(u) THEN u[i] ELSE t[i - Len(u)]
      BY <2>2, <2>3, ConcatProperties
    <3>2. (u \o t)[1] = u[1]
      BY <2>2, <2>3, <3>0, <3>1
    <3>3. \A i \in 2 .. 1 + Len(t) : (u \o t)[i] = t[i - 1]
      BY <2>2, <2>3, <3>0, <3>1
    <3>4. Len(u) + Len(t) = Len(b) - n + 1 /\ 1 + Len(t) = Len(b) - n + 1
      BY <2>2, <2>3, <3>0
    <3> QED BY <2>3, <3>1, <3>2, <3>3, <3>4
  <2>5. ASSUME NEW i \in 1 .. Len(s) PROVE s[i] = (u \o t)[i]
    <3>1. CASE i = 1
      <4>1. 1 \in 1 .. Len(b) - n + 1 /\ n + 1 - 1 = n
        BY <2>1, <3>1
      <4>2. s[1] = b[n]
        BY <2>1, <4>1
      <4> QED BY <2>4, <3>1, <4>2
    <3>2. CASE i # 1
      <4>0. Len(b) \in Nat /\ n \in Int
        OBVIOUS
      <4>1. PICK j : j = i - 1
        OBVIOUS
      <4>2. i \in 2 .. Len(b) - n + 1 /\ i \in 1 .. Len(b) - n + 1
        BY <2>1, <3>2, <4>0
      <4>3. j \in 1 .. Len(b) - n /\ n + i - 1 = n + j
        BY <4>0, <4>1, <4>2
      <4>4. (u \o t)[i] = t[j]
        BY <2>4, <4>1, <4>2
      <4>5. t[j] = b[n + j]
        BY <2>2, <4>3
      <4>6. s[i] = b[n + i - 1]
        BY <2>1, <4>2
      <4> QED BY <4>3, <4>4, <4>5, <4>6
    <3> QED BY <3>1, <3>2
  <2>6. s = u \o t
    BY <2>1, <2>4, <2>5, SeqEqual
  <2> QED BY <2>6 DEF s, t, u
<1> QED BY <1>2, <1>3, <1>4

(* doTheTasks moves the vector, and makes no call. *)
LEMMA SwapTasksKeeps ==
    ASSUME ServerInv, NEW l \in Loops, SwapTasks(l)
    PROVE  ServerInv'
<1> DEFINE r == [stage |-> IF tasks[l] = <<>> THEN "poll" ELSE "tasks",
                 batch |-> tasks[l], next |-> 1, active |-> <<>>]
<1>1. /\ Running /\ round[l].stage = "handle" /\ work[l] = <<>>
      /\ round' = [round EXCEPT ![l] = r]
      /\ tasks' = [tasks EXCEPT ![l] = <<>>] /\ work' = work
      /\ user' = user /\ left' = left /\ peer' = peer
  BY DEF SwapTasks, outside
<1>2. StaysPut
  BY DEF SwapTasks, outside, serverVars, connectorVars, StaysPut
<1>3. Types /\ StageOK
  BY DEF ServerInv, Base
<1>4. /\ round \in [Loops -> Rounds] /\ tasks \in [Loops -> Seq(Calls)] /\ work \in [Loops -> Seq(Calls)]
  BY <1>3 DEF Types
<1>5. r \in Rounds /\ r.batch = tasks[l] /\ r.next = 1 /\ r.active = <<>>
      /\ r.stage \in {"poll", "tasks"} /\ (r.stage # "tasks" => r.batch = <<>>)
  BY <1>4 DEF Rounds
<1> HIDE DEF r
<1>6. /\ round' \in [Loops -> Rounds] /\ tasks' \in [Loops -> Seq(Calls)]
      /\ round'[l] = r /\ tasks'[l] = <<>>
      /\ \A m \in Loops : m # l => round'[m] = round[m] /\ tasks'[m] = tasks[m]
  BY <1>1, <1>4, <1>5
<1>7. rest[l] = tasks[l]
  <2>1. round[l].batch = <<>> /\ round[l].next \in 1 .. Len(round[l].batch) + 1
    BY <1>1, <1>3 DEF StageOK
  <2>2. round[l].next = 1 /\ Len(<<>>) = 0
    BY <2>1
  <2>3. SubSeq(<<>>, Len(<<>>) + 1, Len(<<>>)) = <<>>
    BY SubSeqEnds, NoCall
  <2>4. SubSeq(round[l].batch, round[l].next, Len(round[l].batch)) = <<>>
    BY <2>1, <2>2, <2>3
  <2>5. rest[l] = SubSeq(round[l].batch, round[l].next, Len(round[l].batch)) \o tasks[l]
    BY DEF rest
  <2>6. tasks[l] \in Seq(Calls)
    BY <1>4
  <2>7. rest[l] = <<>> \o tasks[l]
    BY <2>4, <2>5
  <2> QED BY <2>6, <2>7, ConcatEmptySeq
<1>8. rest'[l] = tasks[l]
  <2>1. SubSeq(tasks[l], 1, Len(tasks[l])) = tasks[l]
    BY <1>4, SubSeqEnds
  <2>2. rest'[l] = SubSeq(tasks[l], 1, Len(tasks[l])) \o <<>>
    BY <1>5, <1>6 DEF rest
  <2> QED BY <1>4, <2>1, <2>2
<1>9. rest' = rest
  <2>1. \A m \in Loops : rest'[m] = rest[m]
    BY <1>6, <1>7, <1>8 DEF rest
  <2> QED BY <2>1 DEF rest
<1>10. todo' = todo
  BY <1>1, <1>9 DEF todo
<1>11. StageOK'
  <2>1. /\ round'[l].next \in 1 .. Len(round'[l].batch) + 1
        /\ round'[l].stage # "tasks" => round'[l].batch = <<>>
        /\ round'[l].stage # "handle" => round'[l].active = <<>>
        /\ round'[l].stage = "poll" => work'[l] = <<>>
    BY <1>1, <1>4, <1>5, <1>6
  <2> QED BY <1>1, <1>3, <1>6, <2>1 DEF StageOK
<1>12. Ordered(work'[l])
  BY <1>1, NoCall
<1> QED BY <1>1, <1>2, <1>4, <1>5, <1>6, <1>9, <1>10, <1>11, <1>12, TurnStep

(* A task is called. *)
LEMMA RunTaskKeeps ==
    ASSUME ServerInv, NEW l \in Loops, RunTask(l)
    PROVE  ServerInv'
<1> DEFINE b == round[l].batch
           n == round[l].next
           e == b[n]
           v == SubSeq(b, n + 1, Len(b))
<1>1. /\ Running /\ round[l].stage = "tasks" /\ work[l] = <<>> /\ n <= Len(b)
      /\ round' = [round EXCEPT ![l].next = n + 1]
      /\ work' = [work EXCEPT ![l] = <<e>>] /\ tasks' = tasks
      /\ user' = user /\ left' = left /\ peer' = peer
  BY DEF RunTask, outside
<1>2. StaysPut
  BY DEF RunTask, outside, serverVars, connectorVars, StaysPut
<1>3. Types /\ StageOK /\ RestOK
  BY DEF ServerInv, Base
<1>4. /\ round \in [Loops -> Rounds] /\ tasks \in [Loops -> Seq(Calls)] /\ work \in [Loops -> Seq(Calls)]
  BY <1>3 DEF Types
<1>5. b \in Seq(Calls) /\ n \in 1 .. Len(b) /\ e \in Calls /\ round[l].active = <<>>
  <2>1. b \in Seq(Calls) /\ n \in Nat
    BY <1>4 DEF Rounds
  <2>2. n \in 1 .. Len(b) + 1 /\ round[l].active = <<>>
    BY <1>1, <1>3 DEF StageOK
  <2>3. n \in 1 .. Len(b)
    BY <1>1, <2>1, <2>2
  <2> QED BY <2>1, <2>2, <2>3
<1>6. /\ round' \in [Loops -> Rounds] /\ work' \in [Loops -> Seq(Calls)]
      /\ work'[l] = <<e>>
      /\ round'[l].batch = b /\ round'[l].next = n + 1 /\ round'[l].active = <<>>
      /\ round'[l].stage = "tasks"
      /\ \A m \in Loops : m # l => round'[m] = round[m] /\ work'[m] = work[m]
  <2>1. n + 1 \in Nat /\ <<e>> \in Seq(Calls)
    BY <1>5
  <2>2. round' = [round EXCEPT ![l] = [round[l] EXCEPT !.next = n + 1]]
    BY <1>1, <1>4
  <2>3. [round[l] EXCEPT !.next = n + 1] \in Rounds
    BY <1>4, <2>1 DEF Rounds
  <2>4. round' \in [Loops -> Rounds] /\ round'[l] = [round[l] EXCEPT !.next = n + 1]
    BY <1>4, <2>2, <2>3
  <2>5. round'[l].batch = b /\ round'[l].next = n + 1 /\ round'[l].active = <<>> /\ round'[l].stage = "tasks"
    BY <1>1, <1>4, <1>5, <2>4 DEF Rounds
  <2> QED BY <1>1, <1>4, <2>1, <2>2, <2>4, <2>5
<1>7. v \in Seq(Calls)
  <2>1. \A i \in n + 1 .. Len(b) : b[i] \in Calls
    BY <1>5
  <2> QED BY <1>5, <2>1, SubSeqProperties
<1>8. rest[l] = (<<e>> \o v) \o tasks[l] /\ rest'[l] = v \o tasks[l]
  <2>1. SubSeq(b, n, Len(b)) = <<e>> \o v
    BY <1>5, SubSeqEnds
  <2>2. rest[l] = SubSeq(b, n, Len(b)) \o tasks[l]
    BY DEF rest
  <2>3. rest'[l] = SubSeq(round'[l].batch, round'[l].next, Len(round'[l].batch)) \o tasks'[l]
    BY DEF rest
  <2> QED BY <1>1, <1>6, <2>1, <2>2, <2>3
<1>9. <<e>> \in Seq(Calls) /\ <<>> \in Seq(Calls) /\ tasks[l] \in Seq(Calls)
  BY <1>4, <1>5
<1> DEFINE E == <<e>>
<1> HIDE DEF e, v, E
<1>10. rest[l] = E \o rest'[l] /\ v \o tasks[l] \in Seq(Calls)
  <2>1. \A x, y, z \in Seq(Calls) : (x \o y) \o z = x \o (y \o z)
    BY ConcatAssociative
  <2>2. E \in Seq(Calls)
    BY <1>9 DEF E
  <2>3. (E \o v) \o tasks[l] = E \o (v \o tasks[l])
    BY <1>7, <1>9, <2>1, <2>2
  <2>4. v \o tasks[l] \in Seq(Calls)
    BY <1>7, <1>9, ConcatProperties
  <2> QED BY <1>8, <2>3, <2>4 DEF E
<1>11. \A m \in Loops : m # l => rest'[m] = rest[m]
  BY <1>1, <1>6 DEF rest
<1>12. todo' = todo
  <2>1. todo[l] = <<>> \o rest[l] /\ todo'[l] = E \o rest'[l]
    BY <1>1, <1>6 DEF todo, E
  <2>2. rest[l] \in Seq(Calls)
    BY <1>3, TodoIs DEF Vectors
  <2>3. <<>> \o rest[l] = rest[l]
    BY <2>2, ConcatEmptySeq
  <2>4. todo'[l] = todo[l]
    BY <1>10, <2>1, <2>3
  <2>5. \A m \in Loops : todo'[m] = todo[m]
    BY <1>6, <1>11, <2>4 DEF todo
  <2> QED BY <2>5 DEF todo
<1>13. \A m \in Loops, x \in Calls : Has(rest', m, x) => Has(rest, m, x)
  <2> SUFFICES ASSUME NEW x \in Calls, Has(rest', l, x) PROVE Has(rest, l, x)
    BY <1>11 DEF Has
  <2> DEFINE R == [rest EXCEPT ![l] = v \o tasks[l]]
  <2>1. rest \in Vectors
    BY <1>3, TodoIs
  <2>2. R \in Vectors /\ R[l] = rest'[l]
    BY <1>8, <1>10, <2>1 DEF Vectors
  <2>3. E \in Seq(Calls)
    BY <1>9 DEF E
  <2>4. Put(R, l, E)[l] = rest[l]
    BY <1>10, <2>2 DEF Put, Vectors
  <2> HIDE DEF R
  <2>5. Has(R, l, x)
    BY <2>2 DEF Has
  <2>6. Has(Put(R, l, E), l, x)
    BY <2>2, <2>3, <2>5, HasPut
  <2> QED BY <2>4, <2>6 DEF Has
<1>14. StageOK'
  BY <1>1, <1>3, <1>5, <1>6 DEF StageOK
<1>15. Ordered(work'[l])
  <2>1. e \in Calls
    BY <1>5 DEF e
  <2> QED BY <1>6, <2>1, OneCall
<1> QED BY <1>1, <1>2, <1>4, <1>6, <1>12, <1>13, <1>14, <1>15, TurnStep

(* The vector of the tasks that ran is destroyed. *)
LEMMA EndTasksKeeps ==
    ASSUME ServerInv, NEW l \in Loops, EndTasks(l)
    PROVE  ServerInv'
<1> DEFINE b == round[l].batch
           n == round[l].next
           r == [round[l] EXCEPT !.stage = "poll", !.batch = <<>>, !.next = 1]
<1>1. /\ Running /\ round[l].stage = "tasks" /\ work[l] = <<>> /\ n > Len(b)
      /\ round' = [round EXCEPT ![l].stage = "poll", ![l].batch = <<>>, ![l].next = 1]
      /\ tasks' = tasks /\ work' = work
      /\ user' = user /\ left' = left /\ peer' = peer
  BY DEF EndTasks, outside
<1>2. StaysPut
  BY DEF EndTasks, outside, serverVars, connectorVars, StaysPut
<1>3. Types /\ StageOK
  BY DEF ServerInv, Base
<1>4. /\ round \in [Loops -> Rounds] /\ tasks \in [Loops -> Seq(Calls)] /\ work \in [Loops -> Seq(Calls)]
  BY <1>3 DEF Types
<1>5. b \in Seq(Calls) /\ n = Len(b) + 1 /\ round[l].active = <<>>
  <2>1. b \in Seq(Calls) /\ n \in Nat
    BY <1>4 DEF Rounds
  <2>2. n \in 1 .. Len(b) + 1 /\ round[l].active = <<>>
    BY <1>1, <1>3 DEF StageOK
  <2>3. n = Len(b) + 1
    BY <1>1, <2>1, <2>2
  <2> QED BY <2>1, <2>2, <2>3
<1>6. round' = [round EXCEPT ![l] = r]
  BY <1>1, <1>4
<1>7. r \in Rounds /\ r.stage = "poll" /\ r.batch = <<>> /\ r.next = 1 /\ r.active = <<>>
  <2>1. <<>> \in Seq(Calls) /\ 1 \in Nat
    BY NoCall
  <2> QED BY <1>4, <1>5, <2>1 DEF Rounds
<1> HIDE DEF r
<1>8. /\ round' \in [Loops -> Rounds] /\ round'[l] = r /\ tasks' = tasks
      /\ \A m \in Loops : m # l => round'[m] = round[m]
  <2>1. tasks' = tasks
    BY <1>1
  <2> QED BY <1>4, <1>6, <1>7, <2>1
<1>9. rest' = rest
  <2>1. SubSeq(b, n, Len(b)) = <<>>
    BY <1>5, SubSeqEnds
  <2>2. SubSeq(<<>>, Len(<<>>) + 1, Len(<<>>)) = <<>> /\ Len(<<>>) + 1 = 1
    BY SubSeqEnds, NoCall
  <2>3. rest[l] = SubSeq(b, n, Len(b)) \o tasks[l]
    BY DEF rest
  <2>4. rest'[l] = SubSeq(round'[l].batch, round'[l].next, Len(round'[l].batch)) \o tasks'[l]
    BY DEF rest
  <2>5. SubSeq(round'[l].batch, round'[l].next, Len(round'[l].batch)) = <<>>
    BY <1>7, <1>8, <2>2
  <2>6. rest'[l] = rest[l]
    BY <1>8, <2>1, <2>3, <2>4, <2>5
  <2>7. \A m \in Loops : m # l => rest'[m] = rest[m]
    BY <1>8 DEF rest
  <2> QED BY <2>6, <2>7 DEF rest
<1>10. todo' = todo
  BY <1>1, <1>9 DEF todo
<1>11. StageOK'
  <2>1. round'[l].next \in 1 .. Len(round'[l].batch) + 1
    BY <1>7, <1>8
  <2> QED BY <1>1, <1>3, <1>7, <1>8, <2>1 DEF StageOK
<1>12. Ordered(work'[l]) /\ round'[l].active = <<>>
  BY <1>1, <1>7, <1>8, NoCall
<1> QED BY <1>1, <1>2, <1>4, <1>8, <1>9, <1>10, <1>11, <1>12, TurnStep

-----------------------------------------------------------------------------
(* The next active channel is handled: the others wait as before. *)
LEMMA ActiveTail ==
    ASSUME Types, StageOK, ActiveOK, NEW l \in Loops, round[l].stage = "handle", round[l].active # <<>>,
           round' = [round EXCEPT ![l].active = Tail(round[l].active)],
           \A m \in Loops : m # l => work'[m] = work[m],
           NEW a, a = Head(round[l].active).c,
           \A m \in Loops : \A x : ActiveAt(m, x) /\ (m = l => x # a) => ActiveAt(m, x)'
    PROVE  /\ ActiveOK' /\ ActiveAt(l, a) /\ StageOK'
           /\ round' \in [Loops -> Rounds] /\ SameBatch
<1> DEFINE s == round[l].active
<1>1. round \in [Loops -> Rounds] /\ s \in Seq(Active)
  BY DEF Types, Rounds
<1>2. /\ Len(s) \in Nat \ {0} /\ DOMAIN s = 1 .. Len(s) /\ Head(s) = s[1]
      /\ Tail(s) \in Seq(Active) /\ DOMAIN Tail(s) = 1 .. Len(s) - 1
      /\ \A i \in 1 .. Len(s) - 1 : Tail(s)[i] = s[i + 1]
  BY <1>1
<1>3. /\ round' \in [Loops -> Rounds]
      /\ round'[l].active = Tail(s)
      /\ \A m \in Loops : m # l => round'[m] = round[m]
      /\ \A m \in Loops : /\ round'[m].batch = round[m].batch /\ round'[m].next = round[m].next
                          /\ round'[m].stage = round[m].stage
  <2>1. round' = [round EXCEPT ![l] = [round[l] EXCEPT !.active = Tail(s)]]
    BY <1>1
  <2>2. [round[l] EXCEPT !.active = Tail(s)] \in Rounds
    BY <1>1, <1>2 DEF Rounds
  <2>3. /\ round' \in [Loops -> Rounds] /\ round'[l] = [round[l] EXCEPT !.active = Tail(s)]
        /\ \A m \in Loops : m # l => round'[m] = round[m]
    BY <1>1, <2>1, <2>2
  <2>4. /\ round'[l].active = Tail(s) /\ round'[l].batch = round[l].batch
        /\ round'[l].next = round[l].next /\ round'[l].stage = round[l].stage
    BY <1>1, <2>3 DEF Rounds
  <2> QED BY <2>3, <2>4
<1>4. 1 \in DOMAIN s /\ a = s[1].c
  BY <1>2
<1> HIDE DEF s
<1>5. ActiveAt(l, a) /\ \A j \in DOMAIN s : s[j].c = a => 1 = j
  BY <1>4, ActiveIs DEF s
<1>6. ActiveOK'
  <2> SUFFICES ASSUME NEW m \in Loops, NEW i \in DOMAIN round'[m].active,
                      NEW c, c = round'[m].active[i].c
               PROVE  /\ \A j \in DOMAIN round'[m].active : round'[m].active[j].c = c => i = j
                      /\ ActiveAt(m, c)'
    BY ActiveNext
  <2>1. CASE m = l
    <3>1. i \in 1 .. Len(s) - 1 /\ c = s[i + 1].c /\ i + 1 \in DOMAIN s
      BY <1>2, <1>3, <2>1
    <3>2. ActiveAt(l, c) /\ \A j \in DOMAIN s : s[j].c = c => i + 1 = j
      BY <3>1, ActiveIs DEF s
    <3>3. c # a
      BY <1>4, <3>1, <3>2
    <3>4. ASSUME NEW j \in 1 .. Len(s) - 1, Tail(s)[j].c = c PROVE i = j
      <4>1. j + 1 \in DOMAIN s /\ s[j + 1].c = c
        BY <1>2, <3>4
      <4>2. i + 1 = j + 1
        BY <3>2, <4>1
      <4> QED BY <1>2, <3>1, <4>2
    <3> QED BY <1>2, <1>3, <2>1, <3>2, <3>3, <3>4
  <2>2. CASE m # l
    <3>1. round'[m] = round[m]
      BY <1>3, <2>2
    <3>2. i \in DOMAIN round[m].active /\ c = round[m].active[i].c
      BY <3>1
    <3>3. ActiveAt(m, c) /\ \A j \in DOMAIN round[m].active : round[m].active[j].c = c => i = j
      BY ONLY ActiveOK, m \in Loops, <3>2, ActiveIs
    <3> QED BY <2>2, <3>1, <3>3
  <2> QED BY <2>1, <2>2
<1>7. StageOK'
  BY <1>3 DEF StageOK
<1> QED BY <1>3, <1>5, <1>6, <1>7 DEF SameBatch

(* A call that may go on top of a stack, and the stack with it on top.     *)
Tops(e, w) ==
    /\ e.fn \notin LastCalls
    /\ \A i \in DOMAIN w : w[i].fn \notin LastCalls \cup {"handleClose", "messageCb"}
    /\ \A i \in DOMAIN w : w[i].fn = "handleRead" => e.fn \in AboveRead
Topped(e, s, w, t) ==
    /\ t \in Seq(Calls) /\ Ordered(t)
    /\ \A x : (\E i \in DOMAIN t : t[i] = x) => (s = <<e>> /\ x = e) \/ \E i \in DOMAIN w : w[i] = x

(* A call on top of a stack that holds nothing that must be first or last. *)
LEMMA OrderCons ==
    ASSUME NEW w \in Seq(Calls), Ordered(w), NEW e \in Calls, NEW s \in {<<>>, <<e>>},
           s = <<e>> => Tops(e, w)
    PROVE  Topped(e, s, w, s \o w)
<1> USE DEF Tops, Topped
<1>1. CASE s = <<>>
  <2>1. s \o w = w
    BY <1>1
  <2> QED BY <2>1
<1>2. CASE s = <<e>>
  <2> DEFINE t == s \o w
  <2>0. s \in Seq(Calls) /\ Len(s) = 1 /\ s[1] = e /\ Len(w) \in Nat /\ DOMAIN w = 1 .. Len(w)
    BY <1>2
  <2>1. /\ t \in Seq(Calls) /\ Len(t) = 1 + Len(w)
        /\ \A i \in 1 .. 1 + Len(w) : t[i] = IF i <= 1 THEN s[i] ELSE w[i - 1]
    <3>1. /\ t \in Seq(Calls) /\ Len(t) = Len(s) + Len(w)
          /\ \A i \in 1 .. Len(s) + Len(w) : t[i] = IF i <= Len(s) THEN s[i] ELSE w[i - Len(s)]
      <4>1. \A x, y \in Seq(Calls) :
               /\ x \o y \in Seq(Calls) /\ Len(x \o y) = Len(x) + Len(y)
               /\ \A i \in 1 .. Len(x) + Len(y) :
                     (x \o y)[i] = IF i <= Len(x) THEN x[i] ELSE y[i - Len(x)]
        BY ConcatProperties
      <4> QED BY <2>0, <4>1
    <3> QED BY ONLY <2>0, <3>1
  <2>2. DOMAIN t = 1 .. 1 + Len(w) /\ t[1] = e
    BY <2>0, <2>1
  <2>3. ASSUME NEW i \in DOMAIN t, i # 1 PROVE i - 1 \in DOMAIN w /\ t[i] = w[i - 1]
    BY <2>0, <2>1, <2>2, <2>3
  <2> HIDE DEF t
  <2>4. Ordered(t)
    <3> SUFFICES ASSUME NEW i \in DOMAIN t
                 PROVE  /\ t[i].fn = "handleClose" => i = 1
                        /\ t[i].fn = "handleRead" => \A j \in 1 .. i - 1 : t[j].fn \in AboveRead
                        /\ t[i].fn = "messageCb" => \A j \in 1 .. i - 1 : t[j].fn \in AboveMessage
                        /\ t[i].fn \in LastCalls => Len(t) = 1
      BY DEF Ordered
    <3>1. CASE i = 1
      BY <1>2, <2>2, <3>1
    <3>2. CASE i # 1
      <4>1. i - 1 \in DOMAIN w /\ t[i] = w[i - 1]
        BY <2>3, <3>2
      <4>2. ASSUME t[i].fn = "handleRead", NEW j \in 1 .. i - 1 PROVE t[j].fn \in AboveRead
        <5>1. CASE j = 1
          BY <1>2, <2>2, <4>1, <4>2, <5>1
        <5>2. CASE j # 1
          <6>1. j \in DOMAIN t /\ j - 1 \in 1 .. (i - 1) - 1
            BY <2>0, <2>2, <4>1, <5>2
          <6>2. t[j] = w[j - 1]
            BY <2>3, <5>2, <6>1
          <6>3. w[j - 1].fn \in AboveRead
            BY <4>1, <4>2, <6>1 DEF Ordered
          <6> QED BY <6>2, <6>3
        <5> QED BY <5>1, <5>2
      <4> QED BY <1>2, <4>1, <4>2
    <3> QED BY <3>1, <3>2
  <2>5. \A x : (\E i \in DOMAIN t : t[i] = x) => x = e \/ \E i \in DOMAIN w : w[i] = x
    BY <2>2, <2>3
  <2> QED BY <1>2, <2>1, <2>4, <2>5 DEF t
<1> QED BY <1>1, <1>2

(* The tasks stay in the vectors. *)
LEMMA RestStays ==
    ASSUME SameBatch, tasks' = tasks
    PROVE  rest' = rest
<1>1. \A m \in Loops : SubSeq(round'[m].batch, round'[m].next, Len(round'[m].batch)) \o tasks'[m]
                        = SubSeq(round[m].batch, round[m].next, Len(round[m].batch)) \o tasks[m]
  BY DEF SameBatch
<1>2. rest' = [m \in Loops |->
                 SubSeq(round'[m].batch, round'[m].next, Len(round'[m].batch)) \o tasks'[m]]
  BY DEF rest
<1> QED BY <1>1, <1>2 DEF rest

(* Calls are made by a loop that was in none, and every object stays as it *)
(* is: the callbacks of a channel.                                         *)
LEMMA PushStep ==
    ASSUME ServerInv, Running, StaysPut, NEW l \in Loops, NEW s \in Seq(Calls),
           user' = user, left' = left, peer' = peer, tasks' = tasks,
           round[l].stage = "handle", round[l].active # <<>>, work[l] = <<>>,
           round' = [round EXCEPT ![l].active = Tail(round[l].active)],
           work' = [work EXCEPT ![l] = s], Ordered(s),
           NEW a, a = Head(round[l].active).c,
           \A i \in DOMAIN s : s[i].c = a /\ s[i].fn \notin LastCalls /\ CallOK(l, s[i]),
           \A i, j \in DOMAIN s : s[i].fn \in LifeFns /\ s[j].fn \in LifeFns => i = j,
           \A i \in DOMAIN s : s[i].fn \in LifeFns => NoLife(todo, a)
    PROVE  ServerInv'
<1>1. /\ Types /\ StageOK /\ OrderOK /\ RestOK /\ OnceOK /\ ActiveOK /\ UserOK /\ Base
  BY DEF ServerInv, Base
<1>2. /\ work \in [Loops -> Seq(Calls)] /\ todo \in Vectors /\ rest \in Vectors
  BY <1>1, TodoIs DEF Types
<1>3. /\ work' \in [Loops -> Seq(Calls)] /\ work'[l] = s
      /\ \A m \in Loops : m # l => work'[m] = work[m]
  BY <1>2
<1>4. round' \in [Loops -> Rounds] /\ SameBatch
  <2>1. round \in [Loops -> Rounds] /\ Tail(round[l].active) \in Seq(Active)
    BY <1>1 DEF Types, Rounds
  <2>2. round' = [round EXCEPT ![l] = [round[l] EXCEPT !.active = Tail(round[l].active)]]
    BY <2>1
  <2>3. [round[l] EXCEPT !.active = Tail(round[l].active)] \in Rounds
    BY <2>1 DEF Rounds
  <2>4. /\ round' \in [Loops -> Rounds] /\ round'[l] = [round[l] EXCEPT !.active = Tail(round[l].active)]
        /\ \A m \in Loops : m # l => round'[m] = round[m]
    BY <2>1, <2>2, <2>3
  <2>5. round'[l].batch = round[l].batch /\ round'[l].next = round[l].next
    BY <2>1, <2>4 DEF Rounds
  <2> QED BY <2>4, <2>5 DEF SameBatch
<1>5. rest' = rest
  BY <1>4, RestStays
<1>6. todo' = Put(todo, l, s)
  <2>1. s \o <<>> = s
    BY ConcatEmptySeq
  <2>2. work' = [work EXCEPT ![l] = s \o work[l]]
    BY <2>1
  <2> QED BY <1>1, <1>5, <2>2, PutIs
<1>7. \A m \in Loops, e \in Calls :
         Has(todo', m, e) <=> Has(todo, m, e) \/ (m = l /\ \E i \in DOMAIN s : s[i] = e)
  BY <1>2, <1>6, HasPut
<1>8. OnceOK'
  <2>1. Once(todo)
    BY <1>1 DEF OnceOK
  <2>2. Once(Put(todo, l, s))
    BY <1>2, <2>1, OncePut
  <2> QED BY <1>6, <2>2 DEF OnceOK
<1>9. Types'
  BY <1>1, <1>3, <1>4 DEF Types, StaysPut
<1>10. OrderOK' /\ RestOK'
  BY <1>1, <1>3, <1>5 DEF OrderOK, RestOK
<1>11. \A c \in Conns : Dying(c)' <=> Dying(c)
  <2>1. \A c \in Conns : conn[c].loop \in Loops
    BY <1>1 DEF Types, ConnRec
  <2>2. \A m \in Loops, e \in Calls : e.fn \in LastCalls /\ Has(todo', m, e) => Has(todo, m, e)
    BY <1>7
  <2> QED BY <1>7, <2>1, <2>2 DEF StaysPut, Dying, LastCalls
<1>12. ASSUME NEW m \in Loops, NEW x, ActiveAt(m, x), m = l => x # a
       PROVE  ActiveAt(m, x)'
  <2>1. ASSUME x \in Conns PROVE \A j \in DOMAIN work'[m] : work'[m][j].c # x
    BY <1>3, <1>12, <2>1 DEF ActiveAt
  <2>2. ASSUME x \in Dials, Under({"handleConnect"}, x)' PROVE FALSE
    <3>1. PICK k \in Loops, e \in Calls : Has(todo', k, e) /\ e.c = x /\ e.fn = "handleConnect"
      BY <2>2 DEF Under
    <3>2. ~Has(todo, k, e) /\ m = connector.loop
      BY <1>12, <2>2, <3>1 DEF ActiveAt, Under
    <3>3. k = l /\ x = a /\ CallOK(l, e)
      BY <1>7, <3>1, <3>2
    <3>4. l = connector.loop
      BY <3>1, <3>3 DEF CallOK, DialFns
    <3> QED BY <1>12, <3>2, <3>3, <3>4
  <2> QED BY <1>12, <2>1, <2>2 DEF ActiveAt, StaysPut, Up, Waits
<1>13. ActiveOK' /\ StageOK'
  BY <1>1, <1>3, <1>12, ActiveTail
<1>14. UserOK'
  BY <1>1 DEF UserOK, StaysPut, Made, Up, Down
<1>15. \A x : Shared(x)' <=> Shared(x)
  BY DEF Shared
<1>16. ASSUME NEW e \in Calls, NEW i \in DOMAIN s, s[i] = e PROVE CallOK(l, e)'
  <2>1. CallOK(l, e)
    BY <1>16
  <2>2. \A c \in Conns : SameConn(c)
    BY <1>11 DEF StaysPut, SameConn, InMap
  <2>3. \A d \in Dials : SameDial(d)
    BY DEF StaysPut, SameDial, Waits
  <2> QED BY <1>15, <2>1, <2>2, <2>3, CallFrame DEF StaysPut
<1>17. \A m \in Loops, e \in Calls : e.fn \in LastCalls /\ Has(todo', m, e) => Has(todo, m, e)
  BY <1>7
<1> QED BY <1>7, <1>8, <1>9, <1>10, <1>13, <1>14, <1>15, <1>16, <1>17, FrameStep

(* handleChannel of a connection's channel: the order of its callbacks. *)
LEMMA HandleChannelKeeps ==
    ASSUME ServerInv, NEW l \in Loops, HandleChannel(l)
    PROVE  ServerInv'
<1>0. PICK c : c = Head(round[l].active).c
  OBVIOUS
<1>00. PICK r : r = Head(round[l].active).revents
  OBVIOUS
<1> DEFINE when(p, fn) == IF p THEN <<Call(fn, c, FALSE)>> ELSE <<>>
           s1 == when("hup" \in r /\ "in" \notin r, "handleClose")
           s2 == when("err" \in r, "handleError")
           s3 == when("in" \in r, "handleRead")
           s4 == when("out" \in r, "handleWrite")
           e1 == Call("handleClose", c, FALSE)
           e2 == Call("handleError", c, FALSE)
           e3 == Call("handleRead", c, FALSE)
           e4 == Call("handleWrite", c, FALSE)
<1>1. /\ Running /\ round[l].stage = "handle" /\ work[l] = <<>> /\ round[l].active # <<>>
      /\ c \in Conns
      /\ work' = [work EXCEPT ![l] = ((s1 \o s2) \o s3) \o s4]
      /\ round' = [round EXCEPT ![l].active = Tail(round[l].active)]
      /\ tasks' = tasks /\ user' = user /\ left' = left /\ peer' = peer
  BY <1>0, <1>00 DEF HandleChannel, outside
<1>2. StaysPut
  BY DEF HandleChannel, outside, serverVars, connectorVars, StaysPut
<1>3. Types /\ StageOK /\ ActiveOK /\ ConnOK
  BY DEF ServerInv, Base
<1>4. ActiveAt(l, c)
  <2>1. round[l].active \in Seq(Active)
    BY <1>3 DEF Types, Rounds
  <2>2. 1 \in DOMAIN round[l].active /\ c = round[l].active[1].c
    BY <1>0, <1>1, <2>1
  <2> QED BY <1>3, <2>2, ActiveIs
<1>5. Up(c) /\ conn[c].loop = l /\ Linked(c) /\ Made(c)
  BY <1>1, <1>3, <1>4 DEF ActiveAt, ConnOK, Linked, Made
<1>6. /\ e1 \in Calls /\ e2 \in Calls /\ e3 \in Calls /\ e4 \in Calls
      /\ e1.fn = "handleClose" /\ e2.fn = "handleError" /\ e3.fn = "handleRead" /\ e4.fn = "handleWrite"
      /\ e1.c = c /\ e2.c = c /\ e3.c = c /\ e4.c = c
  BY <1>1 DEF Calls, Call, Functions
<1>7. /\ s1 \in {<<>>, <<e1>>} /\ s2 \in {<<>>, <<e2>>} /\ s3 \in {<<>>, <<e3>>} /\ s4 \in {<<>>, <<e4>>}
      /\ s3 = <<>> \/ s1 = <<>>
  OBVIOUS
<1> HIDE DEF s1, s2, s3, s4, e1, e2, e3, e4, when
<1>8. /\ s1 \in Seq(Calls) /\ s2 \in Seq(Calls) /\ s3 \in Seq(Calls) /\ s4 \in Seq(Calls)
      /\ Ordered(s4) /\ \A i \in DOMAIN s4 : s4[i] = e4
  <2>1. \A e \in Calls : <<e>> \in Seq(Calls) /\ <<>> \in Seq(Calls)
    OBVIOUS
  <2>2. Ordered(s4) /\ \A i \in DOMAIN s4 : s4[i] = e4
    <3>1. CASE s4 = <<>>
      BY <3>1, NoCall
    <3>2. CASE s4 = <<e4>>
      BY <1>6, <3>2, OneCall
    <3> QED BY <1>7, <3>1, <3>2
  <2> QED BY <1>6, <1>7, <2>1, <2>2
<1> DEFINE w2 == s3 \o s4
           w3 == s2 \o w2
           w4 == s1 \o w3
<1>9. /\ w2 \in Seq(Calls) /\ Ordered(w2)
      /\ \A i \in DOMAIN w2 : (s3 = <<e3>> /\ w2[i] = e3) \/ w2[i] = e4
  <2>1. s3 = <<e3>> => Tops(e3, s4)
    BY <1>6, <1>8 DEF Tops, LastCalls
  <2>2. Topped(e3, s3, s4, w2)
    BY ONLY <1>6, <1>7, <1>8, <2>1, OrderCons
  <2> QED BY <1>8, <2>2 DEF Topped
<1> HIDE DEF w2
<1>10. /\ w3 \in Seq(Calls) /\ Ordered(w3)
       /\ \A i \in DOMAIN w3 : w3[i] = e2 \/ (s3 = <<e3>> /\ w3[i] = e3) \/ w3[i] = e4
  <2>1. s2 = <<e2>> => Tops(e2, w2)
    BY <1>6, <1>9 DEF Tops, LastCalls, AboveRead
  <2>2. Topped(e2, s2, w2, w3)
    BY ONLY <1>6, <1>7, <1>9, <2>1, OrderCons
  <2> QED BY <1>9, <2>2 DEF Topped
<1> HIDE DEF w3
<1>11. /\ w4 \in Seq(Calls) /\ Ordered(w4)
       /\ \A i \in DOMAIN w4 : w4[i] \in {e1, e2, e3, e4}
  <2>1. s1 = <<e1>> => Tops(e1, w3)
    BY <1>6, <1>7, <1>10 DEF Tops, LastCalls
  <2>2. Topped(e1, s1, w3, w4)
    BY ONLY <1>6, <1>7, <1>10, <2>1, OrderCons
  <2> QED BY <1>10, <2>2 DEF Topped
<1>12. ((s1 \o s2) \o s3) \o s4 = w4
  <2>1. \A x, y, z \in Seq(Calls) : (x \o y) \o z = x \o (y \o z) /\ x \o y \in Seq(Calls)
    BY ConcatAssociative, ConcatProperties
  <2>2. (s1 \o s2) \o s3 = s1 \o (s2 \o s3) /\ s2 \o s3 \in Seq(Calls) /\ s1 \o (s2 \o s3) \in Seq(Calls)
    BY <1>8, <2>1
  <2>3. (s1 \o (s2 \o s3)) \o s4 = s1 \o ((s2 \o s3) \o s4)
    <3>1. PICK m : m = s2 \o s3
      OBVIOUS
    <3>2. m \in Seq(Calls)
      BY <2>2, <3>1
    <3>3. (s1 \o m) \o s4 = s1 \o (m \o s4)
      <4>1. s1 \in Seq(Calls) /\ s4 \in Seq(Calls)
        BY <1>8
      <4> QED BY ONLY <2>1, <3>2, <4>1, ZenonT(60)
    <3> QED BY ONLY <3>1, <3>3
  <2>4. (s2 \o s3) \o s4 = s2 \o (s3 \o s4)
    BY <1>8, <2>1
  <2>5. w4 = s1 \o (s2 \o (s3 \o s4))
    BY DEF w2, w3
  <2>6. ((s1 \o s2) \o s3) \o s4 = (s1 \o (s2 \o s3)) \o s4
    BY ONLY <2>2
  <2>7. s1 \o ((s2 \o s3) \o s4) = s1 \o (s2 \o (s3 \o s4))
    BY ONLY <2>4
  <2> QED BY ONLY <2>3, <2>5, <2>6, <2>7
<1> HIDE DEF w4
<1>13. \A i \in DOMAIN w4 : w4[i].c = c /\ w4[i].fn \notin LastCalls \cup LifeFns /\ CallOK(l, w4[i])
  <2> SUFFICES ASSUME NEW e \in {e1, e2, e3, e4}
               PROVE  e.c = c /\ e.fn \notin LastCalls \cup LifeFns /\ CallOK(l, e)
    BY <1>11
  <2> QED BY <1>1, <1>5, <1>6 DEF LastCalls, LifeFns, CallOK, DialFns
<1>14. work' = [work EXCEPT ![l] = w4]
  BY <1>1, <1>12
<1>15. /\ Running /\ round[l].stage = "handle" /\ work[l] = <<>> /\ round[l].active # <<>>
       /\ round' = [round EXCEPT ![l].active = Tail(round[l].active)]
       /\ tasks' = tasks /\ user' = user /\ left' = left /\ peer' = peer
  BY <1>1
<1>16. /\ \A i \in DOMAIN w4 : w4[i].c = c /\ w4[i].fn \notin LastCalls /\ CallOK(l, w4[i])
       /\ \A i, j \in DOMAIN w4 : w4[i].fn \in LifeFns /\ w4[j].fn \in LifeFns => i = j
       /\ \A i \in DOMAIN w4 : w4[i].fn \in LifeFns => NoLife(todo, c)
  BY <1>13
<1> QED BY ONLY ServerInv, l \in Loops, <1>0, <1>2, <1>11, <1>14, <1>15, <1>16, PushStep

(* handleChannel of a channel of the Connector. *)
LEMMA HandleDialKeeps ==
    ASSUME ServerInv, NEW l \in Loops, HandleDial(l)
    PROVE  ServerInv'
<1>0. PICK d : d = Head(round[l].active).c
  OBVIOUS
<1> DEFINE e == Call("handleConnect", d, FALSE)
           s == <<e>>
<1>1. /\ Running /\ round[l].stage = "handle" /\ work[l] = <<>> /\ round[l].active # <<>>
      /\ d \in Dials
      /\ work' = [work EXCEPT ![l] = s]
      /\ round' = [round EXCEPT ![l].active = Tail(round[l].active)]
      /\ tasks' = tasks /\ user' = user /\ left' = left /\ peer' = peer
  BY <1>0 DEF HandleDial, outside
<1>2. StaysPut
  BY DEF HandleDial, outside, serverVars, connectorVars, StaysPut
<1>3. Types /\ StageOK /\ ActiveOK /\ DialOK /\ CallsOK
  BY DEF ServerInv, Base
<1>4. ActiveAt(l, d)
  <2>1. round[l].active \in Seq(Active)
    BY <1>3 DEF Types, Rounds
  <2>2. 1 \in DOMAIN round[l].active /\ d = round[l].active[1].c
    BY <1>0, <1>1, <2>1
  <2> QED BY <1>3, <2>2, ActiveIs
<1>5. /\ Waits(d) /\ dial[d].sock \in {"connected", "refused"} /\ l = connector.loop
      /\ ~Under({"handleConnect"}, d) /\ ~dial[d].at_once
  BY <1>1, <1>3, <1>4 DEF ActiveAt, DialOK
<1>6. e \in Calls /\ e.fn = "handleConnect" /\ e.c = d /\ ~e.ref
  BY <1>1 DEF Calls, Call, Functions
<1> HIDE DEF e
<1>7. NoLife(todo, d)
  <2>1. d \notin Conns
    BY <1>1, ServerAssumption
  <2>2. ASSUME NEW k \in Loops, NEW x \in Calls, Has(todo, k, x), x.fn \in LifeFns PROVE x.c # d
    <3>1. CallOK(k, x)
      BY <1>3, <2>2 DEF CallsOK
    <3> QED BY <1>5, <2>1, <2>2, <3>1 DEF CallOK, LifeFns, DialFns, Under
  <2>3. todo \in Vectors
    BY <1>3, TodoIs
  <2> QED BY <2>2, <2>3, NoLifeHas
<1>8. CallOK(l, e)
  BY <1>1, <1>5, <1>6 DEF CallOK, DialFns
<1>9. s \in Seq(Calls) /\ DOMAIN s = {1} /\ s[1] = e /\ Ordered(s)
  BY <1>6, OneCall
<1> HIDE DEF s
<1>10. /\ \A i \in DOMAIN s : s[i].c = d /\ s[i].fn \notin LastCalls /\ CallOK(l, s[i])
       /\ \A i, j \in DOMAIN s : s[i].fn \in LifeFns /\ s[j].fn \in LifeFns => i = j
       /\ \A i \in DOMAIN s : s[i].fn \in LifeFns => NoLife(todo, d)
  BY <1>6, <1>7, <1>8, <1>9 DEF LastCalls
<1> QED BY ONLY ServerInv, l \in Loops, <1>0, <1>1, <1>2, <1>9, <1>10, PushStep

(* A call in the rest of a batch or in a task vector is in one of the two. *)
LEMMA EndMembers ==
    ASSUME NEW b \in Seq(Calls), NEW t \in Seq(Calls), NEW n \in 1 .. Len(b) + 1, NEW e,
           NEW v, v = SubSeq(b, n, Len(b)), NEW i \in DOMAIN (v \o t), (v \o t)[i] = e
    PROVE  (\E j \in DOMAIN b : b[j] = e) \/ (\E j \in DOMAIN t : t[j] = e)
<1>0. Len(b) \in Nat /\ n \in Int /\ 1 <= n /\ n <= Len(b) + 1
  OBVIOUS
<1>1. /\ v \in Seq(Calls) /\ Len(v) = Len(b) - n + 1
      /\ \A j \in 1 .. Len(b) - n + 1 : v[j] = b[n + j - 1]
  <2>1. \A j \in n .. Len(b) : b[j] \in Calls
    BY <1>0
  <2> QED BY <1>0, <2>1, SubSeqProperties
<1>2. /\ v \o t \in Seq(Calls) /\ Len(v \o t) = Len(v) + Len(t)
      /\ \A j \in 1 .. Len(v) + Len(t) :
            (v \o t)[j] = IF j <= Len(v) THEN v[j] ELSE t[j - Len(v)]
  <2>1. \A x, y \in Seq(Calls) :
           /\ x \o y \in Seq(Calls) /\ Len(x \o y) = Len(x) + Len(y)
           /\ \A j \in 1 .. Len(x) + Len(y) :
                 (x \o y)[j] = IF j <= Len(x) THEN x[j] ELSE y[j - Len(x)]
    BY ConcatProperties
  <2> QED BY <1>1, <2>1
<1>3. i \in 1 .. Len(v) + Len(t) /\ Len(t) \in Nat /\ DOMAIN t = 1 .. Len(t) /\ DOMAIN b = 1 .. Len(b)
  BY <1>2
<1>4. CASE i <= Len(v)
  <2>1. v[i] = e /\ i \in 1 .. Len(b) - n + 1
    BY <1>0, <1>1, <1>2, <1>3, <1>4
  <2>2. n + i - 1 \in DOMAIN b
    BY <1>0, <1>3, <2>1
  <2>3. b[n + i - 1] = e
    BY <1>1, <2>1
  <2> QED BY <2>2, <2>3
<1>5. CASE i > Len(v)
  <2>1. i - Len(v) \in DOMAIN t /\ t[i - Len(v)] = e
    BY <1>0, <1>1, <1>2, <1>3, <1>5
  <2> QED BY <2>1
<1> QED BY <1>0, <1>1, <1>3, <1>4, <1>5

(* What is still to be called is in one of the vectors that Held looks at. *)
LEMMA TodoBound ==
    ASSUME Types, StageOK, NEW l \in Loops, NEW e \in Calls, Has(todo, l, e), e.ref
    PROVE  Held(e.c)
<1>1. Has(work, l, e) \/ Has(rest, l, e)
  BY TodoIs
<1>2. CASE Has(work, l, e)
  BY <1>2 DEF Has, Held, Bound
<1>3. CASE Has(rest, l, e)
  <2> DEFINE b == round[l].batch
             v == SubSeq(b, round[l].next, Len(b))
             t == tasks[l]
  <2>1. b \in Seq(Calls) /\ t \in Seq(Calls) /\ round[l].next \in 1 .. Len(b) + 1
    BY DEF Types, Rounds, StageOK
  <2>3. PICK i \in DOMAIN (v \o t) : (v \o t)[i] = e
    BY <1>3 DEF Has, rest
  <2>4. v = SubSeq(b, round[l].next, Len(b))
    OBVIOUS
  <2>5. (\E j \in DOMAIN b : b[j] = e) \/ (\E j \in DOMAIN t : t[j] = e)
    <3> HIDE DEF b, v, t
    <3> QED BY ONLY <2>1, <2>3, <2>4, EndMembers
  <2> QED BY <2>5 DEF Held, Bound
<1> QED BY <1>1, <1>2, <1>3

(* A connection in the map or on its way out is not freed. *)
LEMMA LinkedHeld ==
    ASSUME Base, NEW c \in Conns, Linked(c)
    PROVE  ~Freed(c)
<1>1. CASE InMap(c)
  BY <1>1 DEF InMap, Freed, Held
<1>2. CASE Dying(c)
  <2>1. PICK e \in Calls : Has(todo, conn[c].loop, e) /\ e.c = c /\ e.fn \in {"destroyConnection", "remove"}
    BY <1>2 DEF Dying
  <2>2. conn[c].loop \in Loops
    BY DEF Base, Types, ConnRec
  <2>3. e.ref
    BY <2>1, <2>2 DEF Base, CallsOK, CallOK
  <2> QED BY <2>1, <2>2, <2>3, TodoBound DEF Base, Freed
<1> QED BY <1>1, <1>2 DEF Linked

(* The process dies. *)
LEMMA FaultStep ==
    ASSUME ServerInv, Running, fault' \in {"freed", "null", "emptyFunction"},
           conn' = conn, connection_map_' = connection_map_, thread_pool_' = thread_pool_,
           connector' = connector, dial' = dial, poller' = poller, tasks' = tasks,
           round' = round, work' = work, user' = user, peer' = peer, left' = left
    PROVE  ServerInv'
<1>1. Base /\ ~Running'
  BY DEF ServerInv, Running
<1>2. rest' = rest /\ todo' = todo
  BY DEF rest, todo
<1>3. Types'
  BY <1>1 DEF Base, Types
<1>4. StageOK' /\ OrderOK' /\ RestOK' /\ OnceOK'
  BY <1>1, <1>2 DEF Base, StageOK, OrderOK, RestOK, OnceOK
<1>5. ActiveOK'
  <2>1. \A d : Under({"handleConnect"}, d)' <=> Under({"handleConnect"}, d)
    BY <1>2 DEF Under
  <2> QED BY <1>1, <2>1, ActiveStays DEF Base
<1>6. UserOK'
  BY <1>1 DEF Base, UserOK, Made, Up, Down
<1>7. UpReg'
  BY <1>1 DEF Base, UpReg, Up, Reg
<1>8. \A c \in Conns : SameConn(c)
  BY <1>2 DEF SameConn, InMap, Dying
<1>9. \A d \in Dials : SameDial(d)
  BY DEF SameDial, Waits
<1>10. \A c \in Conns : Shared(c) => Shared(c)'
  BY DEF Shared
<1>11. \A d \in Dials : Under({"handleConnect", "newConnection"}, d)
                          => Under({"handleConnect", "newConnection"}, d)'
  BY <1>2 DEF Under
<1>12. CallsOK' /\ ConnOK' /\ MapOK' /\ DialMapOK' /\ DialOK' /\ AddressOK' /\ FdOK'
  <2>1. SameMaps
    BY DEF SameMaps
  <2>2. \A k \in Loops, e \in Calls : Has(todo', k, e) => Has(todo, k, e) \/ CallOK(k, e)'
    BY <1>2
  <2> QED BY <1>1, <1>8, <1>9, <1>10, <1>11, <2>1, <2>2, QuietKeeps
<1> QED BY <1>1, <1>3, <1>4, <1>5, <1>6, <1>7, <1>12 DEF ServerInv, Base

(* An entry that ::poll looks at is that of a registered channel, or has   *)
(* the descriptor 0, which is nobody's.                                    *)
LEMMA WatchedIs ==
    ASSUME Base, Wired, NEW l \in Loops, NEW i \in WatchedEntries(l),
           NEW f, f = poller[l].pollfds[i].fd
    PROVE  /\ f \in DOMAIN poller[l].channels =>
                 /\ poller[l].index[poller[l].channels[f]] = i - 1
                 /\ EntryOf(poller[l], f).fd = f
                 /\ Owned(l, f)
           /\ f \in DOMAIN poller[l].channels \/ f = 0
<1> DEFINE p == poller[l]
<1>1. p \in PollerRec /\ PollerOK(p)
  BY DEF Base, Types, Wired, PollOK
<1>2. /\ p.pollfds \in Seq(Entries) /\ Len(p.pollfds) \in Nat
      /\ DOMAIN p.pollfds = 1 .. Len(p.pollfds)
      /\ DOMAIN p.channels \subseteq PollFds
      /\ \A g \in PollFds : g \in Int /\ (g = -1 \/ g >= 1)
      /\ \A g \in DOMAIN p.channels :
            /\ p.index[p.channels[g]] \in Nat
            /\ EntryOf(p, g) \in Entries
  BY <1>1, PollerFields
<1>3. i \in 1 .. Len(p.pollfds) /\ f >= 0
  BY <1>2 DEF WatchedEntries
<1>4. PICK g \in DOMAIN p.channels : p.index[p.channels[g]] = i - 1
  BY <1>1, <1>3 DEF PollerOK
<1>5. EntryOf(p, g) = p.pollfds[i]
  <2>1. (i - 1) + 1 = i
    BY <1>2, <1>3
  <2> QED BY <1>4, <2>1 DEF EntryOf
<1>6. f \in {g, Ignored(g)}
  BY <1>1, <1>5 DEF PollerOK
<1>7. g \in Int /\ (g = -1 \/ g >= 1)
  BY <1>2
<1>8. f = g \/ (f = 0 /\ f \notin DOMAIN p.channels)
  <2>1. ASSUME f # g PROVE f = 0
    BY <1>3, <1>6, <1>7, <2>1 DEF Ignored
  <2>2. 0 \notin DOMAIN p.channels
    BY <1>2
  <2> QED BY <2>1, <2>2
<1>9. \A x \in DOMAIN p.channels : Owned(l, x)
  BY DEF Wired, PollOK
<1> QED BY <1>4, <1>5, <1>8, <1>9

(* poll() hands out no dead channel. *)
LEMMA PollFaultsIs ==
    ASSUME ServerInv, NEW l \in Loops, PollFaults(l)
    PROVE  fault' = "null"
<1>1. Running
  BY DEF PollFaults
<1>2. Base /\ Wired
  BY <1>1 DEF ServerInv
<1>3. PICK i \in WatchedEntries(l) :
         /\ ~Findable(l, poller[l].pollfds[i])
         /\ fault' = IF poller[l].pollfds[i].fd \in DOMAIN poller[l].channels THEN "freed" ELSE "null"
  BY DEF PollFaults
<1>4. PICK f : f = poller[l].pollfds[i].fd
  OBVIOUS
<1>5. f \notin DOMAIN poller[l].channels
  <2> SUFFICES ASSUME f \in DOMAIN poller[l].channels PROVE FALSE
    OBVIOUS
  <2>1. PICK c : c = poller[l].channels[f]
    OBVIOUS
  <2>2. Owned(l, f)
    BY <1>2, <1>4, WatchedIs
  <2>3. CASE c = Timer
    BY <1>3, <1>4, <2>1, <2>3, ServerAssumption DEF Findable, Freed
  <2>4. CASE c \in Conns /\ conn[c].fd = f /\ conn[c].loop = l
    <3>1. Reg(c)
      BY <2>1, <2>4 DEF Reg
    <3>2. ~Freed(c) /\ c \notin Dials
      BY <1>2, <2>4, <3>1, LinkedHeld, ServerAssumption DEF Wired, RegOK
    <3> QED BY <1>3, <1>4, <2>1, <3>2 DEF Findable
  <2>5. CASE c \in Dials /\ f \in DOMAIN connector.conn_map /\ connector.conn_map[f] = c
    <3>1. ~Freed(c)
      BY <2>5, ServerAssumption DEF Freed
    <3> QED BY <1>3, <1>4, <2>1, <2>5, <3>1 DEF Findable
  <2> QED BY <2>1, <2>2, <2>3, <2>4, <2>5 DEF Owned
<1> QED BY <1>3, <1>4, <1>5

LEMMA PollFaultsKeeps ==
    ASSUME ServerInv, NEW l \in Loops, PollFaults(l)
    PROVE  ServerInv'
<1>1. fault' = "null"
  BY PollFaultsIs
<1> QED BY <1>1, FaultStep DEF PollFaults, serverVars, connectorVars

(* The members of a set of indices in their order: a sequence without      *)
(* repetitions.                                                            *)
LEMMA InOrderIs ==
    ASSUME NEW n \in Nat, NEW S \in SUBSET (1 .. n), NEW s \in InOrder(S)
    PROVE  /\ \E m \in Nat : DOMAIN s = 1 .. m
           /\ \A i \in DOMAIN s : s[i] \in S
           /\ \A i, j \in DOMAIN s : s[i] = s[j] => i = j
<1>1. Cardinality(S) \in Nat
  <2>1. IsFiniteSet(1 .. n)
    BY FS_Interval
  <2> QED BY <2>1, FS_Subset, FS_CardinalityType
<1>2. /\ DOMAIN s = 1 .. Cardinality(S) /\ \A i \in DOMAIN s : s[i] \in S
      /\ \A i, j \in DOMAIN s : i < j => s[i] < s[j]
  BY DEF InOrder
<1>3. ASSUME NEW i \in DOMAIN s, NEW j \in DOMAIN s, s[i] = s[j] PROVE i = j
  <2>0. s[i] \in 1 .. n /\ i \in 1 .. Cardinality(S) /\ j \in 1 .. Cardinality(S)
    BY <1>2
  <2>1. i \in Int /\ j \in Int /\ s[i] \in Int
    BY <1>1, <2>0
  <2>2. ~(i < j) /\ ~(j < i)
    BY <1>2, <1>3, <2>1
  <2> QED BY <2>1, <2>2
<1> QED BY <1>1, <1>2, <1>3

(* No channel is reported twice. *)
Apart(q) == \A i, j \in DOMAIN q : q[i].c = q[j].c => i = j
Lacks(q, a) == \A i \in DOMAIN q : q[i].c # a.c
Led(A, a, q) == \A i \in DOMAIN A : A[i] = a \/ \E k \in DOMAIN q : A[i] = q[k]

(* A client that waits is reported before the channels. *)
LEMMA ArrivalFirst ==
    ASSUME NEW q \in Seq(Active), NEW a \in Active, NEW s, s \in {<<>>, <<a>>},
           NEW A, A = s \o q, Lacks(q, a), Apart(q)
    PROVE  A \in Seq(Active) /\ Led(A, a, q) /\ Apart(A)
<1>1. CASE s = <<>>
  <2>1. s \o q = q
    BY <1>1
  <2> QED BY <2>1 DEF Apart, Led
<1>2. CASE s = <<a>>
  <2> DEFINE t == s \o q
  <2>0. s \in Seq(Active) /\ Len(s) = 1 /\ s[1] = a /\ Len(q) \in Nat /\ DOMAIN q = 1 .. Len(q)
    BY <1>2
  <2>1. /\ t \in Seq(Active) /\ Len(t) = 1 + Len(q)
        /\ \A i \in 1 .. 1 + Len(q) : t[i] = IF i <= 1 THEN s[i] ELSE q[i - 1]
    <3>1. \A x, y \in Seq(Active) :
             /\ x \o y \in Seq(Active) /\ Len(x \o y) = Len(x) + Len(y)
             /\ \A i \in 1 .. Len(x) + Len(y) :
                   (x \o y)[i] = IF i <= Len(x) THEN x[i] ELSE y[i - Len(x)]
      BY ConcatProperties
    <3>2. /\ t \in Seq(Active) /\ Len(t) = Len(s) + Len(q)
          /\ \A i \in 1 .. Len(s) + Len(q) : t[i] = IF i <= Len(s) THEN s[i] ELSE q[i - Len(s)]
      BY <2>0, <3>1
    <3> QED BY ONLY <2>0, <3>2
  <2>2. DOMAIN t = 1 .. 1 + Len(q) /\ t[1] = a
    BY <2>0, <2>1
  <2>3. ASSUME NEW i \in DOMAIN t, i # 1 PROVE i - 1 \in DOMAIN q /\ t[i] = q[i - 1]
    BY <2>0, <2>1, <2>2, <2>3
  <2> HIDE DEF t
  <2>4. ASSUME NEW i \in DOMAIN t, NEW j \in DOMAIN t, t[i].c = t[j].c PROVE i = j
    <3>1. CASE i = 1 \/ j = 1
      BY <2>2, <2>3, <2>4, <3>1 DEF Lacks
    <3>2. CASE i # 1 /\ j # 1
      <4>1. i - 1 = j - 1
        BY <2>3, <2>4, <3>2 DEF Apart
      <4>2. i \in Int /\ j \in Int
        BY <2>0, <2>2
      <4> QED BY <4>1, <4>2
    <3> QED BY <3>1, <3>2
  <2>5. \A i \in DOMAIN t : t[i] = a \/ \E k \in DOMAIN q : t[i] = q[k]
    BY <2>2, <2>3
  <2> QED BY <2>1, <2>4, <2>5 DEF t, Apart, Led
<1> QED BY <1>1, <1>2

(* What poll() reports: a connection that is up, or a dial whose outcome   *)
(* is there, of this loop.                                                 *)
LEMMA PollKeeps ==
    ASSUME ServerInv, NEW l \in Loops, Poll(l)
    PROVE  ServerInv'
<1> DEFINE p == poller[l]
           chan(i) == ChannelAt(l, i)
           watched == WatchedSockets(l)
           listen == [c |-> Listen, revents |-> {"in"}]
<1>1. /\ Running /\ round[l].stage = "poll"
      /\ tasks' = tasks /\ work' = work /\ user' = user /\ left' = left /\ peer' = peer
  BY DEF Poll, outside
<1>2. StaysPut
  BY DEF Poll, outside, serverVars, connectorVars, StaysPut
<1>30. PICK revents \in [watched -> SUBSET Revents] :
         /\ \A i \in watched :
               chan(i) \in Dials => revents[i] = Reportable(chan(i), p.pollfds[i].events)
         /\ \E arrival \in Arrivals(l), active \in ActiveChannels(l, revents) :
               round' = [round EXCEPT ![l].stage = "handle", ![l].active = arrival \o active]
  BY DEF Poll
<1>31. PICK arrival \in Arrivals(l), q \in ActiveChannels(l, revents) :
         round' = [round EXCEPT ![l].stage = "handle", ![l].active = arrival \o q]
  BY <1>30
<1>3. PICK order \in InOrder({i \in watched : revents[i] # {}}) :
         q = [k \in DOMAIN order |-> [c |-> chan(order[k]), revents |-> revents[order[k]]]]
  BY DEF ActiveChannels
<1>4. Base /\ Wired /\ Types /\ StageOK /\ OrderOK /\ RestOK /\ OnceOK /\ ActiveOK /\ UserOK
  BY <1>1 DEF ServerInv, Base
<1>5. work[l] = <<>> /\ round \in [Loops -> Rounds]
  BY <1>1, <1>4 DEF StageOK, Types
<1>6. ASSUME NEW i \in watched
      PROVE  /\ chan(i) \in Conns \cup Dials
             /\ p.index[chan(i)] = i - 1
             /\ chan(i) \in Conns => Up(chan(i)) /\ conn[chan(i)].loop = l
             /\ chan(i) \in Dials => Waits(chan(i)) /\ l = connector.loop
  <2>1. PICK f : f = p.pollfds[i].fd
    OBVIOUS
  <2>2. PICK c : c = p.channels[f]
    OBVIOUS
  <2>20. c = chan(i) /\ i \in WatchedEntries(l)
    BY <2>1, <2>2 DEF ChannelAt, WatchedSockets
  <2>3. f \in Fds /\ f # 0 /\ f # TimerFd /\ f \in Nat
    BY <2>1, ServerAssumption DEF WatchedSockets
  <2>4. f \in DOMAIN p.channels /\ p.index[c] = i - 1 /\ EntryOf(p, f).fd = f /\ Owned(l, f)
    <3>1. f = poller[l].pollfds[i].fd /\ c = poller[l].channels[f]
      BY <2>1, <2>2
    <3>2. /\ f \in DOMAIN poller[l].channels /\ poller[l].index[poller[l].channels[f]] = i - 1
          /\ EntryOf(poller[l], f).fd = f /\ Owned(l, f)
      BY ONLY <1>4, l \in Loops, <2>20, <2>3, <3>1, WatchedIs
    <3> QED BY ONLY <3>1, <3>2 DEF p
  <2>5. Ignored(f) # f
    BY <2>3 DEF Ignored
  <2>6. CASE c \in Conns /\ conn[c].loop = l /\ conn[c].events # {}
    <3>1. Up(c)
      BY <1>4, <2>6 DEF Base, ConnOK, Made
    <3> QED BY <2>20, <2>4, <2>6, <3>1, ServerAssumption
  <2>7. CASE c \in Dials /\ l = connector.loop /\ f \in DOMAIN connector.conn_map
             /\ connector.conn_map[f] = c
    <3>1. Waits(c)
      BY <1>4, <2>7 DEF Base, DialMapOK, Waits
    <3> QED BY <2>20, <2>4, <2>7, <3>1, ServerAssumption
  <2> QED BY <2>2, <2>3, <2>4, <2>5, <2>6, <2>7 DEF Owned
<1>7. ASSUME NEW i \in watched, chan(i) \in Dials, revents[i] # {}
      PROVE  dial[chan(i)].sock \in {"connected", "refused"}
  <2>1. PICK c : c = chan(i)
    OBVIOUS
  <2>2. c \in Dials /\ Reportable(c, p.pollfds[i].events) # {}
    BY <1>30, <1>7, <2>1
  <2>3. dial[c].sock # "connecting"
    BY <2>2 DEF Reportable
  <2>4. Waits(c)
    BY <1>6, <1>7, <2>1
  <2>5. OpenDial(c)
    BY <1>4, <2>2, <2>4 DEF Base, DialOK
  <2> QED BY <2>1, <2>3, <2>5 DEF OpenDial
<1>8. \A i, j \in watched : chan(i) = chan(j) => i = j
  <2>1. \A i \in watched : i \in Int
    <3>1. p.pollfds \in Seq(Entries)
      BY <1>4 DEF Types, PollerRec
    <3> QED BY <3>1 DEF WatchedSockets, WatchedEntries
  <2>2. ASSUME NEW i \in watched, NEW j \in watched, chan(i) = chan(j) PROVE i = j
    <3>1. i - 1 = j - 1
      BY <1>6, <2>2
    <3> QED BY <2>1, <3>1
  <2> QED BY <2>2
<1>9. PICK n \in Nat : watched \subseteq 1 .. n
  <2>1. p.pollfds \in Seq(Entries)
    BY <1>4 DEF Types, PollerRec
  <2>2. Len(p.pollfds) \in Nat /\ DOMAIN p.pollfds = 1 .. Len(p.pollfds)
    BY <2>1
  <2> QED BY <2>2 DEF WatchedSockets, WatchedEntries
<1> DEFINE S == {i \in watched : revents[i] # {}}
<1> HIDE DEF watched, p, chan
<1>10. /\ \E m \in Nat : DOMAIN order = 1 .. m
       /\ \A k \in DOMAIN order : order[k] \in S
       /\ \A j, k \in DOMAIN order : order[j] = order[k] => j = k
  <2>1. S \in SUBSET (1 .. n) /\ order \in InOrder(S)
    BY <1>9
  <2> HIDE DEF S
  <2> QED BY <2>1, InOrderIs
<1>11. /\ \A k \in DOMAIN order : /\ order[k] \in watched /\ revents[order[k]] # {}
                                  /\ revents[order[k]] \in SUBSET Revents
  BY <1>10
<1>12. q \in Seq(Active) /\ DOMAIN q = DOMAIN order
  <2>1. \A k \in DOMAIN order : [c |-> chan(order[k]), revents |-> revents[order[k]]] \in Active
    BY <1>6, <1>11 DEF Active
  <2>2. PICK m \in Nat : DOMAIN order = 1 .. m
    BY <1>10
  <2> QED BY <1>3, <2>1, <2>2
<1>13. \A k \in DOMAIN q : q[k].c = chan(order[k])
  BY <1>3
<1> HIDE DEF S
<1>14. listen \in Active /\ arrival \in {<<>>, <<listen>>} /\ listen.c = Listen
  BY DEF Active, Arrivals, Revents
<1> HIDE DEF listen
<1>15. Listen \notin Conns \cup Dials
  BY ServerAssumption
<1> DEFINE A == arrival \o q
<1>16. /\ A \in Seq(Active)
       /\ \A i \in DOMAIN A : A[i] = listen \/ \E k \in DOMAIN q : A[i] = q[k]
       /\ \A i, j \in DOMAIN A : A[i].c = A[j].c => i = j
  <2>1. \A i \in DOMAIN q : q[i].c # listen.c
    BY <1>6, <1>11, <1>12, <1>13, <1>14, <1>15
  <2>2. \A i, j \in DOMAIN q : q[i].c = q[j].c => i = j
    BY <1>8, <1>10, <1>11, <1>12, <1>13
  <2>3. Apart(q) /\ Lacks(q, listen)
    BY <2>1, <2>2 DEF Apart, Lacks
  <2>4. arrival \in {<<>>, <<listen>>} /\ listen \in Active /\ q \in Seq(Active)
    BY <1>12, <1>14
  <2>5. A = arrival \o q
    OBVIOUS
  <2> HIDE DEF A
  <2>6. A \in Seq(Active) /\ Led(A, listen, q) /\ Apart(A)
    BY ONLY <2>3, <2>4, <2>5, ArrivalFirst
  <2> QED BY <2>6 DEF Apart, Led
<1>17. round' = [round EXCEPT ![l].stage = "handle", ![l].active = A]
  BY <1>31
<1> HIDE DEF A
<1>18. /\ round' \in [Loops -> Rounds] /\ SameBatch
       /\ round'[l].stage = "handle" /\ round'[l].active = A
       /\ \A m \in Loops : m # l => round'[m] = round[m]
  <2>1. round' = [round EXCEPT ![l] = [round[l] EXCEPT !.stage = "handle", !.active = A]]
    BY <1>5, <1>17
  <2>2. [round[l] EXCEPT !.stage = "handle", !.active = A] \in Rounds
    BY <1>5, <1>16 DEF Rounds
  <2>3. /\ round' \in [Loops -> Rounds]
        /\ round'[l] = [round[l] EXCEPT !.stage = "handle", !.active = A]
        /\ \A m \in Loops : m # l => round'[m] = round[m]
    BY <1>5, <2>1, <2>2
  <2>4. /\ round'[l].stage = "handle" /\ round'[l].active = A
        /\ round'[l].batch = round[l].batch /\ round'[l].next = round[l].next
    BY <1>5, <2>3 DEF Rounds
  <2> QED BY <2>3, <2>4 DEF SameBatch
<1>19. rest' = rest /\ todo' = todo
  <2>1. rest' = rest
    BY <1>1, <1>18, RestStays
  <2> QED BY <1>1, <2>1 DEF todo
<1>20. Types'
  BY <1>1, <1>2, <1>4, <1>18 DEF Types, StaysPut
<1>21. StageOK'
  BY <1>1, <1>4, <1>18 DEF StageOK, SameBatch
<1>22. OrderOK' /\ RestOK' /\ OnceOK'
  BY <1>1, <1>4, <1>19 DEF OrderOK, RestOK, OnceOK
<1>23. UserOK'
  BY <1>1, <1>2, <1>4 DEF UserOK, StaysPut, Made, Up, Down
<1>24. ASSUME NEW d \in Dials, l = connector.loop PROVE ~Under({"handleConnect"}, d)
  <2> SUFFICES ASSUME NEW m \in Loops, NEW e \in Calls, Has(todo, m, e), e.c = d, e.fn = "handleConnect"
               PROVE  FALSE
    BY DEF Under
  <2>1. m = l
    BY <1>4, <1>24 DEF Base, CallsOK, CallOK, DialFns
  <2>2. Has(work, l, e) \/ Has(rest, l, e)
    BY <1>4, <2>1, TodoIs
  <2>3. ~Has(work, l, e)
    BY <1>5 DEF Has
  <2> QED BY <1>4, <2>2, <2>3 DEF RestOK, TaskFns
<1>25. \A m, x : ActiveAt(m, x) => ActiveAt(m, x)'
  BY <1>1, <1>2, <1>19 DEF ActiveAt, StaysPut, Up, Waits, Under
<1>26. ActiveOK'
  <2> SUFFICES ASSUME NEW m \in Loops, NEW i \in DOMAIN round'[m].active,
                      NEW c, c = round'[m].active[i].c
               PROVE  /\ \A j \in DOMAIN round'[m].active : round'[m].active[j].c = c => i = j
                      /\ ActiveAt(m, c)'
    BY ActiveNext
  <2>1. CASE m # l
    <3>1. round'[m] = round[m]
      BY <1>18, <2>1
    <3>2. i \in DOMAIN round[m].active /\ c = round[m].active[i].c
      BY <3>1
    <3>3. ActiveAt(m, c) /\ \A j \in DOMAIN round[m].active : round[m].active[j].c = c => i = j
      BY ONLY <1>4, m \in Loops, <3>2, ActiveIs
    <3> QED BY <1>25, <3>1, <3>3
  <2>2. CASE m = l
    <3>1. i \in DOMAIN A /\ c = A[i].c /\ \A j \in DOMAIN A : A[j].c = c => i = j
      BY <1>16, <1>18, <2>2
    <3>2. CASE A[i] = listen
      BY <1>14, <1>15, <1>18, <2>2, <3>1, <3>2 DEF ActiveAt
    <3>3. CASE \E k \in DOMAIN q : A[i] = q[k]
      <4>1. PICK k \in DOMAIN order : c = chan(order[k])
        BY <1>12, <1>13, <3>1, <3>3
      <4>2. PICK h : h = order[k]
        OBVIOUS
      <4>3. h \in watched /\ revents[h] # {} /\ c = chan(h)
        BY <1>11, <4>1, <4>2
      <4>4. ActiveAt(l, c)
        BY <1>5, <1>6, <1>7, <1>24, <4>3 DEF ActiveAt
      <4> QED BY <1>18, <1>25, <2>2, <3>1, <4>4
    <3> QED BY <1>16, <3>1, <3>2, <3>3
  <2> QED BY <2>1, <2>2
<1>27. \A x : Shared(x)' <=> Shared(x)
  BY <1>1 DEF Shared
<1> QED BY <1>1, <1>2, <1>19, <1>20, <1>21, <1>22, <1>23, <1>26, <1>27, FrameStep

(* A step of a user that queues nothing. *)
LEMMA UserFrame ==
    ASSUME ServerInv, Running, StaysPut, tasks' = tasks, round' = round, work' = work, peer' = peer,
           user' \in [Users -> UserRec], UserOK',
           left' \in [data : Int, calls : Int, clients : Int, fails : {0, 1}],
           \A m \in Loops, e \in Calls : Has(todo, m, e) => CallOK(m, e)' \/ (Shared(e.c) => Shared(e.c)')
    PROVE  ServerInv'
<1>2. /\ Types /\ StageOK /\ OrderOK /\ RestOK /\ OnceOK /\ ActiveOK /\ UserOK
  BY DEF ServerInv, Base
<1>3. rest' = rest /\ todo' = todo
  BY DEF rest, todo
<1>4. Types' /\ StageOK' /\ OrderOK' /\ RestOK' /\ OnceOK'
  BY <1>2, <1>3 DEF Types, StageOK, OrderOK, RestOK, OnceOK, StaysPut
<1>50. conn' = conn /\ dial' = dial /\ connector' = connector
  BY DEF StaysPut
<1>5. ActiveOK'
  <2>1. \A d : Under({"handleConnect"}, d)' <=> Under({"handleConnect"}, d)
    BY <1>3 DEF Under
  <2> QED BY <1>2, <1>50, <2>1, ActiveStays
<1> QED BY <1>3, <1>4, <1>5, FrameStep

(* A user looks at state_ before it sends. *)
LEMMA UserCheckKeeps ==
    ASSUME Friendly, ServerInv, NEW u \in Users, NEW o \in UserOps, NEW c \in Conns, UserCheck(u, o, c)
    PROVE  ServerInv'
<1>1. o = "send" /\ UserOps # {}
  BY DEF Friendly
<1>2. /\ Running /\ c \in user[u].holds
      /\ user' = [user EXCEPT ![u].pc = "push", ![u].op = o, ![u].c = c]
      /\ left' = [left EXCEPT !.calls = left.calls - 1]
      /\ conn' = conn /\ tasks' = tasks /\ round' = round /\ work' = work /\ peer' = peer
      /\ connection_map_' = connection_map_ /\ thread_pool_' = thread_pool_
      /\ connector' = connector /\ dial' = dial /\ poller' = poller /\ fault' = fault
  BY <1>1 DEF UserCheck, serverVars, connectorVars
<1>3. Types /\ UserOK
  BY DEF ServerInv, Base
<1>4. /\ left' \in [data : Int, calls : Int, clients : Int, fails : {0, 1}]
      /\ left'.fails = left.fails
  <2>1. left \in [data : Int, calls : Int, clients : Int, fails : {0, 1}]
    BY <1>3 DEF Types
  <2>2. left' = [left EXCEPT !.calls = left.calls - 1]
    BY <1>2
  <2> QED BY ONLY <2>1, <2>2
<1>5. user \in [Users -> UserRec] /\ "send" \in Ops
  BY <1>3 DEF Types, Ops
<1>6. /\ user' \in [Users -> UserRec]
      /\ \A v \in Users : v # u => user'[v] = user[v]
      /\ user'[u].holds = user[u].holds /\ user'[u].pc = "push" /\ user'[u].op = "send"
      /\ user'[u].c = c
  <2>1. user' = [user EXCEPT ![u] = [user[u] EXCEPT !.pc = "push", !.op = o, !.c = c]]
    BY <1>2, <1>5
  <2>2. [user[u] EXCEPT !.pc = "push", !.op = o, !.c = c] \in UserRec
    BY <1>1, <1>5 DEF UserRec
  <2>3. /\ user' \in [Users -> UserRec]
        /\ user'[u] = [user[u] EXCEPT !.pc = "push", !.op = o, !.c = c]
        /\ \A v \in Users : v # u => user'[v] = user[v]
    BY <1>5, <2>1, <2>2
  <2> QED BY <1>1, <1>5, <2>3 DEF UserRec
<1>7. UserOK'
  BY <1>1, <1>2, <1>3, <1>6 DEF UserOK, Made, Up, Down
<1>8. \A x : Shared(x) => Shared(x)'
  BY <1>6 DEF Shared
<1>9. StaysPut
  BY <1>2, <1>4 DEF StaysPut
<1>10. /\ Running /\ tasks' = tasks /\ round' = round /\ work' = work /\ peer' = peer
  BY <1>2
<1> QED BY ONLY ServerInv, <1>4, <1>6, <1>7, <1>8, <1>9, <1>10, UserFrame

(* ... and queues the task, bound to a raw this: it still holds the        *)
(* pointer.                                                                *)
LEMMA UserPushKeeps ==
    ASSUME ServerInv, NEW u \in Users, UserPush(u)
    PROVE  ServerInv'
<1>1. /\ Types /\ StageOK /\ OrderOK /\ RestOK /\ OnceOK /\ ActiveOK /\ UserOK
  BY DEF ServerInv, Base
<1>2. /\ Running /\ user[u].pc = "push"
      /\ user' = [user EXCEPT ![u].pc = "idle", ![u].c = Timer]
      /\ conn' = conn /\ round' = round /\ work' = work /\ peer' = peer /\ left' = left
      /\ connection_map_' = connection_map_ /\ thread_pool_' = thread_pool_
      /\ connector' = connector /\ dial' = dial /\ poller' = poller /\ fault' = fault
  BY DEF UserPush, serverVars, connectorVars
<1>3. PICK c : c = user[u].c
  OBVIOUS
<1>4. /\ user[u].op = "send" /\ UserOps # {} /\ c \in user[u].holds /\ Made(c)
  BY <1>1, <1>2, <1>3 DEF UserOK
<1>5. user \in [Users -> UserRec] /\ c \in Conns
  BY <1>1, <1>3, <1>4 DEF Types, UserRec
<1>6. PICK k \in Loops : k = conn[c].loop
  BY <1>1, <1>5 DEF Types, ConnRec
<1>7. PICK e \in Calls : e = Call("sendInLoop", c, FALSE)
  BY <1>5 DEF Calls, Call, Functions
<1>70. e.fn = "sendInLoop" /\ e.c = c /\ ~e.ref
  BY <1>7 DEF Call
<1>8. Queue(k, e)
  BY <1>3, <1>4, <1>6, <1>7 DEF UserPush
<1>9. SameBatch
  BY <1>2 DEF SameBatch
<1>10. rest' = Add(rest, k, e) /\ todo' = Add(todo, k, e)
  BY <1>1, <1>2, <1>8, <1>9, QueueIs
<1>11. /\ user' \in [Users -> UserRec]
       /\ \A v \in Users : v # u => user'[v] = user[v]
       /\ user'[u].holds = user[u].holds /\ user'[u].pc = "idle"
  <2>1. user' = [user EXCEPT ![u] = [user[u] EXCEPT !.pc = "idle", !.c = Timer]]
    BY <1>2, <1>5
  <2>2. [user[u] EXCEPT !.pc = "idle", !.c = Timer] \in UserRec
    BY <1>5 DEF UserRec
  <2>3. /\ user' \in [Users -> UserRec]
        /\ user'[u] = [user[u] EXCEPT !.pc = "idle", !.c = Timer]
        /\ \A v \in Users : v # u => user'[v] = user[v]
    BY <1>5, <2>1, <2>2
  <2> QED BY <1>5, <2>3 DEF UserRec
<1>12. UserOK'
  BY <1>1, <1>2, <1>11 DEF UserOK, Made, Up, Down
<1>13. \A x : Shared(x) => Shared(x)'
  BY <1>11 DEF Shared
<1>14. StaysPut
  BY <1>2 DEF StaysPut
<1>15. tasks' \in [Loops -> Seq(Calls)]
  BY <1>1, <1>8 DEF Queue, Types
<1>16. Types'
  BY <1>1, <1>2, <1>11, <1>15 DEF Types
<1>17. StageOK' /\ OrderOK'
  BY <1>1, <1>2 DEF StageOK, OrderOK
<1>18. rest \in Vectors /\ todo \in Vectors
  BY <1>1, TodoIs
<1>19. \A m \in Loops, x \in Calls :
          /\ Has(rest', m, x) <=> Has(rest, m, x) \/ (m = k /\ x = e)
          /\ Has(todo', m, x) <=> Has(todo, m, x) \/ (m = k /\ x = e)
  BY <1>10, <1>18, HasAdd
<1>20. RestOK'
  BY <1>1, <1>19, <1>70 DEF RestOK, TaskFns
<1>21. OnceOK'
  <2>1. e.fn \notin LifeFns
    BY <1>70 DEF LifeFns
  <2> QED BY <1>1, <1>10, <1>18, <2>1, OnceAdd DEF OnceOK
<1>22. ActiveOK'
  <2>1. \A d : Under({"handleConnect"}, d)' <=> Under({"handleConnect"}, d)
    BY <1>19, <1>70 DEF Under
  <2> QED BY <1>1, <1>2, <2>1, ActiveStays
<1>23. CallOK(k, e)'
  <2>1. Shared(c)' /\ Made(c)' /\ k = conn'[c].loop
    BY <1>2, <1>4, <1>6, <1>13 DEF Shared, Made, Up, Down
  <2> QED BY <1>4, <1>5, <1>70, <2>1 DEF CallOK, DialFns, MayDangle
<1>24. ASSUME NEW m \in Loops, NEW x \in Calls
       PROVE  /\ Has(todo, m, x) => Has(todo', m, x)
              /\ x.fn \in LastCalls /\ Has(todo', m, x) => Has(todo, m, x)
              /\ Has(todo', m, x) => CallOK(m, x)' \/ (Has(todo, m, x) /\ (Shared(x.c) => Shared(x.c)'))
  BY <1>13, <1>19, <1>23, <1>70 DEF LastCalls
<1> QED BY ONLY ServerInv, <1>2, <1>12, <1>14, <1>16, <1>17, <1>20, <1>21, <1>22, <1>24, FrameStep

(* What is still to be called, bound to a raw pointer, is what RawPending  *)
(* looks at.                                                               *)
LEMMA TodoRaw ==
    ASSUME Types, StageOK, NEW l \in Loops, NEW e \in Calls, Has(todo, l, e), e.fn = "sendInLoop"
    PROVE  RawPending(e.c)
<1>1. Has(work, l, e) \/ Has(rest, l, e)
  BY TodoIs
<1>2. CASE Has(work, l, e)
  BY <1>2 DEF Has, RawPending
<1>3. CASE Has(rest, l, e)
  <2> DEFINE b == round[l].batch
             v == SubSeq(b, round[l].next, Len(b))
             t == tasks[l]
  <2>1. b \in Seq(Calls) /\ t \in Seq(Calls) /\ round[l].next \in 1 .. Len(b) + 1
    BY DEF Types, Rounds, StageOK
  <2>3. PICK i \in DOMAIN (v \o t) : (v \o t)[i] = e
    BY <1>3 DEF Has, rest
  <2>4. v = SubSeq(b, round[l].next, Len(b))
    OBVIOUS
  <2>5. (\E j \in DOMAIN b : b[j] = e) \/ (\E j \in DOMAIN t : t[j] = e)
    <3> HIDE DEF b, v, t
    <3> QED BY ONLY <2>1, <2>3, <2>4, EndMembers
  <2> QED BY <2>5 DEF RawPending
<1> QED BY <1>1, <1>2, <1>3

(* A call on an object that was freed can only be one that send() bound to *)
(* a raw this, of a thread that let its pointer go.                        *)
LEMMA CallFaultsIs ==
    ASSUME ServerInv, NEW l \in Loops, CallFaults(l)
    PROVE  MayDangle /\ Callee(l) \in Conns /\ Freed(Callee(l)) /\ RawPending(Callee(l))
<1>1. Running /\ work[l] # <<>> /\ Freed(Callee(l))
  BY DEF CallFaults
<1>2. Base /\ Types /\ StageOK /\ CallsOK /\ ConnOK
  BY DEF ServerInv, Base
<1>3. PICK e : e = Head(work[l])
  OBVIOUS
<1>4. e \in Calls /\ Has(todo, l, e)
  <2>1. /\ todo \in Vectors /\ work \in Vectors /\ todo[l] # <<>> /\ Head(todo[l]) = Head(work[l])
    BY <1>1, <1>2, TodoIs
  <2> QED BY <1>1, <1>3, <2>1, HasPop, VecPop
<1>5. CallOK(l, e) /\ e.c \in Conns /\ Freed(e.c)
  BY <1>1, <1>2, <1>3, <1>4 DEF CallsOK, Callee, Freed
<1>6. ~e.ref
  BY <1>2, <1>4, <1>5, TodoBound DEF Freed
<1>7. ~Linked(e.c)
  BY <1>2, <1>5, LinkedHeld
<1>8. ~Up(e.c)
  BY <1>2, <1>5, <1>7 DEF ConnOK, Linked
<1>9. ~Shared(e.c)
  BY <1>5 DEF Shared, Freed, Held
<1>10. e.c \notin Dials /\ e.fn \in Functions
  BY <1>4, <1>5, ServerAssumption DEF Calls
<1>11. e.fn = "sendInLoop" /\ MayDangle
  BY <1>5, <1>6, <1>7, <1>8, <1>9, <1>10 DEF CallOK, DialFns, Functions
<1>12. RawPending(e.c)
  BY <1>2, <1>4, <1>11, TodoRaw
<1> QED BY <1>3, <1>5, <1>11, <1>12 DEF Callee

(* The process dies of such a call. *)
LEMMA CallFaultsKeeps ==
    ASSUME ServerInv, NEW l \in Loops, CallFaults(l)
    PROVE  ServerInv'
  BY FaultStep DEF CallFaults, serverVars, connectorVars

(* A user lets go of a pointer that no task relies on, or drops it anyway. *)
LEMMA UserDropKeeps ==
    ASSUME ServerInv, NEW u \in Users, NEW c \in Conns, UserDrop(u, c)
    PROVE  ServerInv'
<1>1. Types /\ StageOK /\ UserOK /\ CallsOK
  BY DEF ServerInv, Base
<1>2. /\ Running /\ user[u].pc = "idle" /\ (EagerDrop \/ ~RawPending(c))
      /\ user' = [user EXCEPT ![u].holds = user[u].holds \ {c}]
      /\ conn' = conn /\ tasks' = tasks /\ round' = round /\ work' = work /\ peer' = peer
      /\ left' = left
      /\ connection_map_' = connection_map_ /\ thread_pool_' = thread_pool_
      /\ connector' = connector /\ dial' = dial /\ poller' = poller /\ fault' = fault
  BY DEF UserDrop, serverVars, connectorVars
<1>3. user \in [Users -> UserRec]
  BY <1>1 DEF Types
<1>4. /\ user' \in [Users -> UserRec]
      /\ \A v \in Users : v # u => user'[v] = user[v]
      /\ user'[u].holds = user[u].holds \ {c} /\ user'[u].pc = "idle"
  <2>1. user' = [user EXCEPT ![u] = [user[u] EXCEPT !.holds = user[u].holds \ {c}]]
    BY <1>2, <1>3
  <2>2. [user[u] EXCEPT !.holds = user[u].holds \ {c}] \in UserRec
    BY <1>3 DEF UserRec
  <2>3. /\ user' \in [Users -> UserRec]
        /\ user'[u] = [user[u] EXCEPT !.holds = user[u].holds \ {c}]
        /\ \A v \in Users : v # u => user'[v] = user[v]
    BY <1>3, <2>1, <2>2
  <2> QED BY <1>2, <1>3, <2>3 DEF UserRec
<1>5. UserOK'
  BY <1>1, <1>2, <1>4 DEF UserOK, Made, Up, Down
<1>6. \A x : x # c => (Shared(x) => Shared(x)')
  BY <1>4 DEF Shared
<1>7. StaysPut
  BY <1>2 DEF StaysPut
<1>8. todo' = todo
  BY <1>2 DEF todo, rest
<1>9. ASSUME NEW m \in Loops, NEW e \in Calls, Has(todo, m, e)
      PROVE  CallOK(m, e)' \/ (Shared(e.c) => Shared(e.c)')
  <2>1. CASE e.c # c
    BY <1>6, <2>1
  <2>2. CASE e.c = c
    <3>1. CallOK(m, e)
      BY <1>1, <1>9 DEF CallsOK
    <3>2. e.fn = "sendInLoop" => e.ref \/ MayDangle
      BY <1>1, <1>2, <1>9, <2>2, <3>1, TodoRaw DEF CallOK
    <3> QED BY <1>2, <1>8, <3>1, <3>2
            DEF CallOK, Made, Up, Down, Linked, InMap, Dying, Waits
  <2> QED BY <2>1, <2>2
<1>10. left' \in [data : Int, calls : Int, clients : Int, fails : {0, 1}]
  BY <1>1, <1>2 DEF Types
<1>11. /\ Running /\ tasks' = tasks /\ round' = round /\ work' = work /\ peer' = peer
  BY <1>2
<1> QED BY ONLY ServerInv, <1>4, <1>5, <1>7, <1>9, <1>10, <1>11, UserFrame

(* A user that only sends never writes state_. *)
LEMMA NoUserSet ==
    ASSUME ServerInv, NEW u \in Users
    PROVE  ~UserSet(u)
  BY DEF ServerInv, Base, UserOK, UserSet
=============================================================================
