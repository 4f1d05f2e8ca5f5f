-------------------------- MODULE TimerQueueProofs --------------------------
(***************************************************************************)
(* Proofs about TimerQueue, for any set of timers, delays and intervals    *)
(* and any length of time.                                                 *)
(*                                                                         *)
(* The first part is about the multimaps as sequences: upper_bound splits  *)
(* one in two, an insertion keeps it sorted and free of duplicates, and so *)
(* does the re-insertion of any number of timers.  The last is a proof by  *)
(* induction, from the least number for which it would fail.               *)
(***************************************************************************)
EXTENDS TimerQueue, SequenceTheorems, WellFoundedInduction, NaturalsInduction, TLAPS

TimerFcns ==
    [Timers -> [created : BOOLEAN, expiration : Int, first : Int, duration : Nat]]

Sorted(s, tm) ==
    \A i, j \in 1 .. Len(s) : i <= j => tm[s[i]].expiration <= tm[s[j]].expiration

Distinct(s) == \A i, j \in 1 .. Len(s) : s[i] = s[j] => i = j

-----------------------------------------------------------------------------
(* Numbers and sequences.                                                  *)

(* Every set of natural numbers that is not empty has a least element.     *)
LEMMA LeastOf ==
    ASSUME NEW T \in SUBSET Nat, T # {}
    PROVE  \E n \in T : \A m \in T : n <= m
<1> DEFINE R == OpToRel(<, Nat)
<1>1. IsWellFoundedOn(R, Nat)
  BY NatLessThanWellFounded
<1> HIDE DEF R
<1>2. PICK n \in T : \A m \in T : ~(<<m, n>> \in R)
  BY <1>1, WFMin
<1>3. \A m, k \in Nat : m < k => <<m, k>> \in R
  BY DEF R, OpToRel
<1>4. \A m \in T : m \in Nat /\ n \in Nat
  OBVIOUS
<1>5. \A m \in T : ~(m < n)
  BY <1>2, <1>3, <1>4, Zenon
<1>6. \A m \in T : n <= m
  BY <1>4, <1>5
<1> QED
  BY <1>6

(* A set of naturals that holds 0 and, with every number below L, the next *)
(* one, holds all numbers up to L.                                         *)
LEMMA UpTo ==
    ASSUME NEW L \in Nat, NEW G, 0 \in G, \A n \in 0 .. L - 1 : n \in G => n + 1 \in G
    PROVE  \A n \in 0 .. L : n \in G
<1> DEFINE T == {n \in 0 .. L : n \notin G}
<1> SUFFICES ASSUME T # {} PROVE FALSE
  OBVIOUS
<1>1. T \in SUBSET Nat
  OBVIOUS
<1> HIDE DEF T
<1>2. PICK n \in T : \A m \in T : n <= m
  BY <1>1, LeastOf
<1>3. n \in 0 .. L /\ n \notin G
  BY DEF T
<1>4. n - 1 \in 0 .. L - 1
  BY <1>3
<1>5. n - 1 \notin T
  BY <1>2, <1>3
<1>6. n - 1 \in G
  BY <1>4, <1>5 DEF T
<1>7. (n - 1) + 1 \in G
  BY <1>4, <1>6
<1> QED
  BY <1>3, <1>7

(* One sequence behind the other. *)
LEMMA Joined ==
    ASSUME NEW p \in Seq(Timers), NEW q \in Seq(Timers)
    PROVE  /\ p \o q \in Seq(Timers) /\ Len(p \o q) = Len(p) + Len(q)
           /\ \A i \in 1 .. Len(p) : (p \o q)[i] = p[i]
           /\ \A i \in 1 .. Len(q) : (p \o q)[Len(p) + i] = q[i]
<1>1. Len(p) \in Nat /\ Len(q) \in Nat
  OBVIOUS
<1>2. p \o q \in Seq(Timers) /\ Len(p \o q) = Len(p) + Len(q)
  OBVIOUS
<1>3. \A i \in 1 .. Len(p) : (p \o q)[i] = p[i]
  BY <1>1
<1>4. \A i \in 1 .. Len(q) : (p \o q)[Len(p) + i] = q[i]
  BY <1>1
<1> QED
  BY <1>2, <1>3, <1>4

(* The members of a sequence. *)
LEMMA InIs ==
    ASSUME NEW s \in Seq(Timers)
    PROVE  /\ Len(s) \in Nat
           /\ DOMAIN s = 1 .. Len(s)
           /\ \A i \in 1 .. Len(s) : s[i] \in Timers /\ In(s[i], s)
           /\ \A t : In(t, s) <=> \E i \in 1 .. Len(s) : s[i] = t
           /\ \A t : In(t, s) => t \in Timers
<1>1. Len(s) \in Nat /\ DOMAIN s = 1 .. Len(s)
  OBVIOUS
<1>2. \A i \in 1 .. Len(s) : s[i] \in Timers
  OBVIOUS
<1>3. \A t : In(t, s) <=> \E i \in 1 .. Len(s) : s[i] = t
  BY <1>1 DEF In
<1> QED
  BY <1>1, <1>2, <1>3

-----------------------------------------------------------------------------
(* Multimaps.                                                              *)

(* upper_bound: it is a place of s or the end, and separates what is due   *)
(* from the next timer; in a sorted multimap, from all others.             *)
LEMMA UpperBoundSplits ==
    ASSUME NEW s \in Seq(Timers), NEW tm \in TimerFcns, NEW e \in Int
    PROVE  LET u == UpperBound(s, tm, e) IN
           /\ u \in 1 .. Len(s) + 1
           /\ u <= Len(s) => tm[s[u]].expiration > e
           /\ \A j \in 1 .. u - 1 : tm[s[j]].expiration <= e
           /\ Sorted(s, tm) => \A j \in u .. Len(s) : tm[s[j]].expiration > e
<1> DEFINE L == Len(s)
           P(i) == /\ i <= L => tm[s[i]].expiration > e
                   /\ \A j \in 1 .. i - 1 : tm[s[j]].expiration <= e
           T == {i \in 1 .. L + 1 : i <= L => tm[s[i]].expiration > e}
<1>1. L \in Nat
  OBVIOUS
<1>2. \A i \in 1 .. L : tm[s[i]].expiration \in Int
  <2>1. \A i \in 1 .. L : s[i] \in Timers
    OBVIOUS
  <2> QED
    BY <2>1 DEF TimerFcns
<1> HIDE DEF L
<1>3. T \in SUBSET Nat /\ L + 1 \in T
  BY <1>1
<1>4. PICK u \in T : \A m \in T : u <= m
  BY <1>3, LeastOf
<1>5. u \in 1 .. L + 1 /\ (u <= L => tm[s[u]].expiration > e)
  OBVIOUS
<1>6. \A j \in 1 .. u - 1 : tm[s[j]].expiration <= e
  <2> TAKE j \in 1 .. u - 1
  <2>1. j \in 1 .. L /\ j < u
    BY <1>1, <1>5
  <2>2. j \notin T
    BY <1>4, <2>1, <1>5
  <2>3. ~(tm[s[j]].expiration > e)
    BY <2>1, <2>2, <1>1
  <2> QED
    BY <2>1, <2>3, <1>2
<1>7. \E i \in 1 .. L + 1 : P(i)
  BY <1>5, <1>6
<1>8. UpperBound(s, tm, e) = CHOOSE i \in 1 .. L + 1 : P(i)
  BY DEF UpperBound, L
<1> HIDE DEF P
<1>9. UpperBound(s, tm, e) \in 1 .. L + 1 /\ P(UpperBound(s, tm, e))
  BY <1>7, <1>8
<1> DEFINE v == UpperBound(s, tm, e)
<1>10. /\ v \in 1 .. L + 1
       /\ v <= L => tm[s[v]].expiration > e
       /\ \A j \in 1 .. v - 1 : tm[s[j]].expiration <= e
  BY <1>9 DEF P
<1> HIDE DEF v
<1>11. ASSUME Sorted(s, tm), NEW j \in v .. L
       PROVE  tm[s[j]].expiration > e
  <2>1. v \in 1 .. L /\ j \in 1 .. L /\ v <= j
    BY <1>1, <1>10
  <2>2. tm[s[v]].expiration <= tm[s[j]].expiration
    BY <1>11, <2>1 DEF Sorted, L
  <2> QED
    BY <1>2, <1>10, <2>1, <2>2
<1>12. v = UpperBound(s, tm, e)
  BY DEF v
<1> QED
  BY <1>10, <1>11, <1>12 DEF L

(* The two halves. *)
LEMMA Halves ==
    ASSUME NEW s \in Seq(Timers), NEW tm \in TimerFcns, NEW e \in Int,
           Sorted(s, tm), Distinct(s)
    PROVE  LET d == Due(s, tm, e)
               l == Later(s, tm, e)
           IN  /\ d \in Seq(Timers) /\ Distinct(d)
               /\ l \in Seq(Timers) /\ Distinct(l) /\ Sorted(l, tm)
               /\ \A t : In(t, d) <=> In(t, s) /\ tm[t].expiration <= e
               /\ \A t : In(t, l) <=> In(t, s) /\ ~(tm[t].expiration <= e)
<1> DEFINE u == UpperBound(s, tm, e)
           d == SubSeq(s, 1, u - 1)
           l == SubSeq(s, u, Len(s))
<1>1. /\ u \in 1 .. Len(s) + 1
      /\ \A j \in 1 .. u - 1 : tm[s[j]].expiration <= e
      /\ \A j \in u .. Len(s) : tm[s[j]].expiration > e
  BY UpperBoundSplits
<1> HIDE DEF u
<1>2. Len(s) \in Nat /\ (\A i \in 1 .. Len(s) : s[i] \in Timers)
  OBVIOUS
<1>3. /\ d \in Seq(Timers) /\ Len(d) = u - 1
      /\ \A i \in 1 .. u - 1 : d[i] = s[i]
  BY <1>1, <1>2
<1>4. /\ l \in Seq(Timers) /\ Len(l) = Len(s) + 1 - u
      /\ \A i \in 1 .. Len(s) + 1 - u : l[i] = s[u + i - 1]
  BY <1>1, <1>2
<1>5. Due(s, tm, e) = d /\ Later(s, tm, e) = l
  BY DEF Due, Later, u
<1> HIDE DEF d, l
<1>6. Distinct(d)
  BY <1>1, <1>2, <1>3 DEF Distinct
<1>7. \A i \in 1 .. Len(l) : u + i - 1 \in 1 .. Len(s) /\ l[i] = s[u + i - 1]
  BY <1>1, <1>2, <1>4
<1>8. Distinct(l)
  <2> SUFFICES ASSUME NEW i \in 1 .. Len(l), NEW j \in 1 .. Len(l), l[i] = l[j]
               PROVE  i = j
    BY DEF Distinct
  <2>1. u + i - 1 = u + j - 1
    BY <1>7 DEF Distinct
  <2> QED
    BY <1>1, <1>2, <1>4, <2>1
<1>9. Sorted(l, tm)
  <2> SUFFICES ASSUME NEW i \in 1 .. Len(l), NEW j \in 1 .. Len(l), i <= j
               PROVE  tm[l[i]].expiration <= tm[l[j]].expiration
    BY DEF Sorted
  <2>1. u + i - 1 <= u + j - 1
    BY <1>1, <1>2, <1>4
  <2> QED
    BY <1>7, <2>1 DEF Sorted
<1>10. ASSUME NEW t PROVE In(t, d) <=> In(t, s) /\ tm[t].expiration <= e
  <2>1. ASSUME In(t, d) PROVE In(t, s) /\ tm[t].expiration <= e
    <3>1. PICK i \in 1 .. Len(d) : d[i] = t
      BY <1>3, <2>1, InIs
    <3>2. i \in 1 .. Len(s) /\ s[i] = t /\ tm[t].expiration <= e
      BY <1>1, <1>2, <1>3, <3>1
    <3> QED
      BY <3>2, InIs
  <2>2. ASSUME In(t, s), tm[t].expiration <= e PROVE In(t, d)
    <3>1. PICK i \in 1 .. Len(s) : s[i] = t
      BY <2>2, InIs
    <3>2. tm[t].expiration \in Int
      BY <1>2, <3>1 DEF TimerFcns
    <3>3. i \in 1 .. u - 1
      BY <1>1, <1>2, <2>2, <3>1, <3>2
    <3>4. d[i] = t /\ i \in 1 .. Len(d)
      BY <1>3, <3>1, <3>3
    <3> QED
      BY <1>3, <3>4, InIs
  <2> QED
    BY <2>1, <2>2
<1>11. ASSUME NEW t PROVE In(t, l) <=> In(t, s) /\ ~(tm[t].expiration <= e)
  <2>1. ASSUME In(t, l) PROVE In(t, s) /\ ~(tm[t].expiration <= e)
    <3>1. PICK i \in 1 .. Len(l) : l[i] = t
      BY <1>4, <2>1, InIs
    <3>2. u + i - 1 \in 1 .. Len(s) /\ s[u + i - 1] = t
      BY <1>7, <3>1
    <3>3. u + i - 1 \in u .. Len(s)
      BY <1>1, <1>2, <1>4, <3>1
    <3>4. tm[t].expiration > e /\ tm[t].expiration \in Int
      BY <1>1, <1>2, <3>2, <3>3 DEF TimerFcns
    <3> QED
      BY <3>2, <3>4, InIs
  <2>2. ASSUME In(t, s), ~(tm[t].expiration <= e) PROVE In(t, l)
    <3>1. PICK i \in 1 .. Len(s) : s[i] = t
      BY <2>2, InIs
    <3>2. i \in u .. Len(s)
      BY <1>1, <1>2, <2>2, <3>1
    <3>3. i + 1 - u \in 1 .. Len(l) /\ l[i + 1 - u] = s[u + (i + 1 - u) - 1]
      BY <1>1, <1>2, <1>4, <3>2
    <3>4. u + (i + 1 - u) - 1 = i
      BY <1>1, <1>2, <3>2
    <3>5. l[i + 1 - u] = t
      BY <3>1, <3>3, <3>4
    <3> QED
      BY <1>4, <3>3, <3>5, InIs
  <2> QED
    BY <2>1, <2>2
<1> QED
  BY <1>3, <1>4, <1>5, <1>6, <1>8, <1>9, <1>10, <1>11

(* Where an insertion puts a timer: after all that expire no later, before *)
(* all that expire later.  The others keep their order.                    *)
Placed(r, s, tm, t, k) ==
    /\ k \in 0 .. Len(s)
    /\ r \in Seq(Timers)
    /\ Len(r) = Len(s) + 1
    /\ \A i \in 1 .. k : r[i] = s[i] /\ tm[s[i]].expiration <= tm[t].expiration
    /\ r[k + 1] = t
    /\ \A i \in k + 1 .. Len(s) :
          r[i + 1] = s[i] /\ tm[s[i]].expiration > tm[t].expiration

(* Insert is such an insertion. *)
LEMMA InsertPlaces ==
    ASSUME NEW s \in Seq(Timers), NEW tm \in TimerFcns, NEW t \in Timers, Sorted(s, tm)
    PROVE  \E k \in 0 .. Len(s) : Placed(Insert(s, tm, t), s, tm, t, k)
<1> DEFINE e == tm[t].expiration
           u == UpperBound(s, tm, e)
           d == SubSeq(s, 1, u - 1)
           l == SubSeq(s, u, Len(s))
           r == d \o <<t>> \o l
<1>1. e \in Int
  BY DEF TimerFcns
<1> HIDE DEF e
<1>2. /\ u \in 1 .. Len(s) + 1
      /\ \A j \in 1 .. u - 1 : tm[s[j]].expiration <= e
      /\ \A j \in u .. Len(s) : tm[s[j]].expiration > e
  BY <1>1, UpperBoundSplits
<1> HIDE DEF u
<1>3. Len(s) \in Nat /\ (\A i \in 1 .. Len(s) : s[i] \in Timers)
  OBVIOUS
<1>4. /\ d \in Seq(Timers) /\ Len(d) = u - 1
      /\ \A i \in 1 .. u - 1 : d[i] = s[i]
  BY <1>2, <1>3
<1>5. /\ l \in Seq(Timers) /\ Len(l) = Len(s) + 1 - u
      /\ \A i \in 1 .. Len(s) + 1 - u : l[i] = s[u + i - 1]
  BY <1>2, <1>3
<1>6. Insert(s, tm, t) = r
  BY DEF Insert, Due, Later, u, e
<1> HIDE DEF d, l
<1>7. /\ r \in Seq(Timers)
      /\ Len(r) = Len(s) + 1
      /\ \A i \in 1 .. u - 1 : r[i] = d[i]
      /\ r[u] = t
      /\ \A i \in 1 .. Len(s) + 1 - u : r[u + i] = l[i]
  <2> DEFINE q == d \o <<t>>
  <2>1. /\ q \in Seq(Timers) /\ Len(q) = u
        /\ \A i \in 1 .. u - 1 : q[i] = d[i]
        /\ q[u] = t
    BY <1>2, <1>3, <1>4
  <2>2. r = q \o l
    OBVIOUS
  <2> HIDE DEF q, r
  <2>3. /\ r \in Seq(Timers) /\ Len(r) = Len(q) + Len(l)
        /\ \A i \in 1 .. Len(q) : r[i] = q[i]
        /\ \A i \in 1 .. Len(l) : r[Len(q) + i] = l[i]
    BY <1>5, <2>1, <2>2, Joined
  <2>4. u \in Nat /\ (\A i \in 1 .. u - 1 : i \in 1 .. u) /\ u \in 1 .. u
    BY <1>2, <1>3
  <2>5. u + (Len(s) + 1 - u) = Len(s) + 1
    BY <1>2, <1>3
  <2> QED
    BY <1>5, <2>1, <2>3, <2>4, <2>5
<1> HIDE DEF r
<1>8. \A i \in 1 .. u - 1 : r[i] = s[i]
  BY <1>4, <1>7
<1>9. ASSUME NEW i \in u .. Len(s) PROVE r[i + 1] = s[i]
  <2>1. i + 1 - u \in 1 .. Len(s) + 1 - u
    BY <1>2, <1>3
  <2>2. u + (i + 1 - u) = i + 1 /\ u + (i + 1 - u) - 1 = i
    BY <1>2, <1>3
  <2>3. r[u + (i + 1 - u)] = l[i + 1 - u] /\ l[i + 1 - u] = s[u + (i + 1 - u) - 1]
    BY <1>5, <1>7, <2>1
  <2> QED
    BY <2>2, <2>3
<1>10. u - 1 \in 0 .. Len(s) /\ (u - 1) + 1 = u
  BY <1>2, <1>3
<1>11. Placed(r, s, tm, t, u - 1)
  BY <1>2, <1>7, <1>8, <1>9, <1>10 DEF Placed, e
<1> QED
  BY <1>6, <1>10, <1>11

(* An insertion keeps a multimap sorted and free of duplicates, and adds   *)
(* the timer.                                                              *)
LEMMA InsertKeeps ==
    ASSUME NEW s \in Seq(Timers), NEW tm \in TimerFcns, NEW t \in Timers,
           Sorted(s, tm), Distinct(s), ~In(t, s)
    PROVE  LET r == Insert(s, tm, t) IN
           /\ r \in Seq(Timers) /\ Sorted(r, tm) /\ Distinct(r)
           /\ \A x : In(x, r) <=> In(x, s) \/ x = t
<1> DEFINE r == Insert(s, tm, t)
<1>1. PICK k \in 0 .. Len(s) : Placed(r, s, tm, t, k)
  BY InsertPlaces
<1> HIDE DEF r
<1>2. /\ r \in Seq(Timers) /\ Len(r) = Len(s) + 1
      /\ \A i \in 1 .. k : r[i] = s[i] /\ tm[s[i]].expiration <= tm[t].expiration
      /\ r[k + 1] = t
      /\ \A i \in k + 1 .. Len(s) :
            r[i + 1] = s[i] /\ tm[s[i]].expiration > tm[t].expiration
  BY <1>1 DEF Placed
<1>3. Len(s) \in Nat /\ (\A i \in 1 .. Len(s) : s[i] \in Timers)
  OBVIOUS
<1>4. tm[t].expiration \in Int /\ \A i \in 1 .. Len(s) : tm[s[i]].expiration \in Int
  BY <1>3 DEF TimerFcns
<1>5. \A i \in 1 .. Len(s) : s[i] # t
  BY InIs
<1> DEFINE Old(i) == IF i <= k THEN i ELSE i - 1
<1>6. ASSUME NEW i \in 1 .. Len(r)
      PROVE  \/ i = k + 1 /\ r[i] = t
             \/ /\ i # k + 1 /\ Old(i) \in 1 .. Len(s) /\ r[i] = s[Old(i)]
                /\ i <= k => tm[s[Old(i)]].expiration <= tm[t].expiration
                /\ i > k => tm[s[Old(i)]].expiration > tm[t].expiration
  <2>1. CASE i <= k
    BY <1>2, <1>3, <2>1
  <2>2. CASE i = k + 1
    BY <1>2, <2>2
  <2>3. CASE i > k + 1
    <3>1. i - 1 \in k + 1 .. Len(s) /\ (i - 1) + 1 = i /\ Old(i) = i - 1
      BY <1>2, <1>3, <2>3
    <3>2. i - 1 \in 1 .. Len(s) /\ i > k /\ ~(i <= k) /\ i # k + 1
      BY <1>3, <2>3, <3>1
    <3> QED
      BY <1>2, <3>1, <3>2
  <2> QED
    BY <1>2, <1>3, <2>1, <2>2, <2>3
<1>7. Sorted(r, tm)
  <2> SUFFICES ASSUME NEW i \in 1 .. Len(r), NEW j \in 1 .. Len(r), i <= j
               PROVE  tm[r[i]].expiration <= tm[r[j]].expiration
    BY DEF Sorted
  <2>1. CASE i = k + 1 /\ j = k + 1
    BY <1>2, <1>4, <2>1
  <2>2. CASE i = k + 1 /\ j # k + 1
    <3>1. j > k
      BY <1>2, <1>3, <2>2
    <3>2. r[i] = t /\ Old(j) \in 1 .. Len(s) /\ r[j] = s[Old(j)]
          /\ tm[s[Old(j)]].expiration > tm[t].expiration
      BY <1>6, <2>2, <3>1
    <3> QED
      BY <1>4, <3>2
  <2>3. CASE i # k + 1 /\ j = k + 1
    <3>1. i <= k
      BY <1>2, <1>3, <2>3
    <3>2. r[j] = t /\ r[i] = s[Old(i)] /\ tm[s[Old(i)]].expiration <= tm[t].expiration
      BY <1>6, <2>3, <3>1
    <3> QED
      BY <3>2
  <2>4. CASE i # k + 1 /\ j # k + 1
    <3>1. /\ Old(i) \in 1 .. Len(s) /\ r[i] = s[Old(i)]
          /\ Old(j) \in 1 .. Len(s) /\ r[j] = s[Old(j)]
      BY <1>6, <2>4
    <3>2. Old(i) <= Old(j)
      BY <1>2, <1>3, <2>4
    <3> QED
      BY <3>1, <3>2 DEF Sorted
  <2> QED
    BY <2>1, <2>2, <2>3, <2>4
<1>8. Distinct(r)
  <2> SUFFICES ASSUME NEW i \in 1 .. Len(r), NEW j \in 1 .. Len(r), r[i] = r[j]
               PROVE  i = j
    BY DEF Distinct
  <2>1. CASE i = k + 1 \/ j = k + 1
    BY <1>5, <1>6, <2>1
  <2>2. CASE i # k + 1 /\ j # k + 1
    <3>1. /\ Old(i) \in 1 .. Len(s) /\ r[i] = s[Old(i)]
          /\ Old(j) \in 1 .. Len(s) /\ r[j] = s[Old(j)]
      BY <1>6, <2>2
    <3>2. Old(i) = Old(j)
      BY <3>1 DEF Distinct
    <3> QED
      BY <1>2, <1>3, <2>2, <3>2
  <2> QED
    BY <2>1, <2>2
<1>9. ASSUME NEW x PROVE In(x, r) <=> In(x, s) \/ x = t
  <2>1. ASSUME In(x, r) PROVE In(x, s) \/ x = t
    <3>1. PICK i \in 1 .. Len(r) : r[i] = x
      BY <1>2, <2>1, InIs
    <3>2. x = t \/ (Old(i) \in 1 .. Len(s) /\ s[Old(i)] = x)
      BY <1>6, <3>1
    <3> HIDE DEF Old
    <3> QED
      BY <3>2, InIs
  <2>2. ASSUME x = t PROVE In(x, r)
    <3>1. k + 1 \in 1 .. Len(r)
      BY <1>2, <1>3
    <3> QED
      BY <1>2, <2>2, <3>1, InIs
  <2>3. ASSUME In(x, s) PROVE In(x, r)
    <3>1. PICK i \in 1 .. Len(s) : s[i] = x
      BY <2>3, InIs
    <3>2. \E j \in 1 .. Len(r) : r[j] = x
      <4>1. CASE i <= k
        BY <1>2, <1>3, <3>1, <4>1
      <4>2. CASE i > k
        <5>1. i \in k + 1 .. Len(s) /\ i + 1 \in 1 .. Len(r)
          BY <1>2, <1>3, <4>2
        <5> QED
          BY <1>2, <3>1, <5>1
      <4> QED
        BY <1>3, <4>1, <4>2
    <3> QED
      BY <1>2, <3>2, InIs
  <2> QED
    BY <2>1, <2>2, <2>3
<1> QED
  BY <1>2, <1>7, <1>8, <1>9 DEF r

(* The recursion of InsertAll. *)
LEMMA InsertAllRecursion ==
    ASSUME NEW s, NEW tm, NEW u \in Seq(Timers)
    PROVE  \E w : /\ w = [n \in 0 .. Len(u) |->
                            IF n = 0 THEN s ELSE Insert(w[n - 1], tm, u[n])]
                  /\ InsertAll(s, tm, u) = w[Len(u)]
<1> DEFINE L == Len(u)
           Step(w, n) == IF n = 0 THEN s ELSE Insert(w[n - 1], tm, u[n])
           G == {n \in 0 .. L : \E w : w = [m \in 0 .. n |-> Step(w, m)]}
<1>1. L \in Nat
  OBVIOUS
<1> HIDE DEF L
<1>2. 0 \in G
  <2> DEFINE w == [m \in 0 .. 0 |-> s]
  <2>1. w = [m \in 0 .. 0 |-> Step(w, m)]
    OBVIOUS
  <2> HIDE DEF w, Step
  <2> QED
    BY <1>1, <2>1
<1>3. ASSUME NEW n \in 0 .. L - 1, n \in G PROVE n + 1 \in G
  <2>1. PICK w : w = [m \in 0 .. n |-> Step(w, m)]
    BY <1>3
  <2> DEFINE v == [m \in 0 .. n + 1 |-> Step(w, m)]
  <2>2. n \in Nat /\ n + 1 \in 0 .. L
    BY <1>1
  <2>3. \A m \in 0 .. n : v[m] = w[m]
    <3>1. \A m \in 0 .. n : m \in 0 .. n + 1
      BY <2>2
    <3>2. \A m \in 0 .. n : w[m] = Step(w, m)
      BY <2>1
    <3> HIDE DEF Step
    <3> QED
      BY <3>1, <3>2
  <2>4. \A m \in 0 .. n + 1 : Step(w, m) = Step(v, m)
    <3> TAKE m \in 0 .. n + 1
    <3>1. CASE m = 0
      BY <3>1
    <3>2. CASE m # 0
      <4>1. m - 1 \in 0 .. n
        BY <2>2, <3>2
      <4>2. v[m - 1] = w[m - 1]
        BY <2>3, <4>1
      <4> HIDE DEF v
      <4> QED
        BY <3>2, <4>2
    <3> QED
      BY <3>1, <3>2
  <2> HIDE DEF Step
  <2>5. v = [m \in 0 .. n + 1 |-> Step(v, m)]
    <3>1. v = [m \in 0 .. n + 1 |-> Step(w, m)]
      OBVIOUS
    <3> HIDE DEF v
    <3> QED
      BY <2>4, <3>1, Zenon
  <2> HIDE DEF v
  <2>6. \E x : x = [m \in 0 .. n + 1 |-> Step(x, m)]
    BY <2>5
  <2> QED
    BY <2>2, <2>6
<1> HIDE DEF G
<1>4. L \in G
  <2>1. \A n \in 0 .. L : n \in G
    BY <1>1, <1>2, <1>3, UpTo
  <2> QED
    BY <1>1, <2>1
<1>5. \E w : w = [n \in 0 .. L |-> Step(w, n)]
  BY <1>4 DEF G
<1> DEFINE with == CHOOSE w : w = [n \in 0 .. L |-> Step(w, n)]
<1>6. with = [n \in 0 .. L |-> Step(with, n)]
  <2> HIDE DEF Step
  <2> QED
    BY <1>5, Zenon
<1>7. InsertAll(s, tm, u) = with[L]
  BY DEF InsertAll, L
<1> HIDE DEF with
<1> QED
  BY <1>6, <1>7 DEF L

(* Re-insertion of any number of timers: nothing is lost or doubled, and   *)
(* the multimap stays sorted.                                              *)
LEMMA InsertAllKeeps ==
    ASSUME NEW s \in Seq(Timers), NEW tm \in TimerFcns, NEW u \in Seq(Timers),
           Sorted(s, tm), Distinct(s), Distinct(u), \A t : ~(In(t, s) /\ In(t, u))
    PROVE  LET r == InsertAll(s, tm, u) IN
           /\ r \in Seq(Timers) /\ Sorted(r, tm) /\ Distinct(r)
           /\ \A x : In(x, r) <=> In(x, s) \/ In(x, u)
<1> DEFINE L == Len(u)
           Good(q, n) == /\ q \in Seq(Timers) /\ Sorted(q, tm) /\ Distinct(q)
                         /\ \A x : In(x, q) <=> In(x, s) \/ \E i \in 1 .. n : u[i] = x
<1>1. PICK w : /\ w = [n \in 0 .. L |-> IF n = 0 THEN s ELSE Insert(w[n - 1], tm, u[n])]
               /\ InsertAll(s, tm, u) = w[L]
  BY InsertAllRecursion
<1>2. L \in Nat /\ \A i \in 1 .. L : u[i] \in Timers /\ In(u[i], u)
  BY InIs
<1>3. \A x : In(x, u) <=> \E i \in 1 .. L : u[i] = x
  BY InIs
<1>4. \A i, j \in 1 .. L : u[i] = u[j] => i = j
  BY DEF Distinct
<1> HIDE DEF L
<1>5. w[0] = s /\ \A n \in 0 .. L - 1 : w[n + 1] = Insert(w[n], tm, u[n + 1])
  <2>1. 0 \in 0 .. L /\ \A n \in 0 .. L - 1 : n + 1 \in 0 .. L /\ n + 1 # 0 /\ (n + 1) - 1 = n
    BY <1>2
  <2>2. \A m \in 0 .. L : w[m] = IF m = 0 THEN s ELSE Insert(w[m - 1], tm, u[m])
    BY <1>1
  <2> QED
    BY <2>1, <2>2
<1> DEFINE G == {n \in 0 .. L : Good(w[n], n)}
<1>6. 0 \in G
  <2>1. Good(w[0], 0)
    BY <1>5
  <2> QED
    BY <1>2, <2>1
<1>7. ASSUME NEW n \in 0 .. L - 1, n \in G PROVE n + 1 \in G
  <2>1. n \in Nat /\ n + 1 \in 0 .. L /\ n + 1 \in 1 .. L
    BY <1>2
  <2>2. Good(w[n], n)
    BY <1>7
  <2>3. u[n + 1] \in Timers /\ ~In(u[n + 1], w[n])
    <3>1. u[n + 1] \in Timers /\ ~In(u[n + 1], s)
      BY <1>2, <2>1
    <3>2. \A i \in 1 .. n : i \in 1 .. L /\ i # n + 1
      BY <1>2, <2>1
    <3>3. \A i \in 1 .. n : u[i] # u[n + 1]
      BY <1>4, <2>1, <3>2
    <3> QED
      BY <2>2, <3>1, <3>3
  <2>4. /\ w[n + 1] \in Seq(Timers) /\ Sorted(w[n + 1], tm) /\ Distinct(w[n + 1])
        /\ \A x : In(x, w[n + 1]) <=> In(x, w[n]) \/ x = u[n + 1]
    BY <1>5, <2>2, <2>3, InsertKeeps
  <2>5. \A x : (\E i \in 1 .. n + 1 : u[i] = x) <=> (\E i \in 1 .. n : u[i] = x) \/ x = u[n + 1]
    BY <2>1
  <2>6. Good(w[n + 1], n + 1)
    BY <2>2, <2>4, <2>5
  <2> HIDE DEF Good
  <2> QED
    BY <2>1, <2>6
<1> HIDE DEF G
<1>8. L \in G
  <2>1. \A n \in 0 .. L : n \in G
    BY <1>2, <1>6, <1>7, UpTo
  <2> QED
    BY <1>2, <2>1
<1>9. Good(w[L], L)
  BY <1>8 DEF G
<1> QED
  BY <1>1, <1>3, <1>9

(* deleteTimerInLoop: the timer is gone, the others stay in order. *)
LEMMA ErasedKeeps ==
    ASSUME NEW t \in Timers, repeat \in Seq(Timers), timer \in TimerFcns,
           Sorted(repeat, timer), Distinct(repeat)
    PROVE  /\ Erased(t) \in Seq(Timers) /\ Sorted(Erased(t), timer) /\ Distinct(Erased(t))
           /\ \A x : In(x, Erased(t)) <=> In(x, repeat) /\ x # t
<1>1. CASE ~In(t, repeat)
  <2>1. Erased(t) = repeat
    BY <1>1 DEF Erased, In
  <2> QED
    BY <1>1, <2>1
<1>2. CASE In(t, repeat)
  <2> DEFINE k == CHOOSE i \in DOMAIN repeat : repeat[i] = t
             d == SubSeq(repeat, 1, k - 1)
             l == SubSeq(repeat, k + 1, Len(repeat))
             r == d \o l
  <2>1. k \in DOMAIN repeat /\ repeat[k] = t
    BY <1>2 DEF In
  <2>2. Erased(t) = r
    BY <1>2 DEF Erased, In
  <2> HIDE DEF k
  <2>3. Len(repeat) \in Nat /\ k \in 1 .. Len(repeat)
    BY <2>1
  <2>4. /\ d \in Seq(Timers) /\ Len(d) = k - 1
        /\ \A i \in 1 .. k - 1 : d[i] = repeat[i]
    BY <2>3
  <2>5. /\ l \in Seq(Timers) /\ Len(l) = Len(repeat) - k
        /\ \A i \in 1 .. Len(repeat) - k : l[i] = repeat[k + i]
    BY <2>3
  <2> HIDE DEF d, l
  <2>6. /\ r \in Seq(Timers) /\ Len(r) = Len(repeat) - 1
        /\ \A i \in 1 .. k - 1 : r[i] = d[i]
        /\ \A i \in 1 .. Len(repeat) - k : r[(k - 1) + i] = l[i]
    <3>1. /\ r \in Seq(Timers) /\ Len(r) = Len(d) + Len(l)
          /\ \A i \in 1 .. Len(d) : r[i] = d[i]
          /\ \A i \in 1 .. Len(l) : r[Len(d) + i] = l[i]
      BY <2>4, <2>5, Joined
    <3>2. (k - 1) + (Len(repeat) - k) = Len(repeat) - 1
      BY <2>3
    <3> HIDE DEF r
    <3> QED
      BY <2>4, <2>5, <3>1, <3>2
  <2> HIDE DEF r
  <2> DEFINE Old(i) == IF i < k THEN i ELSE i + 1
  <2>7. ASSUME NEW i \in 1 .. Len(r)
        PROVE  Old(i) \in 1 .. Len(repeat) /\ Old(i) # k /\ r[i] = repeat[Old(i)]
    <3>1. CASE i < k
      BY <2>3, <2>4, <2>6, <3>1
    <3>2. CASE ~(i < k)
      <4>1. i + 1 - k \in 1 .. Len(repeat) - k /\ (k - 1) + (i + 1 - k) = i
            /\ k + (i + 1 - k) = i + 1 /\ Old(i) = i + 1
        BY <2>3, <2>6, <3>2
      <4>2. r[i] = l[i + 1 - k] /\ l[i + 1 - k] = repeat[i + 1]
        BY <2>5, <2>6, <4>1
      <4> QED
        BY <2>3, <2>6, <3>2, <4>1, <4>2
    <3> QED
      BY <3>1, <3>2
  <2>8. \A i, j \in 1 .. Len(r) : /\ i <= j => Old(i) <= Old(j)
                                  /\ Old(i) = Old(j) => i = j
    BY <2>3, <2>6
  <2>9. ASSUME NEW m \in 1 .. Len(repeat), m # k
        PROVE  \E i \in 1 .. Len(r) : Old(i) = m
    <3>1. CASE m < k
      BY <2>3, <2>6, <3>1
    <3>2. CASE m > k
      <4>1. m - 1 \in 1 .. Len(r) /\ Old(m - 1) = m
        BY <2>3, <2>6, <3>2
      <4> QED
        BY <4>1
    <3> QED
      BY <2>3, <2>9, <3>1, <3>2
  <2> HIDE DEF Old
  <2>10. Sorted(r, timer) /\ Distinct(r)
    BY <2>7, <2>8 DEF Sorted, Distinct
  <2>11. ASSUME NEW x PROVE In(x, r) <=> In(x, repeat) /\ x # t
    <3>1. In(x, r) <=> \E i \in 1 .. Len(r) : r[i] = x
      BY <2>6, InIs
    <3>2. In(x, repeat) <=> \E i \in 1 .. Len(repeat) : repeat[i] = x
      BY InIs
    <3>3. ASSUME NEW i \in 1 .. Len(r), r[i] = x PROVE In(x, repeat) /\ x # t
      <4>1. repeat[Old(i)] = x /\ Old(i) \in 1 .. Len(repeat) /\ Old(i) # k
        BY <2>7, <3>3
      <4> QED
        BY <2>1, <2>3, <3>2, <4>1 DEF Distinct
    <3>4. ASSUME NEW m \in 1 .. Len(repeat), repeat[m] = x, x # t
          PROVE  \E i \in 1 .. Len(r) : r[i] = x
      <4>1. m # k
        BY <2>1, <3>4
      <4>2. PICK i \in 1 .. Len(r) : Old(i) = m
        BY <2>9, <4>1
      <4> QED
        BY <2>7, <3>4, <4>2
    <3> QED
      BY <3>1, <3>2, <3>3, <3>4
  <2> QED
    BY <2>2, <2>6, <2>10, <2>11
<1> QED
  BY <1>1, <1>2

(* The first key of a sorted multimap is the least one. *)
LEMMA FirstIsLeast ==
    ASSUME NEW s \in Seq(Timers), NEW tm \in TimerFcns, Sorted(s, tm),
           NEW t, In(t, s)
    PROVE  FirstKey(s, tm) <= tm[t].expiration
<1>1. PICK i \in 1 .. Len(s) : s[i] = t
  BY InIs
<1>2. Len(s) \in Nat /\ 1 \in 1 .. Len(s) /\ 1 <= i /\ s # <<>>
  BY <1>1
<1>3. Head(s) = s[1]
  BY <1>2
<1> QED
  BY <1>1, <1>2, <1>3 DEF FirstKey, Sorted

(* Sorting depends on the keys of the members only. *)
LEMMA SameKeys ==
    ASSUME NEW s \in Seq(Timers), NEW tm, NEW tn,
           \A t \in Timers : In(t, s) => tn[t].expiration = tm[t].expiration,
           Sorted(s, tm)
    PROVE  Sorted(s, tn)
<1>1. \A i \in 1 .. Len(s) : tn[s[i]].expiration = tm[s[i]].expiration
  BY InIs
<1> QED
  BY <1>1 DEF Sorted

-----------------------------------------------------------------------------
(* The inductive invariant.                                                *)

(* The multimaps are sorted, and no timer is twice in one. *)
MapsOK ==
    /\ Sorted(once, timer) /\ Distinct(once)
    /\ Sorted(repeat, timer) /\ Distinct(repeat)
    /\ Distinct(todo)

(* Which timers can be where. *)
PlacesOK ==
    \A t \in Timers :
        /\ In(t, once) \/ In(t, todo) =>
              timer[t].created /\ timer[t].duration = 0 /\ fires[t] = 0
        /\ ~(In(t, once) /\ In(t, todo))
        /\ In(t, todo) => timer[t].expiration <= now
        /\ In(t, repeat) => timer[t].created /\ timer[t].duration # 0 /\ t \notin deleted
        /\ t \in deleted => timer[t].created /\ timer[t].duration # 0
        /\ ~timer[t].created => timer[t].duration = 0 /\ fires[t] = 0
        /\ timer[t].duration = 0 => fires[t] <= 1

(* A timer that is still to be added is nowhere yet, and everything queued *)
(* for it comes later.                                                     *)
TasksOK ==
    \A i \in 1 .. Len(tasks) :
        LET t == tasks[i].t IN
        /\ timer[t].created
        /\ tasks[i].op = "delete" => timer[t].duration # 0
        /\ tasks[i].op = "add" =>
              /\ ~In(t, once) /\ ~In(t, repeat) /\ ~In(t, todo)
              /\ t # cur /\ t \notin deleted
              /\ fires[t] = 0
              /\ \A j \in 1 .. Len(tasks) : tasks[j].t = t => i <= j

(* What handleRead holds at each of its stages. *)
StageOK ==
    /\ now <= clock
    /\ active => stage = "idle"
    /\ stage = "idle" => cur = NoTimer
    /\ stage # "once" => todo = <<>>
    /\ stage # "repeat" => to_update = <<>> /\ upper = NoTimer
    /\ stage = "once" /\ cur # NoTimer =>
          /\ timer[cur].created /\ timer[cur].duration = 0
          /\ timer[cur].expiration <= now
          /\ ~In(cur, once) /\ ~In(cur, todo)

(* The second half of handleRead, with n timers before upper_it: they are  *)
(* the ones that are due, and to_update and the timer being called are the *)
(* first of them.                                                          *)
Half(n) ==
    /\ upper = IF n = Len(repeat) THEN NoTimer ELSE repeat[n + 1]
    /\ Len(to_update) <= n
    /\ \A i \in 1 .. Len(to_update) : to_update[i] = repeat[i]
    /\ cur # NoTimer => Len(to_update) < n /\ cur = repeat[Len(to_update) + 1]
    /\ \A i \in n + 1 .. Len(repeat) : timer[repeat[i]].expiration > now
    /\ \A i \in 1 .. n : timer[repeat[i]].expiration <= now

HalfOK == stage = "repeat" => \E n \in 0 .. Len(repeat) : Half(n)

TimerInv == TypeOK /\ MapsOK /\ PlacesOK /\ TasksOK /\ StageOK /\ HalfOK

(* What the types say of the parts. *)
LEMMA Types ==
    ASSUME TypeOK
    PROVE  /\ timer \in TimerFcns
           /\ once \in Seq(Timers) /\ repeat \in Seq(Timers) /\ todo \in Seq(Timers)
           /\ to_update \in Seq(Timers)
           /\ Len(tasks) \in Nat
           /\ \A i \in 1 .. Len(tasks) : tasks[i].t \in Timers
           /\ clock \in Int /\ now \in Int
           /\ \A t \in Timers : timer[t].expiration \in Int /\ timer[t].duration \in Nat
                                  /\ fires[t] \in Nat
<1>1. timer \in TimerFcns
  BY DEF TypeOK, TimerFcns
<1>2. \A t \in Timers : timer[t].expiration \in Int /\ timer[t].duration \in Nat
  BY <1>1 DEF TimerFcns
<1>3. clock \in Int /\ now \in Int
  BY TimerAssumption DEF TypeOK
<1>4. Len(tasks) \in Nat /\ \A i \in 1 .. Len(tasks) : tasks[i].t \in Timers
  <2> DEFINE Task == [op : {"add", "delete"}, t : Timers]
  <2>1. tasks \in Seq(Task)
    BY DEF TypeOK
  <2>2. \A x \in Task : x.t \in Timers
    OBVIOUS
  <2> HIDE DEF Task
  <2> QED
    BY <2>1, <2>2
<1> QED
  BY <1>1, <1>2, <1>3, <1>4 DEF TypeOK

(* The timer whose callback runs is one that was created. *)
LEMMA CurIsCreated ==
    ASSUME TimerInv, cur # NoTimer
    PROVE  /\ cur \in Timers /\ timer[cur].created
           /\ stage = "once" \/ stage = "repeat"
           /\ stage = "repeat" => In(cur, repeat)
<1>1. cur \in Timers
  BY DEF TimerInv, TypeOK
<1>2. stage = "once" \/ stage = "repeat"
  BY DEF TimerInv, TypeOK, StageOK, Stages
<1>3. CASE stage = "once"
  BY <1>1, <1>3 DEF TimerInv, StageOK
<1>4. CASE stage = "repeat"
  <2>1. PICK n \in 0 .. Len(repeat) : Half(n)
    BY <1>4 DEF TimerInv, HalfOK
  <2>2. repeat \in Seq(Timers) /\ to_update \in Seq(Timers)
    BY Types DEF TimerInv
  <2>3. Len(to_update) + 1 \in 1 .. Len(repeat) /\ cur = repeat[Len(to_update) + 1]
    <3>1. Len(to_update) \in Nat /\ Len(repeat) \in Nat
      BY <2>2
    <3> QED
      BY <2>1, <3>1 DEF Half
  <2>4. In(cur, repeat)
    BY <2>2, <2>3, InIs
  <2> QED
    BY <1>1, <1>4, <2>4 DEF TimerInv, PlacesOK
<1> QED
  BY <1>1, <1>2, <1>3, <1>4

(* What to_update holds is in the multimap. *)
LEMMA UpdateInRepeat ==
    ASSUME TimerInv, NEW t, In(t, to_update)
    PROVE  In(t, repeat) /\ stage = "repeat"
<1>1. repeat \in Seq(Timers) /\ to_update \in Seq(Timers)
  BY Types DEF TimerInv
<1>2. PICK i \in 1 .. Len(to_update) : to_update[i] = t
  BY <1>1, InIs
<1>3. stage = "repeat"
  <2>1. to_update # <<>>
    BY <1>2
  <2> QED
    BY <2>1 DEF TimerInv, StageOK
<1>4. PICK n \in 0 .. Len(repeat) : Half(n)
  BY <1>3 DEF TimerInv, HalfOK
<1>5. i \in 1 .. Len(repeat) /\ repeat[i] = t
  <2>1. Len(to_update) \in Nat /\ Len(repeat) \in Nat
    BY <1>1
  <2> QED
    BY <1>2, <1>4, <2>1 DEF Half
<1> QED
  BY <1>1, <1>3, <1>5, InIs

(* A timer that was not created is nowhere. *)
LEMMA Fresh ==
    ASSUME TimerInv, NEW t \in Timers, ~timer[t].created
    PROVE  /\ ~In(t, once) /\ ~In(t, repeat) /\ ~In(t, todo) /\ ~In(t, to_update)
           /\ t # cur /\ t \notin deleted /\ fires[t] = 0
           /\ \A i \in 1 .. Len(tasks) : tasks[i].t # t
<1>1. ~In(t, once) /\ ~In(t, repeat) /\ ~In(t, todo) /\ t \notin deleted /\ fires[t] = 0
  BY DEF TimerInv, PlacesOK
<1>2. ~In(t, to_update)
  BY <1>1, UpdateInRepeat
<1>3. t # cur
  BY CurIsCreated, TimerAssumption
<1>4. \A i \in 1 .. Len(tasks) : tasks[i].t # t
  BY DEF TimerInv, TasksOK
<1> QED
  BY <1>1, <1>2, <1>3, <1>4

(* What runAt, runAfter and runEvery ask for. *)
LEMMA RequestTypes ==
    ASSUME NEW q \in Requests
    PROVE  /\ q.delay \in Int /\ q.interval \in Nat
           /\ q.delay \in Delays \cup Intervals
           /\ q.interval # 0 => q.interval \in Intervals /\ q.delay = q.interval
<1>1. CASE \E d \in Delays : q = [delay |-> d, interval |-> 0]
  BY <1>1, TimerAssumption
<1>2. CASE \E i \in Intervals : q = [delay |-> i, interval |-> i]
  BY <1>2, TimerAssumption
<1> QED
  BY <1>1, <1>2 DEF Requests

(* resetTimerfd leaves times. *)
LEMMA ResetTypes ==
    ASSUME TypeOK, NEW o \in Seq(Timers), NEW r \in Seq(Timers), NEW tm \in TimerFcns,
           ResetTimerfd(o, r, tm)
    PROVE  min_expiration_' \in Int /\ deadline' \in Int
<1>1. ASSUME NEW s \in Seq(Timers) PROVE FirstKey(s, tm) \in Int
  <2>1. s # <<>> => Head(s) \in Timers
    OBVIOUS
  <2> QED
    BY <2>1, TimerAssumption DEF FirstKey, TimerFcns
<1>2. Earliest(o, r, tm) \in Int
  BY <1>1 DEF Earliest, Earlier
<1>3. min_expiration_' \in Int
  BY <1>2 DEF ResetTimerfd
<1>4. deadline \in Int /\ clock \in Int /\ Forever \in Int
  BY Types, TimerAssumption DEF TypeOK
<1> QED
  BY <1>3, <1>4 DEF ResetTimerfd, ArmedFor

(* addTimerInLoop. *)
LEMMA AddKeeps ==
    ASSUME TypeOK, NEW t \in Timers, NEW tm \in TimerFcns, AddTimerInLoop(t, tm),
           Sorted(once, tm), Distinct(once), ~In(t, once),
           Sorted(repeat, tm), Distinct(repeat), ~In(t, repeat)
    PROVE  /\ once' \in Seq(Timers) /\ Sorted(once', tm) /\ Distinct(once')
           /\ repeat' \in Seq(Timers) /\ Sorted(repeat', tm) /\ Distinct(repeat')
           /\ \A x : In(x, once') <=> In(x, once) \/ (x = t /\ tm[t].duration = 0)
           /\ \A x : In(x, repeat') <=> In(x, repeat) \/ (x = t /\ tm[t].duration # 0)
           /\ tm[t].duration = 0 => repeat' = repeat
           /\ tm[t].duration # 0 => once' = once
           /\ min_expiration_' \in Int /\ deadline' \in Int
<1>1. once \in Seq(Timers) /\ repeat \in Seq(Timers)
  BY DEF TypeOK
<1>2. CASE tm[t].duration = 0
  <2>1. once' = Insert(once, tm, t) /\ repeat' = repeat
    BY <1>2 DEF AddTimerInLoop
  <2>2. /\ once' \in Seq(Timers) /\ Sorted(once', tm) /\ Distinct(once')
        /\ \A x : In(x, once') <=> In(x, once) \/ x = t
    BY <1>1, <2>1, InsertKeeps
  <2> QED
    <3>1. min_expiration_' \in Int /\ deadline' \in Int
      BY <1>1, <2>1, <2>2, ResetTypes DEF AddTimerInLoop, TypeOK
    <3> QED
      BY <1>1, <1>2, <2>1, <2>2, <3>1
<1>3. CASE tm[t].duration # 0
  <2>1. repeat' = Insert(repeat, tm, t) /\ once' = once
    BY <1>3 DEF AddTimerInLoop
  <2>2. /\ repeat' \in Seq(Timers) /\ Sorted(repeat', tm) /\ Distinct(repeat')
        /\ \A x : In(x, repeat') <=> In(x, repeat) \/ x = t
    BY <1>1, <2>1, InsertKeeps
  <2> QED
    <3>1. min_expiration_' \in Int /\ deadline' \in Int
      BY <1>1, <2>1, <2>2, ResetTypes DEF AddTimerInLoop, TypeOK
    <3> QED
      BY <1>1, <1>3, <2>1, <2>2, <3>1
<1> QED
  BY <1>2, <1>3

-----------------------------------------------------------------------------
(* The steps of the application and of doTheTasks.                         *)

(* A new timer. *)
LEMMA NewTimerIs ==
    ASSUME TypeOK, NEW t \in Timers, NEW q \in Requests, NewTimer(t, q)
    PROVE  /\ timer' \in TimerFcns
           /\ \A x \in Timers : x # t => timer'[x] = timer[x]
           /\ timer'[t].created
           /\ timer'[t].expiration = clock + Skew + q.delay
           /\ timer'[t].first = clock + Skew + q.delay
           /\ timer'[t].duration = q.interval
<1>1. q.delay \in Int /\ q.interval \in Nat
  BY RequestTypes
<1>2. clock \in Int /\ Skew \in Int /\ timer \in TimerFcns
  BY Types, TimerAssumption
<1>3. clock + Skew + q.delay \in Int
  BY <1>1, <1>2
<1> DEFINE n == [created |-> TRUE, expiration |-> clock + Skew + q.delay,
                 first |-> clock + Skew + q.delay, duration |-> q.interval]
<1>4. timer' = [timer EXCEPT ![t] = n]
  BY DEF NewTimer
<1>5. n \in [created : BOOLEAN, expiration : Int, first : Int, duration : Nat]
  BY <1>1, <1>3
<1>6. n.created /\ n.expiration = clock + Skew + q.delay
      /\ n.first = clock + Skew + q.delay /\ n.duration = q.interval
  OBVIOUS
<1> HIDE DEF n
<1>7. timer'[t] = n /\ (\A x \in Timers : x # t => timer'[x] = timer[x]) /\ timer' \in TimerFcns
  BY <1>2, <1>4, <1>5 DEF TimerFcns
<1> QED
  BY <1>6, <1>7

(* addTimer by the loop's thread, also in a callback of handleRead: a timer *)
(* that fires once never enters the multimap that the second half walks.   *)
LEMMA AddInPlaceKeeps ==
    ASSUME RunEveryInCallback = FALSE, TimerInv,
           NEW t \in Timers, NEW q \in Requests, AddInPlace(t, q)
    PROVE  TimerInv'
<1>1. TypeOK /\ MapsOK /\ PlacesOK /\ TasksOK /\ StageOK /\ HalfOK
  BY DEF TimerInv
<1>2. /\ NewTimer(t, q) /\ AddTimerInLoop(t, timer')
      /\ clock' = clock /\ active' = active /\ stage' = stage /\ now' = now /\ todo' = todo
      /\ upper' = upper /\ cur' = cur /\ to_update' = to_update
      /\ tasks' = tasks /\ fires' = fires /\ deleted' = deleted
      /\ stage = "repeat" => q.interval = 0
  BY DEF AddInPlace, handleVars
<1>3. ~timer[t].created
  BY <1>2 DEF NewTimer
<1>4. /\ ~In(t, once) /\ ~In(t, repeat) /\ ~In(t, todo)
      /\ t # cur /\ t \notin deleted /\ fires[t] = 0
      /\ \A i \in 1 .. Len(tasks) : tasks[i].t # t
  BY <1>3, Fresh
<1>5. /\ timer' \in TimerFcns
      /\ \A x \in Timers : x # t => timer'[x] = timer[x]
      /\ timer'[t].created /\ timer'[t].duration = q.interval
  BY <1>1, <1>2, NewTimerIs
<1>6. once \in Seq(Timers) /\ repeat \in Seq(Timers) /\ todo \in Seq(Timers)
  BY <1>1, Types
<1>7. Sorted(once, timer') /\ Sorted(repeat, timer')
  BY <1>1, <1>4, <1>5, <1>6, SameKeys DEF MapsOK
<1>8. /\ once' \in Seq(Timers) /\ Sorted(once', timer') /\ Distinct(once')
      /\ repeat' \in Seq(Timers) /\ Sorted(repeat', timer') /\ Distinct(repeat')
      /\ \A x : In(x, once') <=> In(x, once) \/ (x = t /\ timer'[t].duration = 0)
      /\ \A x : In(x, repeat') <=> In(x, repeat) \/ (x = t /\ timer'[t].duration # 0)
      /\ timer'[t].duration = 0 => repeat' = repeat
      /\ min_expiration_' \in Int /\ deadline' \in Int
  BY <1>1, <1>2, <1>4, <1>5, <1>7, AddKeeps DEF MapsOK
<1>9. TypeOK'
  <2>1. timer' \in [Timers -> [created : BOOLEAN, expiration : Int, first : Int,
                                duration : Nat]]
    BY <1>5 DEF TimerFcns
  <2> QED
    BY <1>1, <1>2, <1>8, <2>1 DEF TypeOK
<1>10. MapsOK'
  BY <1>1, <1>2, <1>8 DEF MapsOK, Sorted, Distinct
<1>11. PlacesOK'
  <2> SUFFICES ASSUME NEW x \in Timers
               PROVE  /\ In(x, once') \/ In(x, todo) =>
                           timer'[x].created /\ timer'[x].duration = 0 /\ fires[x] = 0
                      /\ ~(In(x, once') /\ In(x, todo))
                      /\ In(x, todo) => timer'[x].expiration <= now
                      /\ In(x, repeat') => timer'[x].created /\ timer'[x].duration # 0
                                             /\ x \notin deleted
                      /\ x \in deleted => timer'[x].created /\ timer'[x].duration # 0
                      /\ ~timer'[x].created => timer'[x].duration = 0 /\ fires[x] = 0
                      /\ timer'[x].duration = 0 => fires[x] <= 1
    BY <1>2 DEF PlacesOK, In
  <2>1. CASE x = t
    BY <1>4, <1>5, <1>8, <2>1
  <2>2. CASE x # t
    BY <1>1, <1>5, <1>8, <2>2 DEF PlacesOK
  <2> QED
    BY <2>1, <2>2
<1>12. TasksOK'
  <2>1. \A i \in 1 .. Len(tasks) : tasks[i].t \in Timers
    BY <1>1, Types
  <2>2. \A i \in 1 .. Len(tasks) : timer'[tasks[i].t] = timer[tasks[i].t]
    BY <1>4, <1>5, <2>1
  <2>3. \A x : x # t => (In(x, once') <=> In(x, once)) /\ (In(x, repeat') <=> In(x, repeat))
                          /\ (In(x, todo') <=> In(x, todo))
    BY <1>2, <1>8 DEF In
  <2> SUFFICES ASSUME NEW i \in 1 .. Len(tasks)
               PROVE  LET x == tasks[i].t IN
                      /\ timer'[x].created
                      /\ tasks[i].op = "delete" => timer'[x].duration # 0
                      /\ tasks[i].op = "add" =>
                           /\ ~In(x, once') /\ ~In(x, repeat') /\ ~In(x, todo')
                           /\ x # cur /\ x \notin deleted
                           /\ fires[x] = 0
                           /\ \A j \in 1 .. Len(tasks) : tasks[j].t = x => i <= j
    BY <1>2 DEF TasksOK, In
  <2> DEFINE x == tasks[i].t
  <2>4. /\ timer[x].created
        /\ tasks[i].op = "delete" => timer[x].duration # 0
        /\ tasks[i].op = "add" =>
             /\ ~In(x, once) /\ ~In(x, repeat) /\ ~In(x, todo)
             /\ x # cur /\ x \notin deleted
             /\ fires[x] = 0
             /\ \A j \in 1 .. Len(tasks) : tasks[j].t = x => i <= j
    BY <1>1 DEF TasksOK
  <2>5. x # t /\ timer'[x] = timer[x]
    BY <1>4, <2>2
  <2> HIDE DEF x
  <2>6. /\ timer'[x].created
        /\ tasks[i].op = "delete" => timer'[x].duration # 0
        /\ tasks[i].op = "add" =>
             /\ ~In(x, once') /\ ~In(x, repeat') /\ ~In(x, todo')
             /\ x # cur /\ x \notin deleted
             /\ fires[x] = 0
             /\ \A j \in 1 .. Len(tasks) : tasks[j].t = x => i <= j
    BY <2>3, <2>4, <2>5
  <2> QED
    BY <2>6 DEF x
<1>13. StageOK'
  <2>1. cur # NoTimer => cur \in Timers /\ timer'[cur] = timer[cur]
    BY <1>4, <1>5, CurIsCreated
  <2>2. cur # NoTimer => (In(cur, once') <=> In(cur, once)) /\ (In(cur, todo') <=> In(cur, todo))
    BY <1>2, <1>4, <1>8 DEF In
  <2> QED
    BY <1>1, <1>2, <2>1, <2>2 DEF StageOK, In
<1>14. HalfOK'
  <2> SUFFICES ASSUME stage = "repeat" PROVE HalfOK'
    BY <1>2 DEF HalfOK
  <2>1. PICK n \in 0 .. Len(repeat) : Half(n)
    BY <1>1 DEF HalfOK
  <2>2. repeat' = repeat
    BY <1>2, <1>5, <1>8
  <2>3. \A i \in 1 .. Len(repeat) : timer'[repeat[i]] = timer[repeat[i]]
    <3>1. \A i \in 1 .. Len(repeat) : repeat[i] \in Timers /\ repeat[i] # t
      BY <1>4, <1>6, InIs
    <3> QED
      BY <1>5, <3>1
  <2>4. Len(repeat) \in Nat
    BY <1>6
  <2>5. Half(n)'
    BY <1>2, <2>1, <2>2, <2>3, <2>4 DEF Half
  <2> QED
    BY <2>2, <2>5 DEF HalfOK
<1> QED
  BY <1>9, <1>10, <1>11, <1>12, <1>13, <1>14 DEF TimerInv

Tasks == [op : {"add", "delete"}, t : Timers]

(* The tasks of the loop after another one was queued. *)
LEMMA Queued ==
    ASSUME TypeOK, NEW x \in Tasks, tasks' = Append(tasks, x)
    PROVE  /\ tasks' \in Seq(Tasks)
           /\ Len(tasks) \in Nat /\ Len(tasks') = Len(tasks) + 1
           /\ \A i \in 1 .. Len(tasks) : tasks'[i] = tasks[i] /\ tasks[i] \in Tasks
           /\ tasks'[Len(tasks) + 1] = x
           /\ \A i \in 1 .. Len(tasks') : i \in 1 .. Len(tasks) \/ i = Len(tasks) + 1
<1>1. tasks \in Seq(Tasks)
  BY DEF TypeOK, Tasks
<1> QED
  BY <1>1

(* ... and after the first one was taken. *)
LEMMA Dequeued ==
    ASSUME TypeOK, tasks # <<>>, tasks' = Tail(tasks)
    PROVE  /\ tasks' \in Seq(Tasks)
           /\ Len(tasks) \in Nat /\ Len(tasks') = Len(tasks) - 1
           /\ Head(tasks) = tasks[1] /\ 1 \in 1 .. Len(tasks) /\ tasks[1] \in Tasks
           /\ \A i \in 1 .. Len(tasks') : i + 1 \in 1 .. Len(tasks) /\ tasks'[i] = tasks[i + 1]
                                            /\ tasks'[i] \in Tasks
<1>1. tasks \in Seq(Tasks)
  BY DEF TypeOK, Tasks
<1>2. Len(tasks) \in Nat /\ Len(tasks) > 0
  BY <1>1
<1>3. Head(tasks) = tasks[1] /\ 1 \in 1 .. Len(tasks) /\ tasks[1] \in Tasks
  BY <1>1, <1>2
<1>4. tasks' \in Seq(Tasks) /\ Len(tasks') = Len(tasks) - 1
  BY <1>1, <1>2
<1>5. ASSUME NEW i \in 1 .. Len(tasks')
      PROVE  i + 1 \in 1 .. Len(tasks) /\ tasks'[i] = tasks[i + 1] /\ tasks'[i] \in Tasks
  BY <1>1, <1>2, <1>4
<1> QED
  BY <1>2, <1>3, <1>4, <1>5

(* What TasksOK says of one task. *)
TaskOK(i) ==
    LET t == tasks[i].t IN
    /\ timer[t].created
    /\ tasks[i].op = "delete" => timer[t].duration # 0
    /\ tasks[i].op = "add" =>
          /\ ~In(t, once) /\ ~In(t, repeat) /\ ~In(t, todo)
          /\ t # cur /\ t \notin deleted
          /\ fires[t] = 0
          /\ \A j \in 1 .. Len(tasks) : tasks[j].t = t => i <= j

(* addTimer by another thread: the new timer is nowhere but in the tasks. *)
LEMMA AddFromThreadKeeps ==
    ASSUME TimerInv, NEW t \in Timers, NEW q \in Requests, AddFromThread(t, q)
    PROVE  TimerInv'
<1>1. TypeOK /\ MapsOK /\ PlacesOK /\ TasksOK /\ StageOK /\ HalfOK
  BY DEF TimerInv
<1> DEFINE a == [op |-> "add", t |-> t]
<1>2. /\ NewTimer(t, q) /\ tasks' = Append(tasks, a)
      /\ clock' = clock /\ active' = active /\ stage' = stage /\ now' = now /\ todo' = todo
      /\ upper' = upper /\ cur' = cur /\ to_update' = to_update
      /\ fires' = fires /\ deleted' = deleted
      /\ once' = once /\ repeat' = repeat
      /\ min_expiration_' = min_expiration_ /\ deadline' = deadline
  BY DEF AddFromThread, handleVars
<1>3. ~timer[t].created
  BY <1>2 DEF NewTimer
<1>4. /\ ~In(t, once) /\ ~In(t, repeat) /\ ~In(t, todo)
      /\ t # cur /\ t \notin deleted /\ fires[t] = 0
      /\ \A i \in 1 .. Len(tasks) : tasks[i].t # t
  BY <1>3, Fresh
<1>5. /\ timer' \in TimerFcns
      /\ \A x \in Timers : x # t => timer'[x] = timer[x]
      /\ timer'[t].created /\ timer'[t].duration = q.interval
  BY <1>1, <1>2, NewTimerIs
<1>6. once \in Seq(Timers) /\ repeat \in Seq(Timers) /\ todo \in Seq(Timers)
  BY <1>1, Types
<1>7. Sorted(once, timer') /\ Sorted(repeat, timer')
  BY <1>1, <1>4, <1>5, <1>6, SameKeys DEF MapsOK
<1>8. a \in Tasks /\ a.op = "add" /\ a.t = t
  BY DEF Tasks
<1> HIDE DEF a
<1>9. /\ tasks' \in Seq(Tasks)
      /\ Len(tasks) \in Nat /\ Len(tasks') = Len(tasks) + 1
      /\ \A i \in 1 .. Len(tasks) : tasks'[i] = tasks[i] /\ tasks[i] \in Tasks
      /\ tasks'[Len(tasks) + 1] = a
      /\ \A i \in 1 .. Len(tasks') : i \in 1 .. Len(tasks) \/ i = Len(tasks) + 1
  BY <1>1, <1>2, <1>8, Queued
<1>10. TypeOK'
  <2>1. timer' \in [Timers -> [created : BOOLEAN, expiration : Int, first : Int,
                                duration : Nat]]
    BY <1>5 DEF TimerFcns
  <2>2. tasks' \in Seq([op : {"add", "delete"}, t : Timers])
    BY <1>9 DEF Tasks
  <2> QED
    BY <1>1, <1>2, <2>1, <2>2 DEF TypeOK
<1>11. MapsOK'
  BY <1>1, <1>2, <1>7 DEF MapsOK, Sorted, Distinct
<1>12. PlacesOK'
  <2> SUFFICES ASSUME NEW x \in Timers
               PROVE  /\ In(x, once) \/ In(x, todo) =>
                           timer'[x].created /\ timer'[x].duration = 0 /\ fires[x] = 0
                      /\ ~(In(x, once) /\ In(x, todo))
                      /\ In(x, todo) => timer'[x].expiration <= now
                      /\ In(x, repeat) => timer'[x].created /\ timer'[x].duration # 0
                                             /\ x \notin deleted
                      /\ x \in deleted => timer'[x].created /\ timer'[x].duration # 0
                      /\ ~timer'[x].created => timer'[x].duration = 0 /\ fires[x] = 0
                      /\ timer'[x].duration = 0 => fires[x] <= 1
    BY <1>2 DEF PlacesOK, In
  <2>1. CASE x = t
    BY <1>4, <1>5, <2>1
  <2>2. CASE x # t
    BY <1>1, <1>5, <2>2 DEF PlacesOK
  <2> QED
    BY <2>1, <2>2
<1>13. TasksOK'
  <2> SUFFICES ASSUME NEW i \in 1 .. Len(tasks') PROVE TaskOK(i)'
    BY DEF TasksOK, TaskOK
  <2>1. CASE i \in 1 .. Len(tasks)
    <3>1. TaskOK(i)
      BY <1>1, <2>1 DEF TasksOK, TaskOK
    <3> DEFINE x == tasks[i].t
    <3>2. tasks'[i] = tasks[i] /\ x \in Timers /\ x # t
      BY <1>4, <1>9, <2>1 DEF Tasks
    <3>3. timer'[x] = timer[x]
      BY <1>5, <3>2
    <3>4. \A j \in 1 .. Len(tasks') : tasks'[j].t = x => j \in 1 .. Len(tasks) /\ tasks[j].t = x
      BY <1>8, <1>9, <3>2
    <3> QED
      BY <1>2, <3>1, <3>2, <3>3, <3>4 DEF TaskOK, In
  <2>2. CASE i = Len(tasks) + 1
    <3>1. tasks'[i].t = t /\ tasks'[i].op = "add"
      BY <1>8, <1>9, <2>2
    <3>2. \A j \in 1 .. Len(tasks') : tasks'[j].t = t => i <= j
      BY <1>4, <1>9, <2>2
    <3> QED
      BY <1>2, <1>4, <1>5, <3>1, <3>2 DEF TaskOK, In
  <2> QED
    BY <1>9, <2>1, <2>2
<1>14. StageOK'
  <2>1. cur # NoTimer => cur \in Timers /\ timer'[cur] = timer[cur]
    BY <1>4, <1>5, CurIsCreated
  <2> QED
    BY <1>1, <1>2, <2>1 DEF StageOK, In
<1>15. HalfOK'
  <2> SUFFICES ASSUME stage = "repeat" PROVE HalfOK'
    BY <1>2 DEF HalfOK
  <2>1. PICK n \in 0 .. Len(repeat) : Half(n)
    BY <1>1 DEF HalfOK
  <2>3. \A i \in 1 .. Len(repeat) : timer'[repeat[i]] = timer[repeat[i]]
    <3>1. \A i \in 1 .. Len(repeat) : repeat[i] \in Timers /\ repeat[i] # t
      BY <1>4, <1>6, InIs
    <3> QED
      BY <1>5, <3>1
  <2>4. Len(repeat) \in Nat
    BY <1>6
  <2>5. Half(n)'
    BY <1>2, <2>1, <2>3, <2>4 DEF Half
  <2> QED
    BY <1>2, <2>5 DEF HalfOK
<1> QED
  BY <1>10, <1>11, <1>12, <1>13, <1>14, <1>15 DEF TimerInv

(* A step that touches neither timers nor multimaps nor handleRead keeps   *)
(* what the invariant says of them.                                        *)
LEMMA OthersKeep ==
    ASSUME TimerInv,
           timer' = timer, once' = once, repeat' = repeat, todo' = todo,
           to_update' = to_update, upper' = upper, cur' = cur, stage' = stage,
           now' = now, fires' = fires, deleted' = deleted
    PROVE  /\ MapsOK' /\ PlacesOK' /\ HalfOK'
           /\ \A i \in 1 .. Len(tasks) :
                 tasks'[i] = tasks[i]
                   /\ (\A j \in 1 .. Len(tasks') : tasks'[j].t = tasks[i].t =>
                         (j \in 1 .. Len(tasks) /\ tasks[j].t = tasks[i].t) \/ j > Len(tasks))
                   => TaskOK(i)'
<1>1. MapsOK' /\ PlacesOK'
  BY DEF TimerInv, MapsOK, PlacesOK, Sorted, Distinct, In
<1>2. HalfOK'
  BY DEF TimerInv, HalfOK, Half
<1>3. ASSUME NEW i \in 1 .. Len(tasks), tasks'[i] = tasks[i],
             \A j \in 1 .. Len(tasks') : tasks'[j].t = tasks[i].t =>
                (j \in 1 .. Len(tasks) /\ tasks[j].t = tasks[i].t) \/ j > Len(tasks)
      PROVE  TaskOK(i)'
  <2>1. TaskOK(i)
    BY DEF TimerInv, TasksOK, TaskOK
  <2>2. Len(tasks) \in Nat
    BY Types DEF TimerInv
  <2> QED
    BY <1>3, <2>1, <2>2 DEF TaskOK, In
<1> QED
  BY <1>1, <1>2, <1>3

(* deleteTimer queues behind whatever is queued for the timer. *)
LEMMA DeleteTimerKeeps ==
    ASSUME TimerInv, NEW t \in Timers, DeleteTimer(t)
    PROVE  TimerInv'
<1> DEFINE a == [op |-> "delete", t |-> t]
<1>1. /\ tasks' = Append(tasks, a) /\ timer[t].created /\ timer[t].duration # 0
      /\ timer' = timer /\ once' = once /\ repeat' = repeat /\ todo' = todo
      /\ to_update' = to_update /\ upper' = upper /\ cur' = cur /\ stage' = stage
      /\ now' = now /\ fires' = fires /\ deleted' = deleted
      /\ clock' = clock /\ active' = active
      /\ min_expiration_' = min_expiration_ /\ deadline' = deadline
  BY DEF DeleteTimer, queueVars, handleVars
<1>2. a \in Tasks /\ a.op = "delete" /\ a.t = t
  BY DEF Tasks
<1> HIDE DEF a
<1>3. /\ tasks' \in Seq(Tasks)
      /\ Len(tasks) \in Nat /\ Len(tasks') = Len(tasks) + 1
      /\ \A i \in 1 .. Len(tasks) : tasks'[i] = tasks[i] /\ tasks[i] \in Tasks
      /\ tasks'[Len(tasks) + 1] = a
      /\ \A i \in 1 .. Len(tasks') : i \in 1 .. Len(tasks) \/ i = Len(tasks) + 1
  BY <1>1, <1>2, Queued DEF TimerInv
<1>4. TypeOK'
  <2>1. tasks' \in Seq([op : {"add", "delete"}, t : Timers])
    BY <1>3 DEF Tasks
  <2> QED
    BY <1>1, <2>1 DEF TimerInv, TypeOK
<1>5. /\ MapsOK' /\ PlacesOK' /\ HalfOK'
      /\ \A i \in 1 .. Len(tasks) :
            tasks'[i] = tasks[i]
              /\ (\A j \in 1 .. Len(tasks') : tasks'[j].t = tasks[i].t =>
                    (j \in 1 .. Len(tasks) /\ tasks[j].t = tasks[i].t) \/ j > Len(tasks))
              => TaskOK(i)'
  BY <1>1, OthersKeep
<1>6. TasksOK'
  <2> SUFFICES ASSUME NEW i \in 1 .. Len(tasks') PROVE TaskOK(i)'
    BY DEF TasksOK, TaskOK
  <2>1. CASE i \in 1 .. Len(tasks)
    <3>1. \A j \in 1 .. Len(tasks') : tasks'[j].t = tasks[i].t =>
                    (j \in 1 .. Len(tasks) /\ tasks[j].t = tasks[i].t) \/ j > Len(tasks)
      BY <1>3
    <3> QED
      BY <1>3, <1>5, <2>1, <3>1
  <2>2. CASE i = Len(tasks) + 1
    <3>1. tasks'[i].t = t /\ tasks'[i].op = "delete"
      BY <1>2, <1>3, <2>2
    <3> QED
      BY <1>1, <3>1 DEF TaskOK
  <2> QED
    BY <1>3, <2>1, <2>2
<1>7. StageOK'
  BY <1>1 DEF TimerInv, StageOK, In
<1> QED
  BY <1>4, <1>5, <1>6, <1>7 DEF TimerInv

(* No task behind the first one adds the first one's timer. *)
LEMMA FirstTask ==
    ASSUME TimerInv, tasks # <<>>, tasks' = Tail(tasks)
    PROVE  /\ TaskOK(1) /\ Head(tasks) = tasks[1] /\ tasks[1].t \in Timers
           /\ tasks' \in Seq([op : {"add", "delete"}, t : Timers])
           /\ \A i \in 1 .. Len(tasks') :
                 LET x == tasks'[i].t IN
                 /\ x \in Timers
                 /\ timer[x].created
                 /\ tasks'[i].op = "delete" => timer[x].duration # 0
                 /\ tasks'[i].op = "add" =>
                       /\ ~In(x, once) /\ ~In(x, repeat) /\ ~In(x, todo)
                       /\ x # cur /\ x \notin deleted /\ fires[x] = 0
                       /\ x # tasks[1].t
                       /\ \A j \in 1 .. Len(tasks') : tasks'[j].t = x => i <= j
<1>1. /\ tasks' \in Seq(Tasks)
      /\ Len(tasks) \in Nat /\ Len(tasks') = Len(tasks) - 1
      /\ Head(tasks) = tasks[1] /\ 1 \in 1 .. Len(tasks) /\ tasks[1] \in Tasks
      /\ \A i \in 1 .. Len(tasks') : i + 1 \in 1 .. Len(tasks) /\ tasks'[i] = tasks[i + 1]
                                       /\ tasks'[i] \in Tasks
  BY Dequeued DEF TimerInv
<1>2. \A i \in 1 .. Len(tasks) : TaskOK(i)
  BY DEF TimerInv, TasksOK, TaskOK
<1>3. tasks[1].t \in Timers /\ tasks' \in Seq([op : {"add", "delete"}, t : Timers])
  BY <1>1 DEF Tasks
<1>4. ASSUME NEW i \in 1 .. Len(tasks')
      PROVE  LET x == tasks'[i].t IN
             /\ x \in Timers
             /\ timer[x].created
             /\ tasks'[i].op = "delete" => timer[x].duration # 0
             /\ tasks'[i].op = "add" =>
                   /\ ~In(x, once) /\ ~In(x, repeat) /\ ~In(x, todo)
                   /\ x # cur /\ x \notin deleted /\ fires[x] = 0
                   /\ x # tasks[1].t
                   /\ \A j \in 1 .. Len(tasks') : tasks'[j].t = x => i <= j
  <2>1. i + 1 \in 1 .. Len(tasks) /\ tasks'[i] = tasks[i + 1] /\ tasks'[i].t \in Timers
    BY <1>1 DEF Tasks
  <2>2. TaskOK(i + 1)
    BY <1>2, <2>1
  <2>3. ASSUME tasks'[i].op = "add"
        PROVE  /\ tasks'[i].t # tasks[1].t
               /\ \A j \in 1 .. Len(tasks') : tasks'[j].t = tasks'[i].t => i <= j
    <3>1. \A j \in 1 .. Len(tasks) : tasks[j].t = tasks'[i].t => i + 1 <= j
      BY <2>1, <2>2, <2>3 DEF TaskOK
    <3>2. i \in Nat /\ i >= 1 /\ ~(i + 1 <= 1)
      BY <1>1
    <3>3. tasks'[i].t # tasks[1].t
      BY <1>1, <3>1, <3>2
    <3>4. ASSUME NEW j \in 1 .. Len(tasks'), tasks'[j].t = tasks'[i].t
          PROVE  i <= j
      <4>1. j + 1 \in 1 .. Len(tasks) /\ tasks[j + 1].t = tasks'[i].t
        BY <1>1, <3>4
      <4>2. i + 1 <= j + 1
        BY <3>1, <4>1
      <4> QED
        BY <1>1, <4>2
    <3> QED
      BY <3>3, <3>4
  <2> QED
    BY <2>1, <2>2, <2>3 DEF TaskOK
<1> QED
  BY <1>1, <1>2, <1>3, <1>4

(* addTimerInLoop, run by doTheTasks: the timer is in no multimap yet. *)
LEMMA RunAddKeeps ==
    ASSUME TimerInv, RunAdd
    PROVE  TimerInv'
<1>1. TypeOK /\ MapsOK /\ PlacesOK /\ TasksOK /\ StageOK /\ HalfOK
  BY DEF TimerInv
<1> DEFINE t == Head(tasks).t
<1>2. /\ stage = "idle" /\ tasks # <<>> /\ Head(tasks).op = "add"
      /\ AddTimerInLoop(t, timer) /\ tasks' = Tail(tasks)
      /\ clock' = clock /\ active' = active /\ stage' = stage /\ now' = now /\ todo' = todo
      /\ upper' = upper /\ cur' = cur /\ to_update' = to_update
      /\ timer' = timer /\ fires' = fires /\ deleted' = deleted
  BY DEF RunAdd, TasksTurn, handleVars
<1>3. /\ TaskOK(1) /\ Head(tasks) = tasks[1] /\ tasks[1].t \in Timers
      /\ tasks' \in Seq([op : {"add", "delete"}, t : Timers])
  BY <1>2, FirstTask
<1>4. /\ t \in Timers /\ timer[t].created /\ fires[t] = 0 /\ t \notin deleted
      /\ ~In(t, once) /\ ~In(t, repeat) /\ ~In(t, todo)
  BY <1>2, <1>3 DEF TaskOK
<1>5. ASSUME NEW i \in 1 .. Len(tasks')
      PROVE  LET x == tasks'[i].t IN
             /\ x \in Timers
             /\ timer[x].created
             /\ tasks'[i].op = "delete" => timer[x].duration # 0
             /\ tasks'[i].op = "add" =>
                   /\ ~In(x, once) /\ ~In(x, repeat) /\ ~In(x, todo)
                   /\ x # cur /\ x \notin deleted /\ fires[x] = 0
                   /\ x # t
                   /\ \A j \in 1 .. Len(tasks') : tasks'[j].t = x => i <= j
  BY <1>2, <1>3, FirstTask
<1> HIDE DEF t
<1>6. timer \in TimerFcns
  BY <1>1, Types
<1>7. /\ once' \in Seq(Timers) /\ Sorted(once', timer) /\ Distinct(once')
      /\ repeat' \in Seq(Timers) /\ Sorted(repeat', timer) /\ Distinct(repeat')
      /\ \A x : In(x, once') <=> In(x, once) \/ (x = t /\ timer[t].duration = 0)
      /\ \A x : In(x, repeat') <=> In(x, repeat) \/ (x = t /\ timer[t].duration # 0)
      /\ min_expiration_' \in Int /\ deadline' \in Int
  BY <1>1, <1>2, <1>4, <1>6, AddKeeps DEF MapsOK
<1>8. TypeOK'
  BY <1>1, <1>2, <1>3, <1>7 DEF TypeOK
<1>9. MapsOK'
  BY <1>1, <1>2, <1>7 DEF MapsOK, Sorted, Distinct
<1>10. PlacesOK'
  <2> SUFFICES ASSUME NEW x \in Timers
               PROVE  /\ In(x, once') \/ In(x, todo) =>
                           timer[x].created /\ timer[x].duration = 0 /\ fires[x] = 0
                      /\ ~(In(x, once') /\ In(x, todo))
                      /\ In(x, repeat') => timer[x].created /\ timer[x].duration # 0
                                             /\ x \notin deleted
    BY <1>1, <1>2 DEF PlacesOK, In
  <2> QED
    BY <1>1, <1>4, <1>7 DEF PlacesOK
<1>11. TasksOK'
  <2> SUFFICES ASSUME NEW i \in 1 .. Len(tasks') PROVE TaskOK(i)'
    BY DEF TasksOK, TaskOK
  <2> DEFINE x == tasks'[i].t
  <2>1. tasks'[i].op = "add" => ~In(x, once') /\ ~In(x, repeat') /\ ~In(x, todo')
    BY <1>2, <1>5, <1>7
  <2> QED
    BY <1>2, <1>5, <2>1 DEF TaskOK
<1>12. StageOK' /\ HalfOK'
  BY <1>1, <1>2 DEF StageOK, HalfOK
<1> QED
  BY <1>8, <1>9, <1>10, <1>11, <1>12 DEF TimerInv

(* deleteTimerInLoop, run by doTheTasks, so never within handleRead. *)
LEMMA RunDeleteKeeps ==
    ASSUME TimerInv, RunDelete
    PROVE  TimerInv'
<1>1. TypeOK /\ MapsOK /\ PlacesOK /\ TasksOK /\ StageOK /\ HalfOK
  BY DEF TimerInv
<1> DEFINE t == Head(tasks).t
<1>2. /\ stage = "idle" /\ tasks # <<>> /\ Head(tasks).op = "delete"
      /\ repeat' = Erased(t) /\ deleted' = deleted \cup {t} /\ tasks' = Tail(tasks)
      /\ clock' = clock /\ active' = active /\ stage' = stage /\ now' = now /\ todo' = todo
      /\ upper' = upper /\ cur' = cur /\ to_update' = to_update
      /\ timer' = timer /\ fires' = fires /\ once' = once
      /\ min_expiration_' = min_expiration_ /\ deadline' = deadline
  BY DEF RunDelete, TasksTurn, handleVars
<1>3. /\ TaskOK(1) /\ Head(tasks) = tasks[1] /\ tasks[1].t \in Timers
      /\ tasks' \in Seq([op : {"add", "delete"}, t : Timers])
  BY <1>2, FirstTask
<1>4. t \in Timers /\ timer[t].created /\ timer[t].duration # 0
  BY <1>2, <1>3 DEF TaskOK
<1>5. ASSUME NEW i \in 1 .. Len(tasks')
      PROVE  LET x == tasks'[i].t IN
             /\ x \in Timers
             /\ timer[x].created
             /\ tasks'[i].op = "delete" => timer[x].duration # 0
             /\ tasks'[i].op = "add" =>
                   /\ ~In(x, once) /\ ~In(x, repeat) /\ ~In(x, todo)
                   /\ x # cur /\ x \notin deleted /\ fires[x] = 0
                   /\ x # t
                   /\ \A j \in 1 .. Len(tasks') : tasks'[j].t = x => i <= j
  BY <1>2, <1>3, FirstTask
<1> HIDE DEF t
<1>6. timer \in TimerFcns /\ repeat \in Seq(Timers)
  BY <1>1, Types
<1>7. /\ repeat' \in Seq(Timers) /\ Sorted(repeat', timer) /\ Distinct(repeat')
      /\ \A x : In(x, repeat') <=> In(x, repeat) /\ x # t
  BY <1>1, <1>2, <1>4, <1>6, ErasedKeeps DEF MapsOK
<1>8. TypeOK'
  BY <1>1, <1>2, <1>3, <1>4, <1>7 DEF TypeOK
<1>9. MapsOK'
  BY <1>1, <1>2, <1>7 DEF MapsOK, Sorted, Distinct
<1>10. PlacesOK'
  <2> SUFFICES ASSUME NEW x \in Timers
               PROVE  /\ In(x, repeat') => timer[x].created /\ timer[x].duration # 0
                                             /\ x \notin deleted'
                      /\ x \in deleted' => timer[x].created /\ timer[x].duration # 0
    BY <1>1, <1>2 DEF PlacesOK, In
  <2> QED
    BY <1>1, <1>2, <1>4, <1>7 DEF PlacesOK
<1>11. TasksOK'
  <2> SUFFICES ASSUME NEW i \in 1 .. Len(tasks') PROVE TaskOK(i)'
    BY DEF TasksOK, TaskOK
  <2> DEFINE x == tasks'[i].t
  <2>1. tasks'[i].op = "add" => /\ ~In(x, once') /\ ~In(x, repeat') /\ ~In(x, todo')
                                /\ x \notin deleted'
    BY <1>2, <1>5, <1>7
  <2> QED
    BY <1>2, <1>5, <2>1 DEF TaskOK
<1>12. StageOK' /\ HalfOK'
  BY <1>1, <1>2 DEF StageOK, HalfOK
<1> QED
  BY <1>8, <1>9, <1>10, <1>11, <1>12 DEF TimerInv

-----------------------------------------------------------------------------
(* The steps of the loop.                                                  *)

(* Time and poll() touch nothing of it. *)
LEMMA QuietKeeps ==
    ASSUME TimerInv, Poll \/ Tick
    PROVE  TimerInv'
<1>1. /\ timer' = timer /\ once' = once /\ repeat' = repeat /\ todo' = todo
      /\ to_update' = to_update /\ upper' = upper /\ cur' = cur /\ stage' = stage
      /\ now' = now /\ fires' = fires /\ deleted' = deleted /\ tasks' = tasks
      /\ min_expiration_' = min_expiration_ /\ deadline' = deadline
  BY DEF Poll, Tick, queueVars, handleVars
<1>2. TypeOK'
  <2>1. clock' \in 0 .. MaxTime /\ active' \in BOOLEAN
    <3>1. clock \in 0 .. MaxTime /\ active \in BOOLEAN
      BY DEF TimerInv, TypeOK
    <3>2. CASE Poll
      BY <3>1, <3>2 DEF Poll
    <3>3. CASE Tick
      <4>1. active' = active /\ clock' = clock + TickStep /\ clock + TickStep <= MaxTime
        BY <3>3 DEF Tick, handleVars
      <4>2. TickStep \in Nat /\ MaxTime \in Nat
        BY TimerAssumption
      <4>3. clock' \in 0 .. MaxTime
        BY <3>1, <4>1, <4>2
      <4> QED
        BY <3>1, <4>1, <4>3
    <3> QED
      BY <3>2, <3>3
  <2> QED
    BY <1>1, <2>1 DEF TimerInv, TypeOK
<1>3. MapsOK' /\ PlacesOK' /\ HalfOK'
  BY <1>1, OthersKeep
<1>4. TasksOK'
  BY <1>1 DEF TimerInv, TasksOK, In
<1>5. StageOK'
  <2>1. now' <= clock'
    BY TimerAssumption DEF Poll, Tick, handleVars, TimerInv, TypeOK, StageOK
  <2>2. active' => stage' = "idle"
    BY DEF Poll, Tick, handleVars, TimerInv, StageOK
  <2> QED
    BY <1>1, <2>1, <2>2 DEF TimerInv, StageOK, In
<1> QED
  BY <1>2, <1>3, <1>4, <1>5 DEF TimerInv

(* The first half of handleRead takes out exactly the timers that are due. *)
LEMMA HandleReadKeeps ==
    ASSUME TimerInv, HandleRead
    PROVE  TimerInv'
<1>1. TypeOK /\ MapsOK /\ PlacesOK /\ TasksOK /\ StageOK /\ HalfOK
  BY DEF TimerInv
<1>2. /\ active /\ active' = FALSE /\ now' = clock
      /\ todo' = Due(once, timer, clock) /\ once' = Later(once, timer, clock)
      /\ stage' = "once" /\ clock' = clock /\ timer' = timer /\ repeat' = repeat
      /\ min_expiration_' = min_expiration_ /\ upper' = upper /\ cur' = cur
      /\ to_update' = to_update /\ tasks' = tasks /\ fires' = fires /\ deleted' = deleted
      /\ deadline' = IF Ready THEN Forever ELSE deadline
  BY DEF HandleRead
<1>3. stage = "idle" /\ cur = NoTimer /\ todo = <<>> /\ to_update = <<>> /\ upper = NoTimer
  BY <1>1, <1>2 DEF StageOK
<1>4. timer \in TimerFcns /\ once \in Seq(Timers) /\ clock \in Int
  BY <1>1, Types
<1>5. /\ todo' \in Seq(Timers) /\ Distinct(todo')
      /\ once' \in Seq(Timers) /\ Distinct(once') /\ Sorted(once', timer)
      /\ \A t : In(t, todo') <=> In(t, once) /\ timer[t].expiration <= clock
      /\ \A t : In(t, once') <=> In(t, once) /\ ~(timer[t].expiration <= clock)
  BY <1>1, <1>2, <1>4, Halves DEF MapsOK
<1>6. TypeOK'
  <2>1. deadline' \in Int
    BY <1>1, <1>2, TimerAssumption DEF TypeOK
  <2> QED
    BY <1>1, <1>2, <1>5, <2>1 DEF TypeOK, Stages
<1>7. MapsOK'
  BY <1>1, <1>2, <1>5 DEF MapsOK, Sorted, Distinct
<1>8. PlacesOK'
  <2> SUFFICES ASSUME NEW x \in Timers
               PROVE  /\ In(x, once') \/ In(x, todo') =>
                           timer[x].created /\ timer[x].duration = 0 /\ fires[x] = 0
                      /\ ~(In(x, once') /\ In(x, todo'))
                      /\ In(x, todo') => timer[x].expiration <= clock
    BY <1>1, <1>2 DEF PlacesOK, In
  <2> QED
    BY <1>1, <1>5 DEF PlacesOK
<1>9. TasksOK'
  <2> SUFFICES ASSUME NEW i \in 1 .. Len(tasks) PROVE TaskOK(i)'
    BY <1>2 DEF TasksOK, TaskOK
  <2>1. TaskOK(i)
    BY <1>1 DEF TasksOK, TaskOK
  <2>2. tasks[i].op = "add" => ~In(tasks[i].t, once') /\ ~In(tasks[i].t, todo')
    BY <1>5, <2>1 DEF TaskOK
  <2> QED
    BY <1>2, <2>1, <2>2 DEF TaskOK
<1>10. StageOK' /\ HalfOK'
  <2>1. clock' <= clock'
    BY <1>2, <1>4
  <2> QED
    BY <1>2, <1>3, <2>1 DEF StageOK, HalfOK
<1> QED
  BY <1>6, <1>7, <1>8, <1>9, <1>10 DEF TimerInv

(* A timer that fires once is called once: it is in no multimap any more. *)
LEMMA CallOnceKeeps ==
    ASSUME TimerInv, CallOnce
    PROVE  TimerInv'
<1>1. TypeOK /\ MapsOK /\ PlacesOK /\ TasksOK /\ StageOK /\ HalfOK
  BY DEF TimerInv
<1> DEFINE t == Head(todo)
<1>2. /\ stage = "once" /\ cur = NoTimer /\ todo # <<>>
      /\ cur' = t /\ todo' = Tail(todo) /\ fires' = [fires EXCEPT ![t] = @ + 1]
      /\ clock' = clock /\ timer' = timer /\ once' = once /\ repeat' = repeat
      /\ min_expiration_' = min_expiration_ /\ deadline' = deadline
      /\ active' = active /\ stage' = stage /\ now' = now /\ upper' = upper
      /\ to_update' = to_update /\ tasks' = tasks /\ deleted' = deleted
  BY DEF CallOnce, queueVars
<1>3. todo \in Seq(Timers) /\ fires \in [Timers -> Nat]
  BY <1>1 DEF TypeOK
<1>4. /\ t \in Timers /\ In(t, todo)
      /\ todo' \in Seq(Timers) /\ Distinct(todo')
      /\ \A x : In(x, todo') => In(x, todo) /\ x # t
  <2>1. Len(todo) \in Nat /\ Len(todo) > 0 /\ t = todo[1] /\ 1 \in 1 .. Len(todo)
    BY <1>2, <1>3
  <2>2. todo' \in Seq(Timers) /\ Len(todo') = Len(todo) - 1
    BY <1>2, <1>3
  <2>3. \A i \in 1 .. Len(todo') : i + 1 \in 1 .. Len(todo) /\ i + 1 # 1 /\ todo'[i] = todo[i + 1]
    BY <1>2, <1>3, <2>1, <2>2
  <2>4. \A i, j \in 1 .. Len(todo) : todo[i] = todo[j] => i = j
    BY <1>1 DEF MapsOK, Distinct
  <2>5. ASSUME NEW i \in 1 .. Len(todo'), NEW j \in 1 .. Len(todo'), todo'[i] = todo'[j]
        PROVE  i = j
    <3>1. i + 1 = j + 1
      BY <2>3, <2>4, <2>5
    <3> QED
      BY <2>1, <2>2, <3>1
  <2>6. ASSUME NEW x, In(x, todo') PROVE In(x, todo) /\ x # t
    <3>1. PICK i \in 1 .. Len(todo') : todo'[i] = x
      BY <2>2, <2>6, InIs
    <3>2. i + 1 \in 1 .. Len(todo) /\ i + 1 # 1 /\ todo[i + 1] = x
      BY <2>3, <3>1
    <3>3. x # t
      BY <2>1, <2>4, <3>2
    <3> QED
      BY <1>3, <3>2, <3>3, InIs
  <2>7. t \in Timers /\ In(t, todo)
    BY <1>3, <2>1, InIs
  <2>8. Distinct(todo')
    BY <2>5 DEF Distinct
  <2> QED
    BY <2>2, <2>6, <2>7, <2>8
<1> HIDE DEF t
<1>5. /\ fires[t] = 0 /\ timer[t].created /\ timer[t].duration = 0
      /\ timer[t].expiration <= now /\ ~In(t, once)
  BY <1>1, <1>4 DEF PlacesOK
<1>6. /\ fires' \in [Timers -> Nat] /\ fires'[t] = 1
      /\ \A x \in Timers : x # t => fires'[x] = fires[x]
  BY <1>2, <1>3, <1>4, <1>5
<1>7. TypeOK'
  BY <1>1, <1>2, <1>4, <1>6 DEF TypeOK
<1>8. MapsOK'
  BY <1>1, <1>2, <1>4 DEF MapsOK, Sorted, Distinct
<1>9. PlacesOK'
  <2> SUFFICES ASSUME NEW x \in Timers
               PROVE  /\ In(x, once) \/ In(x, todo') =>
                           timer[x].created /\ timer[x].duration = 0 /\ fires'[x] = 0
                      /\ ~(In(x, once) /\ In(x, todo'))
                      /\ In(x, todo') => timer[x].expiration <= now
                      /\ ~timer[x].created => timer[x].duration = 0 /\ fires'[x] = 0
                      /\ timer[x].duration = 0 => fires'[x] <= 1
    BY <1>1, <1>2 DEF PlacesOK, In
  <2>1. CASE x = t
    BY <1>4, <1>5, <1>6, <2>1
  <2>2. CASE x # t
    BY <1>1, <1>4, <1>6, <2>2 DEF PlacesOK
  <2> QED
    BY <2>1, <2>2
<1>10. TasksOK'
  <2> SUFFICES ASSUME NEW i \in 1 .. Len(tasks) PROVE TaskOK(i)'
    BY <1>2 DEF TasksOK, TaskOK
  <2>1. TaskOK(i) /\ tasks[i].t \in Timers
    BY <1>1, Types DEF TasksOK, TaskOK
  <2>2. tasks[i].op = "add" => /\ ~In(tasks[i].t, todo') /\ tasks[i].t # cur'
                               /\ fires'[tasks[i].t] = 0
    BY <1>2, <1>4, <1>6, <2>1 DEF TaskOK
  <2> QED
    BY <1>2, <2>1, <2>2 DEF TaskOK
<1>11. StageOK' /\ HalfOK'
  BY <1>1, <1>2, <1>4, <1>5 DEF StageOK, HalfOK, In
<1> QED
  BY <1>7, <1>8, <1>9, <1>10, <1>11 DEF TimerInv

(* upper_it is the first timer that is not due. *)
LEMMA StartRepeatKeeps ==
    ASSUME TimerInv, StartRepeat
    PROVE  TimerInv'
<1>1. TypeOK /\ MapsOK /\ PlacesOK /\ TasksOK /\ StageOK /\ HalfOK
  BY DEF TimerInv
<1> DEFINE u == UpperBound(repeat, timer, now)
<1>2. /\ stage = "once" /\ cur = NoTimer /\ todo = <<>>
      /\ upper' = (IF u > Len(repeat) THEN NoTimer ELSE repeat[u]) /\ stage' = "repeat"
      /\ clock' = clock /\ timer' = timer /\ once' = once /\ repeat' = repeat
      /\ min_expiration_' = min_expiration_ /\ deadline' = deadline
      /\ active' = active /\ now' = now /\ todo' = todo /\ cur' = cur /\ fires' = fires
      /\ to_update' = to_update /\ tasks' = tasks /\ deleted' = deleted
  BY DEF StartRepeat, queueVars
<1>3. to_update = <<>>
  BY <1>1, <1>2 DEF StageOK
<1>4. repeat \in Seq(Timers) /\ timer \in TimerFcns /\ now \in Int
  BY <1>1, Types
<1>5. /\ u \in 1 .. Len(repeat) + 1
      /\ \A j \in 1 .. u - 1 : timer[repeat[j]].expiration <= now
      /\ \A j \in u .. Len(repeat) : timer[repeat[j]].expiration > now
  BY <1>1, <1>4, UpperBoundSplits DEF MapsOK
<1> HIDE DEF u
<1>6. Len(repeat) \in Nat
  BY <1>4
<1>7. TypeOK'
  <2>1. upper' \in Timers \cup {NoTimer}
    BY <1>2, <1>4, <1>5, <1>6
  <2> QED
    BY <1>1, <1>2, <2>1 DEF TypeOK, Stages
<1>8. MapsOK' /\ PlacesOK' /\ TasksOK'
  BY <1>1, <1>2 DEF MapsOK, Sorted, Distinct, PlacesOK, TasksOK, In
<1>9. StageOK'
  BY <1>1, <1>2 DEF StageOK
<1>10. HalfOK'
  <2>1. PICK n \in 0 .. Len(repeat) :
            n = u - 1 /\ n + 1 = u /\ (n = Len(repeat) <=> u > Len(repeat))
    BY <1>5, <1>6
  <2>2. Len(to_update) = 0
    BY <1>3
  <2>3. Half(n)'
    BY <1>2, <1>5, <1>6, <2>1, <2>2 DEF Half
  <2> QED
    BY <1>2, <2>1, <2>3 DEF HalfOK
<1> QED
  BY <1>7, <1>8, <1>9, <1>10 DEF TimerInv

(* The place of a timer in the multimap of those that repeat. *)
LEMMA PlaceOf ==
    ASSUME repeat \in Seq(Timers), Distinct(repeat), NEW k \in 1 .. Len(repeat)
    PROVE  (CHOOSE i \in DOMAIN repeat : repeat[i] = repeat[k]) = k
<1>1. DOMAIN repeat = 1 .. Len(repeat)
  OBVIOUS
<1>2. \A i \in 1 .. Len(repeat) : repeat[i] = repeat[k] => i = k
  BY DEF Distinct
<1> DEFINE c == CHOOSE i \in DOMAIN repeat : repeat[i] = repeat[k]
<1>3. c \in DOMAIN repeat /\ repeat[c] = repeat[k]
  BY <1>1
<1> HIDE DEF c
<1>4. c = k
  BY <1>1, <1>2, <1>3
<1> QED
  BY <1>4 DEF c

(* The loop over the repeating timers continues behind to_update, and ends *)
(* where to_update holds all that come before upper_it.                    *)
LEMMA FollowingIs ==
    ASSUME TimerInv, NEW n \in 0 .. Len(repeat), Half(n)
    PROVE  LET m == Len(to_update)
               f == Following(LastUpdated)
           IN  /\ m \in Nat /\ Len(repeat) \in Nat
               /\ f = IF m = Len(repeat) THEN NoTimer ELSE repeat[m + 1]
               /\ f = upper <=> m = n
<1> DEFINE m == Len(to_update)
<1>1. repeat \in Seq(Timers) /\ to_update \in Seq(Timers) /\ Distinct(repeat)
  BY Types DEF TimerInv, MapsOK
<1>2. m \in Nat /\ Len(repeat) \in Nat /\ m <= n
  BY <1>1 DEF Half
<1>3. \A i \in 1 .. Len(repeat) : repeat[i] \in Timers /\ repeat[i] # NoTimer
  BY <1>1, TimerAssumption
<1>4. LastUpdated = IF m = 0 THEN NoTimer ELSE repeat[m]
  <2>1. CASE m = 0
    BY <1>1, <2>1 DEF LastUpdated
  <2>2. CASE m # 0
    <3>1. to_update # <<>> /\ m \in 1 .. m
      BY <1>1, <1>2, <2>2
    <3>2. to_update[m] = repeat[m]
      BY <3>1 DEF Half
    <3> QED
      BY <2>2, <3>1, <3>2 DEF LastUpdated
  <2> QED
    BY <2>1, <2>2
<1> HIDE DEF m
<1>5. Following(LastUpdated) = IF m < Len(repeat) THEN repeat[m + 1] ELSE NoTimer
  <2>1. CASE m = 0
    BY <1>4, <2>1 DEF Following
  <2>2. CASE m # 0
    <3>1. m \in 1 .. Len(repeat)
      BY <1>2, <2>2
    <3>2. LastUpdated = repeat[m] /\ LastUpdated # NoTimer
      BY <1>3, <1>4, <2>2, <3>1
    <3>3. (CHOOSE i \in DOMAIN repeat : repeat[i] = repeat[m]) = m
      BY <1>1, <3>1, PlaceOf
    <3>4. repeat[m] # NoTimer
      BY <3>2
    <3> DEFINE c == CHOOSE i \in DOMAIN repeat : repeat[i] = repeat[m]
               w == IF repeat[m] = NoTimer THEN 0 ELSE c
    <3>5. Following(repeat[m]) = IF w < Len(repeat) THEN repeat[w + 1] ELSE NoTimer
      BY DEF Following
    <3>6. w = m
      BY <3>3, <3>4
    <3> HIDE DEF w
    <3> QED
      BY <3>2, <3>5, <3>6
  <2> QED
    BY <2>1, <2>2
<1>6. Following(LastUpdated) = IF m = Len(repeat) THEN NoTimer ELSE repeat[m + 1]
  BY <1>2, <1>5
<1>7. upper = IF n = Len(repeat) THEN NoTimer ELSE repeat[n + 1]
  BY DEF Half
<1>8. Following(LastUpdated) = upper <=> m = n
  <2>1. CASE m = n
    BY <1>6, <1>7, <2>1
  <2>2. CASE m # n
    <3>1. m + 1 \in 1 .. Len(repeat) /\ m # Len(repeat) /\ m + 1 # n + 1
          /\ (n # Len(repeat) => n + 1 \in 1 .. Len(repeat))
      BY <1>2, <2>2
    <3>2. Following(LastUpdated) = repeat[m + 1] /\ repeat[m + 1] # NoTimer
      BY <1>3, <1>6, <3>1
    <3>3. n # Len(repeat) => repeat[n + 1] # repeat[m + 1]
      BY <1>1, <3>1 DEF Distinct
    <3> QED
      BY <1>7, <2>2, <3>2, <3>3
  <2> QED
    BY <2>1, <2>2
<1> QED
  BY <1>2, <1>6, <1>8 DEF m

(* The second half calls the timers before upper_it in order. *)
LEMMA CallRepeatKeeps ==
    ASSUME TimerInv, CallRepeat
    PROVE  /\ TimerInv'
           /\ In(cur', repeat) /\ timer[cur'].expiration <= now /\ ~In(cur', to_update)
<1>1. TypeOK /\ MapsOK /\ PlacesOK /\ TasksOK /\ StageOK /\ HalfOK
  BY DEF TimerInv
<1>2. /\ stage = "repeat" /\ cur = NoTimer
      /\ Following(LastUpdated) # upper /\ cur' = Following(LastUpdated)
      /\ fires' = [fires EXCEPT ![cur'] = @ + 1]
      /\ clock' = clock /\ timer' = timer /\ once' = once /\ repeat' = repeat
      /\ min_expiration_' = min_expiration_ /\ deadline' = deadline
      /\ active' = active /\ stage' = stage /\ now' = now /\ upper' = upper
      /\ todo' = todo /\ to_update' = to_update /\ tasks' = tasks /\ deleted' = deleted
  BY DEF CallRepeat, queueVars
<1>3. PICK n \in 0 .. Len(repeat) : Half(n)
  BY <1>1, <1>2 DEF HalfOK
<1> DEFINE m == Len(to_update)
<1>4. /\ m \in Nat /\ Len(repeat) \in Nat /\ m <= n /\ m # n
      /\ Following(LastUpdated) = IF m = Len(repeat) THEN NoTimer ELSE repeat[m + 1]
  BY <1>2, <1>3, FollowingIs DEF Half
<1>5. m < n /\ m # Len(repeat) /\ m + 1 \in 1 .. Len(repeat) /\ m + 1 \in 1 .. n
  BY <1>4
<1>6. cur' = repeat[m + 1]
  BY <1>2, <1>4, <1>5
<1>7. repeat \in Seq(Timers) /\ to_update \in Seq(Timers) /\ fires \in [Timers -> Nat]
  BY <1>1 DEF TypeOK
<1>8. cur' \in Timers /\ In(cur', repeat)
  BY <1>5, <1>6, <1>7, InIs
<1>9. timer[cur'].expiration <= now
  BY <1>3, <1>5, <1>6 DEF Half
<1>10. ~In(cur', to_update)
  <2> SUFFICES ASSUME NEW i \in 1 .. m, to_update[i] = cur' PROVE FALSE
    BY <1>7, InIs
  <2>1. repeat[i] = repeat[m + 1] /\ i \in 1 .. Len(repeat) /\ i # m + 1
    BY <1>3, <1>4, <1>5, <1>6 DEF Half
  <2> QED
    BY <1>1, <1>5, <2>1 DEF MapsOK, Distinct
<1>11. timer[cur'].created /\ timer[cur'].duration # 0
  BY <1>1, <1>8 DEF PlacesOK
<1>12. /\ fires' \in [Timers -> Nat]
       /\ \A x \in Timers : x # cur' => fires'[x] = fires[x]
  BY <1>2, <1>7, <1>8
<1>13. TypeOK'
  BY <1>1, <1>2, <1>8, <1>12 DEF TypeOK
<1>14. MapsOK'
  BY <1>1, <1>2 DEF MapsOK, Sorted, Distinct
<1>15. PlacesOK'
  <2> SUFFICES ASSUME NEW x \in Timers
               PROVE  /\ In(x, once) \/ In(x, todo) =>
                           timer[x].created /\ timer[x].duration = 0 /\ fires'[x] = 0
                      /\ ~timer[x].created => timer[x].duration = 0 /\ fires'[x] = 0
                      /\ timer[x].duration = 0 => fires'[x] <= 1
    BY <1>1, <1>2 DEF PlacesOK, In
  <2>1. CASE x = cur'
    BY <1>1, <1>11, <2>1 DEF PlacesOK
  <2>2. CASE x # cur'
    BY <1>1, <1>12, <2>2 DEF PlacesOK
  <2> QED
    BY <2>1, <2>2
<1>16. TasksOK'
  <2> SUFFICES ASSUME NEW i \in 1 .. Len(tasks) PROVE TaskOK(i)'
    BY <1>2 DEF TasksOK, TaskOK
  <2>1. TaskOK(i) /\ tasks[i].t \in Timers
    BY <1>1, Types DEF TasksOK, TaskOK
  <2>2. tasks[i].op = "add" => tasks[i].t # cur' /\ fires'[tasks[i].t] = 0
    BY <1>8, <1>12, <2>1 DEF TaskOK
  <2> QED
    BY <1>2, <2>1, <2>2 DEF TaskOK, In
<1>17. StageOK'
  BY <1>1, <1>2 DEF StageOK
<1>18. HalfOK'
  <2>1. Half(n)'
    BY <1>2, <1>3, <1>5, <1>6 DEF Half
  <2> QED
    BY <1>2, <2>1 DEF HalfOK
<1> QED
  BY <1>8, <1>9, <1>10, <1>13, <1>14, <1>15, <1>16, <1>17, <1>18 DEF TimerInv

(* A callback returns; to_update stays the part that has been called. *)
LEMMA ReturnKeeps ==
    ASSUME TimerInv, Return
    PROVE  TimerInv'
<1>1. TypeOK /\ MapsOK /\ PlacesOK /\ TasksOK /\ StageOK /\ HalfOK
  BY DEF TimerInv
<1>2. /\ cur # NoTimer /\ cur' = NoTimer
      /\ to_update' = IF stage = "repeat" THEN Append(to_update, cur) ELSE to_update
      /\ clock' = clock /\ timer' = timer /\ once' = once /\ repeat' = repeat
      /\ min_expiration_' = min_expiration_ /\ deadline' = deadline
      /\ active' = active /\ stage' = stage /\ now' = now /\ upper' = upper
      /\ todo' = todo /\ fires' = fires /\ tasks' = tasks /\ deleted' = deleted
  BY DEF Return, queueVars
<1>3. cur \in Timers
  BY <1>2, CurIsCreated
<1>4. to_update \in Seq(Timers) /\ repeat \in Seq(Timers)
  BY <1>1, Types
<1>5. TypeOK'
  <2>1. to_update' \in Seq(Timers)
    BY <1>2, <1>3, <1>4
  <2> QED
    BY <1>1, <1>2, <2>1 DEF TypeOK
<1>6. MapsOK' /\ PlacesOK'
  BY <1>1, <1>2 DEF MapsOK, Sorted, Distinct, PlacesOK, In
<1>7. TasksOK'
  <2> SUFFICES ASSUME NEW i \in 1 .. Len(tasks) PROVE TaskOK(i)'
    BY <1>2 DEF TasksOK, TaskOK
  <2>1. TaskOK(i) /\ tasks[i].t \in Timers
    BY <1>1, Types DEF TasksOK, TaskOK
  <2>2. tasks[i].t # cur'
    BY <1>2, <2>1, TimerAssumption
  <2> QED
    BY <1>2, <2>1, <2>2 DEF TaskOK, In
<1>8. StageOK'
  BY <1>1, <1>2 DEF StageOK
<1>9. HalfOK'
  <2> SUFFICES ASSUME stage = "repeat" PROVE HalfOK'
    BY <1>2 DEF HalfOK
  <2>1. PICK n \in 0 .. Len(repeat) : Half(n)
    BY <1>1 DEF HalfOK
  <2> DEFINE m == Len(to_update)
  <2>2. m \in Nat /\ Len(repeat) \in Nat /\ m < n /\ cur = repeat[m + 1]
    BY <1>2, <1>4, <2>1 DEF Half
  <2>3. /\ Len(to_update') = m + 1 /\ to_update'[m + 1] = cur
        /\ \A i \in 1 .. m : to_update'[i] = to_update[i]
    BY <1>2, <1>3, <1>4
  <2>4. \A i \in 1 .. m + 1 : to_update'[i] = repeat[i]
    <3>1. \A i \in 1 .. m + 1 : i \in 1 .. m \/ i = m + 1
      BY <2>2
    <3> QED
      BY <2>1, <2>2, <2>3, <3>1 DEF Half
  <2>5. m + 1 <= n
    BY <2>2
  <2>6. Half(n)'
    BY <1>2, <2>1, <2>3, <2>4, <2>5 DEF Half
  <2> QED
    BY <1>2, <2>6 DEF HalfOK
<1> QED
  BY <1>5, <1>6, <1>7, <1>8, <1>9 DEF TimerInv

(* The timers from upper_it on are those behind the first n. *)
LEMMA FromUpperIs ==
    ASSUME TimerInv, NEW n \in 0 .. Len(repeat), Half(n)
    PROVE  /\ FromUpper \in Seq(Timers) /\ Sorted(FromUpper, timer) /\ Distinct(FromUpper)
           /\ \A x : In(x, FromUpper) <=> \E i \in n + 1 .. Len(repeat) : repeat[i] = x
<1>1. repeat \in Seq(Timers) /\ Distinct(repeat) /\ Sorted(repeat, timer)
  BY Types DEF TimerInv, MapsOK
<1>2. Len(repeat) \in Nat /\ \A i \in 1 .. Len(repeat) : repeat[i] \in Timers
  BY <1>1
<1>3. upper = IF n = Len(repeat) THEN NoTimer ELSE repeat[n + 1]
  BY DEF Half
<1>4. CASE n = Len(repeat)
  <2>1. FromUpper = <<>>
    BY <1>3, <1>4 DEF FromUpper
  <2>2. Len(FromUpper) = 0 /\ FromUpper \in Seq(Timers) /\ DOMAIN FromUpper = {}
    BY <2>1
  <2>3. Sorted(FromUpper, timer) /\ Distinct(FromUpper) /\ \A x : ~In(x, FromUpper)
    BY <2>2 DEF Sorted, Distinct, In
  <2>4. n + 1 .. Len(repeat) = {}
    BY <1>2, <1>4
  <2> QED
    BY <2>2, <2>3, <2>4
<1>5. CASE n # Len(repeat)
  <2>1. n + 1 \in 1 .. Len(repeat) /\ upper = repeat[n + 1] /\ repeat[n + 1] # NoTimer
    BY <1>2, <1>3, <1>5, TimerAssumption
  <2>2. (CHOOSE i \in DOMAIN repeat : repeat[i] = repeat[n + 1]) = n + 1
    BY <1>1, <2>1, PlaceOf
  <2> DEFINE f == SubSeq(repeat, n + 1, Len(repeat))
  <2>3. FromUpper = f
    <3>1. FromUpper = LET i == CHOOSE i \in DOMAIN repeat : repeat[i] = upper
                      IN  SubSeq(repeat, i, Len(repeat))
      BY <2>1 DEF FromUpper
    <3>2. FromUpper = LET i == CHOOSE i \in DOMAIN repeat : repeat[i] = repeat[n + 1]
                      IN  SubSeq(repeat, i, Len(repeat))
      BY <2>1, <3>1
    <3> QED
      BY <2>2, <3>2
  <2>4. f \in Seq(Timers) /\ Len(f) = Len(repeat) - n
        /\ \A i \in 1 .. Len(repeat) - n : f[i] = repeat[n + i]
    <3>1. \A i \in 1 .. Len(repeat) - n : (n + 1) + i - 1 = n + i
      BY <1>2
    <3>2. f \in Seq(Timers) /\ Len(f) = Len(repeat) - n
          /\ \A i \in 1 .. Len(repeat) - n : f[i] = repeat[(n + 1) + i - 1]
      BY <1>1, <1>2, <2>1
    <3> QED
      BY <3>1, <3>2
  <2> HIDE DEF f
  <2>5. \A i \in 1 .. Len(f) : n + i \in 1 .. Len(repeat) /\ n + i \in n + 1 .. Len(repeat)
                                 /\ f[i] = repeat[n + i]
    BY <1>2, <2>4
  <2>6. \A i, j \in 1 .. Len(f) : (i <= j => n + i <= n + j) /\ (n + i = n + j => i = j)
    BY <1>2, <2>4
  <2>7. Sorted(f, timer) /\ Distinct(f)
    <3>1. ASSUME NEW i \in 1 .. Len(f), NEW j \in 1 .. Len(f), i <= j
          PROVE  timer[f[i]].expiration <= timer[f[j]].expiration
      BY <1>1, <2>5, <2>6, <3>1 DEF Sorted
    <3>2. ASSUME NEW i \in 1 .. Len(f), NEW j \in 1 .. Len(f), f[i] = f[j]
          PROVE  i = j
      BY <1>1, <2>5, <2>6, <3>2 DEF Distinct
    <3> QED
      BY <3>1, <3>2 DEF Sorted, Distinct
  <2>8. ASSUME NEW x PROVE In(x, f) <=> \E i \in n + 1 .. Len(repeat) : repeat[i] = x
    <3>1. In(x, f) <=> \E i \in 1 .. Len(f) : f[i] = x
      BY <2>4, InIs
    <3>2. ASSUME NEW i \in n + 1 .. Len(repeat), repeat[i] = x
          PROVE  \E j \in 1 .. Len(f) : f[j] = x
      <4>1. i - n \in 1 .. Len(f) /\ n + (i - n) = i
        BY <1>2, <2>4
      <4>2. f[i - n] = x
        BY <2>5, <3>2, <4>1
      <4> QED
        BY <4>1, <4>2
    <3> QED
      BY <2>5, <3>1, <3>2
  <2> QED
    BY <2>3, <2>4, <2>7, <2>8
<1> QED
  BY <1>4, <1>5

(* timerUpdate moves exactly the timers of to_update, by one interval. *)
LEMMA UpdatedIs ==
    ASSUME TypeOK
    PROVE  /\ Updated \in TimerFcns
           /\ \A x \in Timers :
                 /\ Updated[x].created = timer[x].created
                 /\ Updated[x].first = timer[x].first
                 /\ Updated[x].duration = timer[x].duration
                 /\ In(x, to_update) =>
                       Updated[x].expiration = timer[x].expiration + timer[x].duration
                 /\ ~In(x, to_update) => Updated[x] = timer[x]
<1> DEFINE Rec == [created : BOOLEAN, expiration : Int, first : Int, duration : Nat]
           new(x) == [timer[x] EXCEPT !.expiration = NextExpiration(x)]
<1>1. ASSUME NEW x \in Timers
      PROVE  /\ timer[x] \in Rec
             /\ new(x) \in Rec
             /\ new(x).created = timer[x].created
             /\ new(x).first = timer[x].first
             /\ new(x).duration = timer[x].duration
             /\ new(x).expiration = timer[x].expiration + timer[x].duration
  <2>1. timer[x] \in Rec
    BY DEF TypeOK
  <2>2. timer[x].expiration + timer[x].duration \in Int
    BY <2>1
  <2> QED
    BY <2>1, <2>2 DEF NextExpiration
<1>2. Updated = [x \in Timers |-> IF In(x, to_update) THEN new(x) ELSE timer[x]]
  BY DEF Updated, In
<1> HIDE DEF new, Rec
<1>3. \A x \in Timers : Updated[x] = IF In(x, to_update) THEN new(x) ELSE timer[x]
  BY <1>2
<1>4. Updated \in [Timers -> Rec]
  BY <1>1, <1>2
<1>5. ASSUME NEW x \in Timers
      PROVE  /\ Updated[x].created = timer[x].created
             /\ Updated[x].first = timer[x].first
             /\ Updated[x].duration = timer[x].duration
             /\ In(x, to_update) =>
                   Updated[x].expiration = timer[x].expiration + timer[x].duration
             /\ ~In(x, to_update) => Updated[x] = timer[x]
  <2>1. CASE In(x, to_update)
    BY <1>1, <1>3, <2>1
  <2>2. CASE ~In(x, to_update)
    BY <1>3, <2>2
  <2> QED
    BY <2>1, <2>2
<1> QED
  BY <1>4, <1>5 DEF TimerFcns, Rec

(* The end of handleRead: to_update holds exactly the timers that were     *)
(* due, and the multimap holds the same timers as before.                  *)
LEMMA EndIs ==
    ASSUME TimerInv, EndHandleRead
    PROVE  /\ timer' = Updated /\ timer' \in TimerFcns
           /\ repeat' \in Seq(Timers) /\ Sorted(repeat', timer') /\ Distinct(repeat')
           /\ \A x : In(x, repeat') <=> In(x, repeat)
           /\ \A x : In(x, repeat) => (In(x, to_update) <=> timer[x].expiration <= now)
<1>1. TypeOK /\ MapsOK /\ PlacesOK /\ TasksOK /\ StageOK /\ HalfOK
  BY DEF TimerInv
<1>2. /\ stage = "repeat" /\ Following(LastUpdated) = upper
      /\ timer' = Updated /\ repeat' = InsertAll(FromUpper, timer', to_update)
  BY DEF EndHandleRead
<1>3. PICK n \in 0 .. Len(repeat) : Half(n)
  BY <1>1, <1>2 DEF HalfOK
<1>4. Len(to_update) = n /\ n \in Nat /\ Len(repeat) \in Nat
  BY <1>2, <1>3, FollowingIs
<1>5. /\ repeat \in Seq(Timers) /\ to_update \in Seq(Timers) /\ Distinct(repeat)
      /\ timer \in TimerFcns /\ now \in Int
  BY <1>1, Types DEF MapsOK
<1>6. \A i \in 1 .. n : i \in 1 .. Len(repeat) /\ to_update[i] = repeat[i]
                          /\ timer[repeat[i]].expiration <= now
  BY <1>3, <1>4 DEF Half
<1>7. \A i \in n + 1 .. Len(repeat) : i \in 1 .. Len(repeat)
                                        /\ timer[repeat[i]].expiration > now
  BY <1>3, <1>4 DEF Half
<1>8. Distinct(to_update)
  BY <1>4, <1>5, <1>6 DEF Distinct
<1>9. /\ FromUpper \in Seq(Timers) /\ Sorted(FromUpper, timer) /\ Distinct(FromUpper)
      /\ \A x : In(x, FromUpper) <=> \E i \in n + 1 .. Len(repeat) : repeat[i] = x
  BY <1>3, FromUpperIs
<1>10. \A x : In(x, to_update) <=> \E i \in 1 .. n : repeat[i] = x
  <2>1. \A x : In(x, to_update) <=> \E i \in 1 .. n : to_update[i] = x
    BY <1>4, <1>5, InIs
  <2> QED
    BY <1>6, <2>1
<1>11. \A x : In(x, repeat) <=> \E i \in 1 .. Len(repeat) : repeat[i] = x
  BY <1>5, InIs
<1>12. \A x : ~(In(x, FromUpper) /\ In(x, to_update))
  <2> SUFFICES ASSUME NEW x, In(x, FromUpper), In(x, to_update) PROVE FALSE
    OBVIOUS
  <2>1. PICK i \in n + 1 .. Len(repeat) : repeat[i] = x
    BY <1>9
  <2>2. PICK j \in 1 .. n : repeat[j] = x
    BY <1>10
  <2>3. i = j
    BY <1>5, <1>6, <1>7, <2>1, <2>2 DEF Distinct
  <2> QED
    BY <1>4, <2>3
<1>13. timer' \in TimerFcns /\ Sorted(FromUpper, timer')
  <2>1. timer' \in TimerFcns /\ \A x \in Timers : ~In(x, to_update) => timer'[x] = timer[x]
    BY <1>1, <1>2, UpdatedIs
  <2>2. \A x \in Timers : In(x, FromUpper) => timer'[x].expiration = timer[x].expiration
    BY <1>12, <2>1
  <2> QED
    BY <1>9, <2>1, <2>2, SameKeys
<1>14. /\ repeat' \in Seq(Timers) /\ Sorted(repeat', timer') /\ Distinct(repeat')
       /\ \A x : In(x, repeat') <=> In(x, FromUpper) \/ In(x, to_update)
  BY <1>2, <1>5, <1>8, <1>9, <1>12, <1>13, InsertAllKeeps
<1>15. \A i \in 1 .. Len(repeat) : i \in 1 .. n \/ i \in n + 1 .. Len(repeat)
  BY <1>4
<1>16. \A x : In(x, repeat) <=> In(x, FromUpper) \/ In(x, to_update)
  BY <1>6, <1>7, <1>9, <1>10, <1>11, <1>15
<1>17. ASSUME NEW x, In(x, repeat) PROVE In(x, to_update) <=> timer[x].expiration <= now
  <2>1. PICK i \in 1 .. Len(repeat) : repeat[i] = x
    BY <1>11, <1>17
  <2>2. CASE i \in 1 .. n
    BY <1>6, <1>10, <2>1, <2>2
  <2>3. CASE i \in n + 1 .. Len(repeat)
    <3>1. timer[x].expiration > now /\ x \in Timers /\ timer[x].expiration \in Int
      BY <1>5, <1>7, <2>1, <2>3 DEF TimerFcns
    <3>2. In(x, FromUpper)
      BY <1>9, <2>1, <2>3
    <3> QED
      BY <1>5, <1>12, <3>1, <3>2
  <2> QED
    BY <1>15, <2>2, <2>3
<1> QED
  BY <1>2, <1>13, <1>14, <1>16, <1>17

(* handleRead ends with the same timers in the multimap, in order again. *)
LEMMA EndHandleReadKeeps ==
    ASSUME TimerInv, EndHandleRead
    PROVE  TimerInv'
<1>1. TypeOK /\ MapsOK /\ PlacesOK /\ TasksOK /\ StageOK /\ HalfOK
  BY DEF TimerInv
<1>2. /\ stage = "repeat" /\ cur = NoTimer /\ ResetTimerfd(once, repeat', timer')
      /\ stage' = "idle" /\ upper' = NoTimer /\ to_update' = <<>>
      /\ clock' = clock /\ once' = once /\ active' = active /\ now' = now /\ todo' = todo
      /\ cur' = cur /\ tasks' = tasks /\ fires' = fires /\ deleted' = deleted
  BY DEF EndHandleRead
<1>3. /\ timer' = Updated /\ timer' \in TimerFcns
      /\ repeat' \in Seq(Timers) /\ Sorted(repeat', timer') /\ Distinct(repeat')
      /\ \A x : In(x, repeat') <=> In(x, repeat)
  BY EndIs
<1>4. \A x : In(x, to_update) => In(x, repeat)
  BY UpdateInRepeat
<1>5. \A x \in Timers :
         /\ timer'[x].created = timer[x].created
         /\ timer'[x].duration = timer[x].duration
         /\ ~In(x, to_update) => timer'[x] = timer[x]
  BY <1>1, <1>3, UpdatedIs
<1>6. once \in Seq(Timers) /\ todo \in Seq(Timers)
  BY <1>1, Types
<1>7. todo = <<>> /\ active' = FALSE
  BY <1>1, <1>2 DEF StageOK, TypeOK
<1>8. \A x \in Timers : In(x, once) => ~In(x, to_update)
  BY <1>1, <1>4 DEF PlacesOK
<1>9. Sorted(once, timer')
  BY <1>1, <1>5, <1>6, <1>8, SameKeys DEF MapsOK
<1>10. TypeOK'
  <2>1. min_expiration_' \in Int /\ deadline' \in Int
    BY <1>1, <1>2, <1>3, <1>6, ResetTypes
  <2>2. timer' \in [Timers -> [created : BOOLEAN, expiration : Int, first : Int,
                                duration : Nat]]
    BY <1>3 DEF TimerFcns
  <2>3. to_update' \in Seq(Timers)
    BY <1>2
  <2> QED
    BY <1>1, <1>2, <1>3, <2>1, <2>2, <2>3 DEF TypeOK, Stages
<1>11. MapsOK'
  BY <1>1, <1>2, <1>3, <1>9 DEF MapsOK, Sorted, Distinct
<1>12. PlacesOK'
  <2> SUFFICES ASSUME NEW x \in Timers
               PROVE  /\ In(x, once) \/ In(x, todo) =>
                           timer'[x].created /\ timer'[x].duration = 0 /\ fires[x] = 0
                      /\ ~(In(x, once) /\ In(x, todo))
                      /\ ~In(x, todo)
                      /\ In(x, repeat') => timer'[x].created /\ timer'[x].duration # 0
                                             /\ x \notin deleted
                      /\ x \in deleted => timer'[x].created /\ timer'[x].duration # 0
                      /\ ~timer'[x].created => timer'[x].duration = 0 /\ fires[x] = 0
                      /\ timer'[x].duration = 0 => fires[x] <= 1
    BY <1>2 DEF PlacesOK, In
  <2>1. ~In(x, todo)
    BY <1>7 DEF In
  <2>2. /\ timer'[x].created = timer[x].created
        /\ timer'[x].duration = timer[x].duration
    BY <1>5
  <2>3. In(x, repeat') <=> In(x, repeat)
    BY <1>3
  <2> QED
    BY <1>1, <2>1, <2>2, <2>3 DEF PlacesOK
<1>13. TasksOK'
  <2> SUFFICES ASSUME NEW i \in 1 .. Len(tasks) PROVE TaskOK(i)'
    BY <1>2 DEF TasksOK, TaskOK
  <2>1. TaskOK(i) /\ tasks[i].t \in Timers
    BY <1>1, Types DEF TasksOK, TaskOK
  <2>2. /\ timer'[tasks[i].t].created = timer[tasks[i].t].created
        /\ timer'[tasks[i].t].duration = timer[tasks[i].t].duration
        /\ In(tasks[i].t, repeat') <=> In(tasks[i].t, repeat)
    BY <1>3, <1>5, <2>1
  <2> QED
    BY <1>2, <2>1, <2>2 DEF TaskOK, In
<1>14. StageOK' /\ HalfOK'
  BY <1>1, <1>2, <1>7 DEF StageOK, HalfOK
<1> QED
  BY <1>10, <1>11, <1>12, <1>13, <1>14 DEF TimerInv

-----------------------------------------------------------------------------
(* The theorems.  In a loop whose repeating timers call runEvery, upper_it *)
(* is overtaken by new timers and the second half of handleRead calls what *)
(* is not due: that case is left out by RunEveryInCallback = FALSE.        *)

(* An empty queue. *)
LEMMA InitHolds == Init => TimerInv
<1> SUFFICES ASSUME Init PROVE TimerInv
  OBVIOUS
<1>1. TypeOK
  <2>1. timer \in [Timers -> [created : BOOLEAN, expiration : Int, first : Int,
                                duration : Nat]]
    BY DEF Init
  <2>2. /\ clock \in 0 .. MaxTime /\ now \in 0 .. MaxTime
        /\ min_expiration_ \in Int /\ deadline \in Int
    BY TimerAssumption DEF Init
  <2>3. /\ once \in Seq(Timers) /\ repeat \in Seq(Timers) /\ todo \in Seq(Timers)
        /\ to_update \in Seq(Timers) /\ tasks \in Seq([op : {"add", "delete"}, t : Timers])
    BY DEF Init
  <2>4. /\ active \in BOOLEAN /\ stage \in Stages /\ upper \in Timers \cup {NoTimer}
        /\ cur \in Timers \cup {NoTimer} /\ fires \in [Timers -> Nat]
        /\ deleted \in SUBSET Timers
    BY DEF Init, Stages
  <2> QED
    BY <2>1, <2>2, <2>3, <2>4 DEF TypeOK
<1>2. Len(once) = 0 /\ Len(repeat) = 0 /\ Len(todo) = 0 /\ Len(tasks) = 0
  BY DEF Init
<1>3. \A t : ~In(t, once) /\ ~In(t, repeat) /\ ~In(t, todo)
  <2>1. DOMAIN once = {} /\ DOMAIN repeat = {} /\ DOMAIN todo = {}
    BY DEF Init
  <2> QED
    BY <2>1 DEF In
<1>4. MapsOK /\ TasksOK
  BY <1>2 DEF MapsOK, Sorted, Distinct, TasksOK
<1>5. PlacesOK
  <2>1. \A t \in Timers : timer[t].duration = 0 /\ fires[t] = 0 /\ t \notin deleted
    BY DEF Init
  <2>2. ASSUME NEW t \in Timers PROVE fires[t] <= 1
    <3>1. fires[t] = 0
      BY <2>1
    <3>2. 0 <= 1
      OBVIOUS
    <3> QED
      BY <3>1, <3>2
  <2> QED
    BY <1>3, <2>1, <2>2, Zenon DEF PlacesOK
<1>6. StageOK /\ HalfOK
  BY DEF Init, StageOK, HalfOK
<1> QED
  BY <1>1, <1>4, <1>5, <1>6 DEF TimerInv

(* Every step keeps the invariant. *)
LEMMA StepKeeps ==
    ASSUME RunEveryInCallback = FALSE, TimerInv, [Next]_vars
    PROVE  TimerInv'
<1>1. ASSUME NEW t \in Timers, NEW q \in Requests, AddInPlace(t, q) PROVE TimerInv'
  BY <1>1, AddInPlaceKeeps
<1>2. ASSUME NEW t \in Timers, NEW q \in Requests, AddFromThread(t, q) PROVE TimerInv'
  BY <1>2, AddFromThreadKeeps
<1>3. ASSUME NEW t \in Timers, DeleteTimer(t) PROVE TimerInv'
  BY <1>3, DeleteTimerKeeps
<1>4. CASE Poll \/ Tick
  BY <1>4, QuietKeeps
<1>5. CASE HandleRead
  BY <1>5, HandleReadKeeps
<1>6. CASE CallOnce
  BY <1>6, CallOnceKeeps
<1>7. CASE StartRepeat
  BY <1>7, StartRepeatKeeps
<1>8. CASE CallRepeat
  BY <1>8, CallRepeatKeeps
<1>9. CASE Return
  BY <1>9, ReturnKeeps
<1>10. CASE EndHandleRead
  BY <1>10, EndHandleReadKeeps
<1>11. CASE RunAdd
  BY <1>11, RunAddKeeps
<1>12. CASE RunDelete
  BY <1>12, RunDeleteKeeps
<1>13. CASE UNCHANGED vars
  <2>1. /\ timer' = timer /\ once' = once /\ repeat' = repeat /\ todo' = todo
        /\ to_update' = to_update /\ upper' = upper /\ cur' = cur /\ stage' = stage
        /\ now' = now /\ fires' = fires /\ deleted' = deleted /\ tasks' = tasks
        /\ clock' = clock /\ active' = active
        /\ min_expiration_' = min_expiration_ /\ deadline' = deadline
    BY <1>13 DEF vars
  <2>2. MapsOK' /\ PlacesOK' /\ HalfOK'
    BY <2>1, OthersKeep
  <2>3. TypeOK' /\ TasksOK' /\ StageOK'
    BY <2>1 DEF TimerInv, TypeOK, TasksOK, StageOK, In
  <2> QED
    BY <2>2, <2>3 DEF TimerInv
<1> QED
  BY <1>1, <1>2, <1>3, <1>4, <1>5, <1>6, <1>7, <1>8, <1>9, <1>10, <1>11, <1>12, <1>13
     DEF Next, LoopStep

(* The invariant of the timer queue: multimaps, queued tasks and the       *)
(* stages of handleRead agree, for any timers and any length of time, when *)
(* callbacks of runEvery do not call runEvery.  The theorems that follow   *)
(* from it have that assumption, and with a callback that does, which      *)
(* inserts into the range handleRead is iterating over, NoEarlyFire and    *)
(* DueIsCalled are false (TimerQueueReentrant.cfg).                        *)
THEOREM TimerInvariant ==
    ASSUME RunEveryInCallback = FALSE
    PROVE  Spec => []TimerInv
<1>1. TimerInv /\ [Next]_vars => TimerInv'
  BY StepKeeps
<1> QED
  BY <1>1, InitHolds, PTL DEF Spec

(* Type correctness of the timer queue. *)
THEOREM TypeCorrect ==
    ASSUME RunEveryInCallback = FALSE
    PROVE  Spec => []TypeOK
<1>1. TimerInv => TypeOK
  BY DEF TimerInv
<1> QED
  BY <1>1, TimerInvariant, PTL

(* handleRead calls no callback before its time, when callbacks of         *)
(* runEvery do not call runEvery.                                          *)
THEOREM NoEarlyFireCorrect ==
    ASSUME RunEveryInCallback = FALSE
    PROVE  Spec => []NoEarlyFire
<1>1. TimerInv => NoEarlyFire
  <2> SUFFICES ASSUME TimerInv, cur # NoTimer
               PROVE  timer[cur].expiration <= clock
    BY DEF NoEarlyFire
  <2>1. cur \in Timers /\ (stage = "once" \/ stage = "repeat")
    BY CurIsCreated
  <2>2. timer[cur].expiration <= now
    <3>1. CASE stage = "once"
      BY <3>1 DEF TimerInv, StageOK
    <3>2. CASE stage = "repeat"
      <4>1. PICK n \in 0 .. Len(repeat) : Half(n)
        BY <3>2 DEF TimerInv, HalfOK
      <4>2. to_update \in Seq(Timers) /\ repeat \in Seq(Timers)
        BY Types DEF TimerInv
      <4>3. Len(to_update) \in Nat /\ Len(repeat) \in Nat
        BY <4>2
      <4>4. Len(to_update) + 1 \in 1 .. n /\ cur = repeat[Len(to_update) + 1]
        BY <4>1, <4>3 DEF Half
      <4> QED
        BY <4>1, <4>4 DEF Half
    <3> QED
      BY <2>1, <3>1, <3>2
  <2>3. timer[cur].expiration \in Int /\ now \in Int /\ clock \in Int /\ now <= clock
    BY <2>1, Types DEF TimerInv, StageOK
  <2> QED
    BY <2>2, <2>3
<1> QED
  BY <1>1, TimerInvariant, PTL

(* A timer that deleteTimerInLoop was run for never comes back, also when  *)
(* another thread added it and deleted it at once, when callbacks of       *)
(* runEvery do not call runEvery.                                          *)
THEOREM DeletedIsGoneCorrect ==
    ASSUME RunEveryInCallback = FALSE
    PROVE  Spec => []DeletedIsGone
<1>1. TimerInv => DeletedIsGone
  <2> SUFFICES ASSUME TimerInv, NEW t \in deleted
               PROVE  ~In(t, repeat) /\ ~In(t, to_update) /\ cur # t
    BY DEF DeletedIsGone
  <2>1. t \in Timers
    BY DEF TimerInv, TypeOK
  <2>2. ~In(t, repeat) /\ timer[t].duration # 0
    BY <2>1 DEF TimerInv, PlacesOK
  <2>3. ~In(t, to_update)
    BY <2>2, UpdateInRepeat
  <2>4. ASSUME cur = t PROVE FALSE
    <3>1. cur # NoTimer
      BY <2>1, <2>4, TimerAssumption
    <3>2. (stage = "once" \/ stage = "repeat") /\ (stage = "repeat" => In(cur, repeat))
      BY <3>1, CurIsCreated
    <3> QED
      BY <2>2, <2>4, <3>1, <3>2 DEF TimerInv, StageOK
  <2> QED
    BY <2>2, <2>3, <2>4
<1> QED
  BY <1>1, TimerInvariant, PTL

(* The second half of handleRead calls what is due, and loses nothing when *)
(* it erases and re-enters, when callbacks of runEvery do not call         *)
(* runEvery: a timer such a callback enters behind the iterator is erased  *)
(* without being called.                                                   *)
THEOREM DueIsCalledCorrect ==
    ASSUME RunEveryInCallback = FALSE
    PROVE  Spec => DueIsCalled
<1> DEFINE A == stage = "repeat" /\ stage' = "idle" =>
                  \A t \in Timers : In(t, repeat) =>
                     /\ In(t, repeat')
                     /\ timer[t].expiration <= now => In(t, to_update)
<1>1. TimerInv /\ [Next]_vars => [A]_vars
  <2> SUFFICES ASSUME TimerInv, [Next]_vars, stage = "repeat", stage' = "idle",
                      NEW t \in Timers, In(t, repeat)
               PROVE  In(t, repeat') /\ (timer[t].expiration <= now => In(t, to_update))
    OBVIOUS
  <2>1. EndHandleRead
    BY DEF Next, LoopStep, vars, AddInPlace, AddFromThread, DeleteTimer, Poll, Tick, HandleRead,
           CallOnce, StartRepeat, CallRepeat, Return, RunAdd, RunDelete, TasksTurn, handleVars
  <2> QED
    BY <2>1, EndIs
<1>2. DueIsCalled <=> [][A]_vars
  BY DEF DueIsCalled
<1> QED
  BY <1>1, <1>2, TimerInvariant, PTL DEF Spec

-----------------------------------------------------------------------------
(* Drift.                                                                  *)

(* Called, and not moved to its next expiration yet. *)
InHand(t) == stage = "repeat" /\ (In(t, to_update) \/ cur = t)

(* How often a timer was moved to its next expiration. *)
Moves(t) == IF InHand(t) THEN fires[t] - 1 ELSE fires[t]

DriftOK ==
    \A t \in Timers :
        timer[t].duration # 0 =>
            timer[t].expiration = timer[t].first + Moves(t) * timer[t].duration

(* A step that leaves a timer and its calls alone. *)
LEMMA NotMoved ==
    ASSUME DriftOK, NEW x \in Timers, timer'[x] = timer[x], Moves(x)' = Moves(x)
    PROVE  timer'[x].duration # 0 =>
              timer'[x].expiration = timer'[x].first + Moves(x)' * timer'[x].duration
BY DEF DriftOK

(* Every step keeps the count: a timer moves once for every call. *)
LEMMA DriftKeeps ==
    ASSUME RunEveryInCallback = FALSE, TimerInv, DriftOK, [Next]_vars
    PROVE  DriftOK'
<1> SUFFICES ASSUME NEW x \in Timers, timer'[x].duration # 0
             PROVE  timer'[x].expiration = timer'[x].first + Moves(x)' * timer'[x].duration
  BY DEF DriftOK
<1>0. /\ timer[x].expiration \in Int /\ timer[x].first \in Int
      /\ timer[x].duration \in Nat /\ fires[x] \in Nat /\ NoTimer \notin Timers
  BY TimerAssumption DEF TimerInv, TypeOK
<1>1. ASSUME NEW t \in Timers, NEW q \in Requests, NewTimer(t, q),
             to_update' = to_update, cur' = cur, fires' = fires, stage' = stage
      PROVE  timer'[x].expiration = timer'[x].first + Moves(x)' * timer'[x].duration
  <2>1. ~timer[t].created
    BY <1>1 DEF NewTimer
  <2>2. fires[t] = 0 /\ t # cur /\ ~In(t, to_update)
    BY <2>1, Fresh
  <2>3. /\ timer' \in TimerFcns
        /\ x # t => timer'[x] = timer[x]
        /\ timer'[t].expiration = timer'[t].first
    BY <1>1, NewTimerIs DEF TimerInv
  <2>4. Moves(x)' = Moves(x)
    BY <1>1 DEF Moves, InHand, In
  <2>5. CASE x = t
    <3>1. Moves(t)' = 0
      BY <1>1, <2>2, <2>4, <2>5 DEF Moves, InHand
    <3>2. timer'[t].first \in Int /\ timer'[t].duration \in Nat
      BY <2>3 DEF TimerFcns
    <3>3. \A a \in Int, d \in Nat : a = a + 0 * d
      OBVIOUS
    <3> QED
      BY <2>3, <2>5, <3>1, <3>2, <3>3
  <2>6. CASE x # t
    BY <2>3, <2>4, <2>6, NotMoved
  <2> QED
    BY <2>5, <2>6
<1>2. ASSUME timer' = timer, to_update' = to_update, cur' = cur, fires' = fires, stage' = stage
      PROVE  timer'[x].expiration = timer'[x].first + Moves(x)' * timer'[x].duration
  <2>1. Moves(x)' = Moves(x)
    BY <1>2 DEF Moves, InHand, In
  <2> QED
    BY <1>2, <2>1, NotMoved
<1>3. CASE HandleRead
  <2>1. timer' = timer /\ fires' = fires /\ stage' = "once" /\ active
    BY <1>3 DEF HandleRead
  <2>2. stage = "idle"
    BY <2>1 DEF TimerInv, StageOK
  <2>3. Moves(x)' = Moves(x)
    BY <2>1, <2>2 DEF Moves, InHand
  <2> QED
    BY <2>1, <2>3, NotMoved
<1>4. CASE CallOnce
  <2>1. /\ timer' = timer /\ stage = "once" /\ stage' = stage /\ todo # <<>>
        /\ fires' = [fires EXCEPT ![Head(todo)] = @ + 1]
    BY <1>4 DEF CallOnce, queueVars
  <2>2. In(Head(todo), todo)
    <3>1. todo \in Seq(Timers)
      BY Types DEF TimerInv
    <3>2. 1 \in 1 .. Len(todo) /\ Head(todo) = todo[1]
      BY <2>1, <3>1
    <3> QED
      BY <3>1, <3>2, InIs
  <2>3. x # Head(todo)
    BY <2>1, <2>2 DEF TimerInv, PlacesOK
  <2>4. fires'[x] = fires[x]
    BY <2>1, <2>3 DEF TimerInv, TypeOK
  <2>5. Moves(x)' = Moves(x)
    BY <2>1, <2>4 DEF Moves, InHand
  <2> QED
    BY <2>1, <2>5, NotMoved
<1>5. CASE StartRepeat
  <2>1. /\ timer' = timer /\ fires' = fires /\ stage = "once" /\ cur' = NoTimer
        /\ to_update' = to_update
    BY <1>5 DEF StartRepeat, queueVars
  <2>2. ~In(x, to_update)
    BY <2>1, UpdateInRepeat
  <2>3. ~InHand(x) /\ ~InHand(x)'
    BY <1>0, <2>1, <2>2 DEF InHand, In
  <2>4. Moves(x)' = Moves(x)
    BY <2>1, <2>3 DEF Moves
  <2> QED
    BY <2>1, <2>4, NotMoved
<1>6. CASE CallRepeat
  <2>1. /\ timer' = timer /\ stage = "repeat" /\ stage' = stage /\ cur = NoTimer
        /\ to_update' = to_update /\ fires' = [fires EXCEPT ![cur'] = @ + 1]
    BY <1>6 DEF CallRepeat, queueVars
  <2>2. ~In(cur', to_update)
    BY <1>6, CallRepeatKeeps
  <2>3. fires \in [Timers -> Nat] /\ (x = cur' => fires'[x] = fires[x] + 1)
        /\ (x # cur' => fires'[x] = fires[x])
    BY <2>1 DEF TimerInv, TypeOK
  <2>4. In(x, to_update') <=> In(x, to_update)
    BY <2>1 DEF In
  <2>5. Moves(x)' = Moves(x)
    <3>1. CASE x = cur'
      <4>1. ~InHand(x) /\ InHand(x)'
        BY <1>0, <2>1, <2>2, <3>1 DEF InHand
      <4> QED
        BY <1>0, <2>3, <3>1, <4>1 DEF Moves
    <3>2. CASE x # cur'
      <4>1. InHand(x)' <=> InHand(x)
        BY <1>0, <2>1, <2>4, <3>2 DEF InHand
      <4> QED
        BY <2>3, <3>2, <4>1 DEF Moves
    <3> QED
      BY <3>1, <3>2
  <2> QED
    BY <2>1, <2>5, NotMoved
<1>7. CASE Return
  <2>1. /\ timer' = timer /\ fires' = fires /\ stage' = stage /\ cur # NoTimer /\ cur' = NoTimer
        /\ to_update' = IF stage = "repeat" THEN Append(to_update, cur) ELSE to_update
    BY <1>7 DEF Return, queueVars
  <2>2. stage = "repeat" => (In(x, to_update') <=> In(x, to_update) \/ x = cur)
    <3> SUFFICES ASSUME stage = "repeat" PROVE In(x, to_update') <=> In(x, to_update) \/ x = cur
      OBVIOUS
    <3>1. to_update \in Seq(Timers) /\ cur \in Timers
      BY <2>1, Types, CurIsCreated DEF TimerInv
    <3>2. /\ to_update' \in Seq(Timers) /\ Len(to_update) \in Nat
          /\ Len(to_update') = Len(to_update) + 1
          /\ to_update'[Len(to_update) + 1] = cur
          /\ \A i \in 1 .. Len(to_update) : to_update'[i] = to_update[i]
          /\ \A i \in 1 .. Len(to_update') : i \in 1 .. Len(to_update) \/ i = Len(to_update) + 1
          /\ \A i \in 1 .. Len(to_update) : i \in 1 .. Len(to_update')
          /\ Len(to_update) + 1 \in 1 .. Len(to_update')
      BY <2>1, <3>1
    <3>3. In(x, to_update') <=> \E i \in 1 .. Len(to_update') : to_update'[i] = x
      BY <3>2, InIs
    <3>4. In(x, to_update) <=> \E i \in 1 .. Len(to_update) : to_update[i] = x
      BY <3>1, InIs
    <3> QED
      BY <3>2, <3>3, <3>4
  <2>3. InHand(x)' <=> InHand(x)
    BY <1>0, <2>1, <2>2 DEF InHand
  <2>4. Moves(x)' = Moves(x)
    BY <2>1, <2>3 DEF Moves
  <2> QED
    BY <2>1, <2>4, NotMoved
<1>8. CASE EndHandleRead
  <2>1. /\ timer' = Updated /\ fires' = fires /\ stage = "repeat" /\ stage' = "idle"
        /\ cur = NoTimer
    BY <1>8 DEF EndHandleRead
  <2>2. /\ timer'[x].first = timer[x].first
        /\ timer'[x].duration = timer[x].duration
        /\ In(x, to_update) => timer'[x].expiration = timer[x].expiration + timer[x].duration
        /\ ~In(x, to_update) => timer'[x] = timer[x]
    BY <2>1, UpdatedIs DEF TimerInv
  <2>3. Moves(x)' = fires[x]
    BY <2>1 DEF Moves, InHand
  <2>4. CASE In(x, to_update)
    <3>1. Moves(x) = fires[x] - 1
      BY <2>1, <2>4 DEF Moves, InHand
    <3>2. timer[x].expiration = timer[x].first + (fires[x] - 1) * timer[x].duration
      BY <2>2, <3>1 DEF DriftOK
    <3>3. \A a \in Int, f \in Nat, d \in Nat : (a + (f - 1) * d) + d = a + f * d
      OBVIOUS
    <3> QED
      BY <1>0, <2>2, <2>3, <2>4, <3>2, <3>3
  <2>5. CASE ~In(x, to_update)
    <3>1. Moves(x) = fires[x]
      BY <1>0, <2>1, <2>5 DEF Moves, InHand
    <3> QED
      BY <2>2, <2>3, <2>5, <3>1, NotMoved
  <2> QED
    BY <2>4, <2>5
<1>9. CASE Poll \/ Tick \/ RunAdd \/ RunDelete \/ UNCHANGED vars
  <2>1. timer' = timer /\ to_update' = to_update /\ cur' = cur /\ fires' = fires /\ stage' = stage
    BY <1>9 DEF Poll, Tick, RunAdd, RunDelete, vars, queueVars, handleVars
  <2> QED
    BY <1>2, <2>1
<1>10. ASSUME NEW t \in Timers, DeleteTimer(t)
       PROVE  timer'[x].expiration = timer'[x].first + Moves(x)' * timer'[x].duration
  <2>1. timer' = timer /\ to_update' = to_update /\ cur' = cur /\ fires' = fires /\ stage' = stage
    BY <1>10 DEF DeleteTimer, queueVars, handleVars
  <2> QED
    BY <1>2, <2>1
<1>11. ASSUME NEW t \in Timers, NEW q \in Requests, AddInPlace(t, q) \/ AddFromThread(t, q)
       PROVE  timer'[x].expiration = timer'[x].first + Moves(x)' * timer'[x].duration
  <2>1. /\ NewTimer(t, q) /\ to_update' = to_update /\ cur' = cur /\ fires' = fires
        /\ stage' = stage
    BY <1>11 DEF AddInPlace, AddFromThread, handleVars
  <2> QED
    BY <1>1, <2>1
<1> QED
  BY <1>3, <1>4, <1>5, <1>6, <1>7, <1>8, <1>9, <1>10, <1>11 DEF Next, LoopStep

(* runAt and runAfter call once; a timer of runEvery moves by exactly one  *)
(* interval for each call, however late handleRead comes, when callbacks   *)
(* of runEvery do not call runEvery.                                       *)
THEOREM NoDriftCorrect ==
    ASSUME RunEveryInCallback = FALSE
    PROVE  Spec => []NoDrift
<1>1. Init => DriftOK
  <2> SUFFICES ASSUME Init, NEW t \in Timers PROVE timer[t].duration = 0
    BY DEF DriftOK
  <2> QED
    BY DEF Init
<1>2. TimerInv /\ DriftOK /\ [Next]_vars => DriftOK'
  BY DriftKeeps
<1>3. TimerInv /\ DriftOK => NoDrift
  <2> SUFFICES ASSUME TimerInv, DriftOK, NEW t \in Timers
               PROVE  /\ timer[t].duration = 0 => fires[t] <= 1
                      /\ stage = "idle" /\ timer[t].duration # 0 =>
                            timer[t].expiration = timer[t].first + fires[t] * timer[t].duration
    BY DEF NoDrift
  <2>1. timer[t].duration = 0 => fires[t] <= 1
    BY DEF TimerInv, PlacesOK
  <2>2. stage = "idle" => Moves(t) = fires[t]
    BY DEF Moves, InHand
  <2> QED
    BY <2>1, <2>2 DEF DriftOK
<1> QED
  BY <1>1, <1>2, <1>3, TimerInvariant, PTL DEF Spec

-----------------------------------------------------------------------------
(* The timerfd.                                                            *)

(* The times at which the loop reads the clock, and that no timer expires  *)
(* at one of them: resetTimerfd would disarm the timerfd then.             *)
Grid == {TickStep * k : k \in Int}
NeverCoincide == Delays \cup Intervals \subseteq Grid /\ Skew \notin Grid

(* No time reaches TimePoint::max(). *)
KeysOK(tm) ==
    \A t \in Timers : tm[t].created =>
        /\ tm[t].expiration < Forever
        /\ tm[t].duration # 0 => tm[t].duration \in Intervals
        /\ tm[t].expiration - Skew \in Grid

(* min_expiration_ is no later than any timer, also after deletions, and   *)
(* what the timerfd is armed for no later than that.                       *)
Earliness ==
    \A t \in Timers : In(t, once) \/ In(t, repeat) => min_expiration_ <= timer[t].expiration

Armed == deadline <= clock \/ deadline <= min_expiration_

ArmInv ==
    /\ clock \in Grid
    /\ KeysOK(timer)
    /\ deadline <= Forever
    /\ Earliness
    /\ stage = "idle" /\ ~active => Armed

(* Sums and differences of multiples of TickStep. *)
LEMMA GridSums ==
    ASSUME NEW a \in Grid, NEW b \in Grid
    PROVE  a \in Int /\ b \in Int /\ a + b \in Grid /\ a - b \in Grid
<1>1. TickStep \in Int
  BY TimerAssumption
<1>2. PICK j \in Int : a = TickStep * j
  BY DEF Grid
<1>3. PICK k \in Int : b = TickStep * k
  BY DEF Grid
<1>4. \A s, x, y \in Int : s * x \in Int /\ s * x + s * y = s * (x + y) /\ s * x - s * y = s * (x - y)
  OBVIOUS
<1>5. a + b = TickStep * (j + k) /\ a - b = TickStep * (j - k) /\ a \in Int /\ b \in Int
  BY <1>1, <1>2, <1>3, <1>4
<1>6. j + k \in Int /\ j - k \in Int
  OBVIOUS
<1> QED
  BY <1>5, <1>6 DEF Grid

(* A created timer does not expire at the very time that is read now. *)
LEMMA NotNow ==
    ASSUME NeverCoincide, clock \in Grid, NEW e \in Int, e - Skew \in Grid
    PROVE  e # clock
<1> SUFFICES ASSUME e = clock PROVE FALSE
  OBVIOUS
<1>1. e - (e - Skew) \in Grid
  BY GridSums
<1>2. Skew \in Int
  BY TimerAssumption
<1>3. e - (e - Skew) = Skew
  BY <1>2
<1> QED
  BY <1>1, <1>3 DEF NeverCoincide

(* resetTimerfd arms for the earliest timer. *)
LEMMA ResetArms ==
    ASSUME NeverCoincide, TypeOK, clock \in Grid, deadline <= Forever,
           NEW o \in Seq(Timers), NEW r \in Seq(Timers), NEW tm \in TimerFcns,
           Sorted(o, tm), Sorted(r, tm), KeysOK(tm),
           \A t \in Timers : In(t, o) \/ In(t, r) => tm[t].created,
           ResetTimerfd(o, r, tm)
    PROVE  /\ deadline' <= Forever
           /\ \A t \in Timers : In(t, o) \/ In(t, r) => min_expiration_' <= tm[t].expiration
           /\ deadline' <= clock \/ deadline' <= min_expiration_'
<1>1. /\ clock \in Int /\ deadline \in Int /\ Forever \in Int /\ clock < Forever
      /\ \A t \in Timers : tm[t].expiration \in Int
  <2>1. clock \in Int /\ deadline \in Int /\ clock <= MaxTime
    BY TimerAssumption DEF TypeOK
  <2>2. Forever \in Int /\ MaxTime \in Int /\ MaxTime < Forever
    BY TimerAssumption
  <2>3. \A t \in Timers : tm[t].expiration \in Int
    BY DEF TimerFcns
  <2>4. clock < Forever
    BY <2>1, <2>2
  <2> QED
    BY <2>1, <2>2, <2>3, <2>4
<1>2. ASSUME NEW s \in Seq(Timers), s = o \/ s = r
      PROVE  /\ FirstKey(s, tm) \in Int
             /\ FirstKey(s, tm) = Forever \/ (FirstKey(s, tm) < Forever /\ FirstKey(s, tm) # clock)
             /\ \A t \in Timers : In(t, s) => FirstKey(s, tm) <= tm[t].expiration
  <2>1. CASE s = <<>>
    <3>1. \A t : ~In(t, s)
      <4>1. DOMAIN s = {}
        BY <2>1
      <4> QED
        BY <4>1 DEF In
    <3> QED
      BY <1>1, <2>1, <3>1 DEF FirstKey
  <2>2. CASE s # <<>>
    <3>1. Head(s) = s[1] /\ 1 \in 1 .. Len(s)
      BY <2>2
    <3>2. Head(s) \in Timers /\ In(Head(s), s)
      BY <3>1, InIs
    <3>3. tm[Head(s)].created
      BY <1>2, <3>2
    <3>4. tm[Head(s)].expiration < Forever /\ tm[Head(s)].expiration - Skew \in Grid
      BY <3>2, <3>3 DEF KeysOK
    <3>5. tm[Head(s)].expiration \in Int /\ tm[Head(s)].expiration # clock
      BY <1>1, <3>2, <3>4, NotNow
    <3>6. FirstKey(s, tm) = tm[Head(s)].expiration
      BY <2>2 DEF FirstKey
    <3>7. Sorted(s, tm)
      BY <1>2
    <3>8. \A t \in Timers : In(t, s) => FirstKey(s, tm) <= tm[t].expiration
      BY <3>7, FirstIsLeast
    <3> QED
      BY <3>4, <3>5, <3>6, <3>8
  <2> QED
    BY <2>1, <2>2
<1> DEFINE a == FirstKey(o, tm)
           b == FirstKey(r, tm)
<1>3. /\ a \in Int /\ (a = Forever \/ (a < Forever /\ a # clock))
      /\ \A t \in Timers : In(t, o) => a <= tm[t].expiration
  BY <1>2
<1>4. /\ b \in Int /\ (b = Forever \/ (b < Forever /\ b # clock))
      /\ \A t \in Timers : In(t, r) => b <= tm[t].expiration
  BY <1>2
<1>5. /\ min_expiration_' = IF a < b THEN a ELSE b
      /\ deadline' = IF min_expiration_' = Forever THEN deadline
                     ELSE IF min_expiration_' < clock THEN clock
                     ELSE IF min_expiration_' = clock THEN Forever ELSE min_expiration_'
  BY DEF ResetTimerfd, Earliest, Earlier, ArmedFor
<1> HIDE DEF a, b
<1>6. /\ min_expiration_' \in Int /\ min_expiration_' <= a /\ min_expiration_' <= b
      /\ min_expiration_' = Forever \/ (min_expiration_' < Forever /\ min_expiration_' # clock)
  BY <1>3, <1>4, <1>5
<1>7. ASSUME NEW t \in Timers, In(t, o) \/ In(t, r)
      PROVE  min_expiration_' <= tm[t].expiration
  <2>1. tm[t].expiration \in Int
    BY <1>1
  <2> QED
    BY <1>3, <1>4, <1>6, <1>7, <2>1
<1>8. deadline' <= Forever /\ (deadline' <= clock \/ deadline' <= min_expiration_')
  <2>1. CASE min_expiration_' = Forever
    <3>1. deadline' = deadline
      BY <1>5, <2>1
    <3> QED
      BY <2>1, <3>1
  <2>2. CASE min_expiration_' # Forever /\ min_expiration_' < clock
    <3>1. deadline' = clock
      BY <1>5, <2>2
    <3> QED
      BY <1>1, <3>1
  <2>3. CASE min_expiration_' # Forever /\ ~(min_expiration_' < clock)
    <3>1. deadline' = min_expiration_'
      BY <1>5, <1>6, <2>3
    <3> QED
      BY <1>1, <1>6, <2>3, <3>1
  <2> QED
    BY <2>1, <2>2, <2>3
<1> QED
  BY <1>7, <1>8

(* addTimerInLoop: the timerfd is set again for a timer that is earlier    *)
(* than all, and need not be for another one.                              *)
LEMMA AddArms ==
    ASSUME NeverCoincide, TypeOK, clock \in Grid, deadline <= Forever,
           NEW t \in Timers, NEW tm \in TimerFcns, AddTimerInLoop(t, tm),
           Sorted(once, tm), Distinct(once), ~In(t, once),
           Sorted(repeat, tm), Distinct(repeat), ~In(t, repeat),
           KeysOK(tm),
           \A x \in Timers : In(x, once) \/ In(x, repeat) => tm[x].created,
           tm[t].created,
           \A x \in Timers : In(x, once) \/ In(x, repeat) => min_expiration_ <= tm[x].expiration
    PROVE  /\ deadline' <= Forever
           /\ \A x \in Timers : In(x, once') \/ In(x, repeat') =>
                                   min_expiration_' <= tm[x].expiration
           /\ \/ deadline' <= clock \/ deadline' <= min_expiration_'
              \/ deadline' = deadline /\ min_expiration_' = min_expiration_
<1>1. /\ once' \in Seq(Timers) /\ Sorted(once', tm)
      /\ repeat' \in Seq(Timers) /\ Sorted(repeat', tm)
      /\ \A x : In(x, once') \/ In(x, repeat') => In(x, once) \/ In(x, repeat) \/ x = t
  BY AddKeeps
<1>2. CASE tm[t].expiration < min_expiration_
  <2>1. ResetTimerfd(once', repeat', tm)
    BY <1>2 DEF AddTimerInLoop, Rearms
  <2>2. \A x \in Timers : In(x, once') \/ In(x, repeat') => tm[x].created
    BY <1>1
  <2> QED
    BY <1>1, <2>1, <2>2, ResetArms
<1>3. CASE ~(tm[t].expiration < min_expiration_)
  <2>1. min_expiration_' = min_expiration_ /\ deadline' = deadline
    BY <1>3 DEF AddTimerInLoop, Rearms
  <2>2. min_expiration_ <= tm[t].expiration
    BY <1>3 DEF TypeOK, TimerFcns
  <2> QED
    BY <1>1, <2>1, <2>2
<1> QED
  BY <1>2, <1>3

(* A new timer has a key that is a multiple of TickStep and Skew. *)
LEMMA NewKeys ==
    ASSUME NeverCoincide, TypeOK, clock \in Grid, KeysOK(timer),
           NEW t \in Timers, NEW q \in Requests, NewTimer(t, q)
    PROVE  KeysOK(timer')
<1>1. /\ \A x \in Timers : x # t => timer'[x] = timer[x]
      /\ timer'[t].expiration = clock + Skew + q.delay
      /\ timer'[t].duration = q.interval
  BY NewTimerIs
<1>2. /\ q.delay \in Int /\ q.delay \in Delays \cup Intervals
      /\ q.interval # 0 => q.interval \in Intervals
  BY RequestTypes
<1>3. clock \in Int /\ clock <= MaxTime /\ MaxTime \in Int /\ Skew \in Int /\ Forever \in Int
  BY TimerAssumption DEF TypeOK
<1>4. MaxTime + Skew + q.delay < Forever
  BY <1>2, TimerAssumption
<1>5. clock + Skew + q.delay < Forever
  BY <1>2, <1>3, <1>4
<1>6. (clock + Skew + q.delay) - Skew = clock + q.delay
  BY <1>2, <1>3
<1>7. clock + q.delay \in Grid
  <2>1. q.delay \in Grid
    BY <1>2 DEF NeverCoincide
  <2> QED
    BY <2>1, GridSums
<1>8. /\ timer'[t].expiration < Forever
      /\ timer'[t].duration # 0 => timer'[t].duration \in Intervals
      /\ timer'[t].expiration - Skew \in Grid
  BY <1>1, <1>2, <1>5, <1>6, <1>7
<1> SUFFICES ASSUME NEW x \in Timers, timer'[x].created
             PROVE  /\ timer'[x].expiration < Forever
                    /\ timer'[x].duration # 0 => timer'[x].duration \in Intervals
                    /\ timer'[x].expiration - Skew \in Grid
  BY DEF KeysOK
<1> QED
  BY <1>1, <1>8 DEF KeysOK

(* The end of handleRead moves keys by intervals, from times in the past. *)
LEMMA UpdatedKeys ==
    ASSUME NeverCoincide, TimerInv, KeysOK(timer), EndHandleRead
    PROVE  KeysOK(timer')
<1> SUFFICES ASSUME NEW x \in Timers, timer'[x].created
             PROVE  /\ timer'[x].expiration < Forever
                    /\ timer'[x].duration # 0 => timer'[x].duration \in Intervals
                    /\ timer'[x].expiration - Skew \in Grid
  BY DEF KeysOK
<1>1. TypeOK /\ PlacesOK
  BY DEF TimerInv
<1>2. timer' = Updated /\ \A y : In(y, repeat) => (In(y, to_update) <=> timer[y].expiration <= now)
  BY EndIs
<1>3. /\ timer'[x].created = timer[x].created
      /\ timer'[x].duration = timer[x].duration
      /\ In(x, to_update) => timer'[x].expiration = timer[x].expiration + timer[x].duration
      /\ ~In(x, to_update) => timer'[x] = timer[x]
  BY <1>1, <1>2, UpdatedIs
<1>4. /\ timer[x].expiration < Forever
      /\ timer[x].duration # 0 => timer[x].duration \in Intervals
      /\ timer[x].expiration - Skew \in Grid
  BY <1>3 DEF KeysOK
<1>5. CASE ~In(x, to_update)
  BY <1>3, <1>4, <1>5
<1>6. CASE In(x, to_update)
  <2>1. In(x, repeat)
    BY <1>6, UpdateInRepeat
  <2>2. timer[x].duration # 0 /\ timer[x].expiration <= now
    BY <1>1, <1>2, <1>6, <2>1 DEF PlacesOK
  <2> DEFINE e == timer[x].expiration
             d == timer[x].duration
  <2>3. /\ e \in Int /\ d \in Int /\ now \in Int /\ now <= MaxTime
        /\ MaxTime \in Int /\ Skew \in Nat /\ Forever \in Int
    <3>1. e \in Int /\ d \in Int /\ now \in Int
      BY <1>1, Types
    <3>2. now <= MaxTime
      BY <1>1, TimerAssumption DEF TypeOK
    <3> QED
      BY <3>1, <3>2, TimerAssumption
  <2>4. d \in Intervals
    BY <1>4, <2>2
  <2>5. MaxTime + Skew + d < Forever
    BY <2>4, TimerAssumption
  <2>6. e <= now
    BY <2>2
  <2>7. d \in Grid /\ e - Skew \in Grid
    BY <1>4, <2>4 DEF NeverCoincide
  <2>8. timer'[x].expiration = e + d /\ timer'[x].duration = d
    BY <1>3, <1>6
  <2> HIDE DEF e, d
  <2>9. e + d < Forever
    BY <2>3, <2>5, <2>6
  <2>10. (e - Skew) + d \in Grid
    BY <2>7, GridSums
  <2>11. (e + d) - Skew = (e - Skew) + d
    BY <2>3
  <2> QED
    BY <2>4, <2>8, <2>9, <2>10, <2>11
<1> QED
  BY <1>5, <1>6

(* A timer added in place, with what that leaves of ArmInv. *)
LEMMA AddInPlaceArms ==
    ASSUME NeverCoincide, TimerInv, ArmInv, NEW t \in Timers, NEW q \in Requests,
           AddInPlace(t, q)
    PROVE  ArmInv'
<1>1. TypeOK /\ MapsOK /\ PlacesOK
  BY DEF TimerInv
<1>2. /\ NewTimer(t, q) /\ AddTimerInLoop(t, timer')
      /\ clock' = clock /\ active' = active /\ stage' = stage
  BY DEF AddInPlace, handleVars
<1>3. clock \in Grid /\ KeysOK(timer) /\ deadline <= Forever /\ Earliness
  BY DEF ArmInv
<1>4. KeysOK(timer')
  BY <1>1, <1>2, <1>3, NewKeys
<1>5. ~In(t, once) /\ ~In(t, repeat)
  BY <1>2, Fresh DEF NewTimer
<1>6. /\ timer' \in TimerFcns /\ timer'[t].created
      /\ \A x \in Timers : x # t => timer'[x] = timer[x]
  BY <1>1, <1>2, NewTimerIs
<1>7. once \in Seq(Timers) /\ repeat \in Seq(Timers)
  BY <1>1, Types
<1>8. \A x \in Timers : In(x, once) \/ In(x, repeat) => timer'[x] = timer[x]
  BY <1>5, <1>6
<1>9. Sorted(once, timer') /\ Sorted(repeat, timer')
  BY <1>1, <1>7, <1>8, SameKeys DEF MapsOK
<1>10. \A x \in Timers : In(x, once) \/ In(x, repeat) =>
          timer'[x].created /\ min_expiration_ <= timer'[x].expiration
  BY <1>1, <1>3, <1>8 DEF PlacesOK, Earliness
<1>11. Distinct(once) /\ Distinct(repeat)
  BY <1>1 DEF MapsOK
<1>12. /\ deadline' <= Forever
       /\ \A x \in Timers : In(x, once') \/ In(x, repeat') =>
                               min_expiration_' <= timer'[x].expiration
       /\ \/ deadline' <= clock \/ deadline' <= min_expiration_'
          \/ deadline' = deadline /\ min_expiration_' = min_expiration_
  BY <1>1, <1>2, <1>3, <1>4, <1>5, <1>6, <1>9, <1>10, <1>11, AddArms
<1>13. stage' = "idle" /\ ~active' => Armed'
  BY <1>2, <1>12 DEF ArmInv, Armed
<1>14. Earliness'
  BY <1>12 DEF Earliness, In
<1> QED
  BY <1>2, <1>3, <1>4, <1>12, <1>13, <1>14 DEF ArmInv, KeysOK

(* addTimerInLoop as a task. *)
LEMMA RunAddArms ==
    ASSUME NeverCoincide, TimerInv, ArmInv, RunAdd
    PROVE  ArmInv'
<1>1. TypeOK /\ MapsOK /\ PlacesOK
  BY DEF TimerInv
<1> DEFINE t == Head(tasks).t
<1>2. /\ tasks # <<>> /\ Head(tasks).op = "add"
      /\ AddTimerInLoop(t, timer) /\ tasks' = Tail(tasks)
      /\ clock' = clock /\ active' = active /\ stage' = stage /\ timer' = timer
  BY DEF RunAdd, handleVars
<1>3. /\ t \in Timers /\ timer[t].created /\ ~In(t, once) /\ ~In(t, repeat)
  BY <1>2, FirstTask DEF TaskOK
<1> HIDE DEF t
<1>4. clock \in Grid /\ KeysOK(timer) /\ deadline <= Forever /\ Earliness
  BY DEF ArmInv
<1>5. timer \in TimerFcns /\ once \in Seq(Timers) /\ repeat \in Seq(Timers)
  BY <1>1, Types
<1>6. \A x \in Timers : In(x, once) \/ In(x, repeat) =>
         timer[x].created /\ min_expiration_ <= timer[x].expiration
  BY <1>1, <1>4 DEF PlacesOK, Earliness
<1>7. Sorted(once, timer) /\ Distinct(once) /\ Sorted(repeat, timer) /\ Distinct(repeat)
  BY <1>1 DEF MapsOK
<1>8. /\ deadline' <= Forever
      /\ \A x \in Timers : In(x, once') \/ In(x, repeat') =>
                              min_expiration_' <= timer[x].expiration
      /\ \/ deadline' <= clock \/ deadline' <= min_expiration_'
         \/ deadline' = deadline /\ min_expiration_' = min_expiration_
  BY <1>1, <1>2, <1>3, <1>4, <1>5, <1>6, <1>7, AddArms
<1>9. stage' = "idle" /\ ~active' => Armed'
  BY <1>2, <1>8 DEF ArmInv, Armed
<1>10. Earliness'
  BY <1>2, <1>8 DEF Earliness, In
<1> QED
  BY <1>2, <1>4, <1>8, <1>9, <1>10 DEF ArmInv, KeysOK

(* The end of handleRead arms the timerfd again. *)
LEMMA EndArms ==
    ASSUME NeverCoincide, TimerInv, ArmInv, EndHandleRead
    PROVE  ArmInv'
<1>1. TypeOK /\ MapsOK /\ PlacesOK
  BY DEF TimerInv
<1>2. ResetTimerfd(once, repeat', timer') /\ clock' = clock /\ once' = once
  BY DEF EndHandleRead
<1>3. /\ timer' = Updated /\ timer' \in TimerFcns
      /\ repeat' \in Seq(Timers) /\ Sorted(repeat', timer')
      /\ \A x : In(x, repeat') <=> In(x, repeat)
  BY EndIs
<1>4. KeysOK(timer')
  BY UpdatedKeys DEF ArmInv
<1>5. \A x \in Timers : /\ timer'[x].created = timer[x].created
                        /\ ~In(x, to_update) => timer'[x] = timer[x]
  BY <1>1, <1>3, UpdatedIs
<1>6. \A x \in Timers : In(x, once) => ~In(x, to_update)
  BY <1>1, UpdateInRepeat DEF PlacesOK
<1>7. once \in Seq(Timers)
  BY <1>1, Types
<1>8. Sorted(once, timer')
  BY <1>1, <1>5, <1>6, <1>7, SameKeys DEF MapsOK
<1>9. \A x \in Timers : In(x, once) \/ In(x, repeat') => timer'[x].created
  BY <1>1, <1>3, <1>5 DEF PlacesOK
<1>10. clock \in Grid /\ deadline <= Forever
  BY DEF ArmInv
<1>11. /\ deadline' <= Forever
       /\ \A x \in Timers : In(x, once) \/ In(x, repeat') =>
                               min_expiration_' <= timer'[x].expiration
       /\ deadline' <= clock \/ deadline' <= min_expiration_'
  BY <1>1, <1>2, <1>3, <1>4, <1>7, <1>8, <1>9, <1>10, ResetArms
<1>12. Earliness' /\ Armed'
  BY <1>2, <1>11 DEF Earliness, In, Armed
<1> QED
  BY <1>2, <1>4, <1>10, <1>11, <1>12 DEF ArmInv, KeysOK

(* Every step keeps the timerfd armed. *)
LEMMA ArmKeeps ==
    ASSUME NeverCoincide, TimerInv, ArmInv, [Next]_vars
    PROVE  ArmInv'
<1>1. TypeOK /\ MapsOK /\ PlacesOK /\ StageOK
  BY DEF TimerInv
<1>2. ASSUME timer' = timer, once' = once, repeat' = repeat, clock' = clock,
             deadline' = deadline, min_expiration_' = min_expiration_,
             stage' = "idle" /\ ~active' => stage = "idle" /\ ~active
      PROVE  ArmInv'
  BY <1>2 DEF ArmInv, KeysOK, Earliness, Armed, In
<1>3. CASE CallOnce \/ StartRepeat \/ CallRepeat \/ Return
  <2>1. /\ timer' = timer /\ once' = once /\ repeat' = repeat /\ clock' = clock
        /\ deadline' = deadline /\ min_expiration_' = min_expiration_ /\ active' = active
    BY <1>3 DEF CallOnce, StartRepeat, CallRepeat, Return, queueVars
  <2>2. stage' = "idle" => stage = "idle"
    BY <1>3 DEF CallOnce, StartRepeat, CallRepeat, Return
  <2> QED
    BY <1>2, <2>1, <2>2
<1>4. CASE Poll
  <2>1. /\ timer' = timer /\ once' = once /\ repeat' = repeat /\ clock' = clock
        /\ deadline' = deadline /\ min_expiration_' = min_expiration_ /\ active' = TRUE
    BY <1>4 DEF Poll, queueVars
  <2> QED
    BY <1>2, <2>1
<1>5. CASE UNCHANGED vars
  <2>1. /\ timer' = timer /\ once' = once /\ repeat' = repeat /\ clock' = clock
        /\ deadline' = deadline /\ min_expiration_' = min_expiration_
        /\ active' = active /\ stage' = stage
    BY <1>5 DEF vars
  <2> QED
    BY <1>2, <2>1
<1>6. ASSUME NEW t \in Timers, DeleteTimer(t) PROVE ArmInv'
  <2>1. /\ timer' = timer /\ once' = once /\ repeat' = repeat /\ clock' = clock
        /\ deadline' = deadline /\ min_expiration_' = min_expiration_
        /\ active' = active /\ stage' = stage
    BY <1>6 DEF DeleteTimer, queueVars, handleVars
  <2> QED
    BY <1>2, <2>1
<1>7. CASE Tick
  <2>1. /\ timer' = timer /\ once' = once /\ repeat' = repeat /\ clock' = clock + TickStep
        /\ deadline' = deadline /\ min_expiration_' = min_expiration_
        /\ active' = active /\ stage' = stage
    BY <1>7 DEF Tick, queueVars, handleVars
  <2>2. TickStep \in Nat /\ clock \in Int /\ deadline \in Int
    BY <1>1, TimerAssumption DEF TypeOK
  <2>3. TickStep \in Grid
    <3>1. TickStep = TickStep * 1
      BY <2>2
    <3> QED
      BY <3>1 DEF Grid
  <2>4. clock' \in Grid
    BY <2>1, <2>3, GridSums DEF ArmInv
  <2>5. deadline <= clock => deadline' <= clock'
    BY <2>1, <2>2
  <2>6. stage' = "idle" /\ ~active' => Armed'
    BY <2>1, <2>5 DEF ArmInv, Armed
  <2>7. KeysOK(timer') /\ Earliness' /\ deadline' <= Forever
    BY <2>1 DEF ArmInv, Earliness, KeysOK, In
  <2> QED
    BY <2>4, <2>6, <2>7 DEF ArmInv, KeysOK
<1>8. CASE HandleRead
  <2>1. /\ timer' = timer /\ repeat' = repeat /\ clock' = clock /\ stage' = "once"
        /\ min_expiration_' = min_expiration_
        /\ once' = Later(once, timer, clock)
        /\ deadline' = IF Ready THEN Forever ELSE deadline
    BY <1>8 DEF HandleRead
  <2>2. timer \in TimerFcns /\ once \in Seq(Timers) /\ clock \in Int
    BY <1>1, Types
  <2>3. \A x : In(x, once') => In(x, once)
    BY <1>1, <2>1, <2>2, Halves DEF MapsOK
  <2>4. deadline' <= Forever
    <3>1. Forever <= Forever
      BY TimerAssumption
    <3> QED
      BY <2>1, <3>1 DEF ArmInv
  <2>5. Earliness'
    <3> SUFFICES ASSUME NEW x \in Timers, In(x, once') \/ In(x, repeat')
                 PROVE  min_expiration_' <= timer'[x].expiration
      BY DEF Earliness, In
    <3>1. In(x, once) \/ In(x, repeat)
      BY <2>1, <2>3
    <3> QED
      BY <2>1, <3>1 DEF ArmInv, Earliness
  <2> QED
    BY <2>1, <2>4, <2>5 DEF ArmInv, KeysOK
<1>9. CASE RunDelete
  <2> DEFINE t == Head(tasks).t
  <2>1. /\ timer' = timer /\ once' = once /\ repeat' = Erased(t) /\ clock' = clock
        /\ deadline' = deadline /\ min_expiration_' = min_expiration_
        /\ active' = active /\ stage' = stage /\ tasks # <<>> /\ tasks' = Tail(tasks)
    BY <1>9 DEF RunDelete, handleVars
  <2>2. t \in Timers
    BY <2>1, FirstTask
  <2>3. timer \in TimerFcns /\ repeat \in Seq(Timers)
    BY <1>1, Types
  <2> HIDE DEF t
  <2>4. \A x : In(x, repeat') => In(x, repeat)
    BY <1>1, <2>1, <2>2, <2>3, ErasedKeeps DEF MapsOK
  <2>5. Earliness'
    <3> SUFFICES ASSUME NEW x \in Timers, In(x, once') \/ In(x, repeat')
                 PROVE  min_expiration_' <= timer'[x].expiration
      BY DEF Earliness, In
    <3>1. In(x, once) \/ In(x, repeat)
      BY <2>1, <2>4
    <3> QED
      BY <2>1, <3>1 DEF ArmInv, Earliness
  <2>6. stage' = "idle" /\ ~active' => Armed'
    BY <2>1 DEF ArmInv, Armed
  <2> QED
    BY <2>1, <2>5, <2>6 DEF ArmInv, KeysOK
<1>10. ASSUME NEW t \in Timers, NEW q \in Requests, AddFromThread(t, q) PROVE ArmInv'
  <2>1. /\ NewTimer(t, q) /\ once' = once /\ repeat' = repeat /\ clock' = clock
        /\ deadline' = deadline /\ min_expiration_' = min_expiration_
        /\ active' = active /\ stage' = stage
    BY <1>10 DEF AddFromThread, handleVars
  <2>2. KeysOK(timer')
    BY <1>1, <2>1, NewKeys DEF ArmInv
  <2>3. ~In(t, once) /\ ~In(t, repeat)
    BY <2>1, Fresh DEF NewTimer
  <2>4. \A x \in Timers : x # t => timer'[x] = timer[x]
    BY <1>1, <2>1, NewTimerIs
  <2>5. Earliness'
    <3> SUFFICES ASSUME NEW x \in Timers, In(x, once') \/ In(x, repeat')
                 PROVE  min_expiration_' <= timer'[x].expiration
      BY DEF Earliness, In
    <3>1. In(x, once) \/ In(x, repeat)
      BY <2>1
    <3>2. timer'[x] = timer[x]
      BY <2>3, <2>4, <3>1
    <3> QED
      BY <2>1, <3>1, <3>2 DEF ArmInv, Earliness
  <2>6. stage' = "idle" /\ ~active' => Armed'
    BY <2>1 DEF ArmInv, Armed
  <2> QED
    BY <2>1, <2>2, <2>5, <2>6 DEF ArmInv, KeysOK
<1>11. ASSUME NEW t \in Timers, NEW q \in Requests, AddInPlace(t, q) PROVE ArmInv'
  BY <1>11, AddInPlaceArms
<1>12. CASE RunAdd
  BY <1>12, RunAddArms
<1>13. CASE EndHandleRead
  BY <1>13, EndArms
<1> QED
  BY <1>3, <1>4, <1>5, <1>6, <1>7, <1>8, <1>9, <1>10, <1>11, <1>12, <1>13
     DEF Next, LoopStep

(* Outside handleRead the timerfd is due, or armed no later than for the   *)
(* earliest timer of either multimap, in a loop that never reads the clock *)
(* at the very time a timer expires, and whose callbacks of runEvery do    *)
(* not call runEvery.                                                      *)
THEOREM TimerfdArmedCorrect ==
    ASSUME RunEveryInCallback = FALSE, NeverCoincide
    PROVE  Spec => []TimerfdArmed
<1>1. Init => ArmInv
  <2> SUFFICES ASSUME Init PROVE ArmInv
    OBVIOUS
  <2>1. clock \in Grid
    <3>1. TickStep * 0 = 0
      BY TimerAssumption
    <3> QED
      BY <3>1 DEF Init, Grid
  <2>2. KeysOK(timer)
    BY DEF Init, KeysOK
  <2>3. deadline <= Forever /\ Armed
    BY TimerAssumption DEF Init, Armed
  <2>4. Earliness
    BY DEF Init, Earliness, In
  <2> QED
    BY <2>1, <2>2, <2>3, <2>4 DEF ArmInv
<1>2. TimerInv /\ ArmInv /\ [Next]_vars => ArmInv'
  BY ArmKeeps
<1>3. TimerInv /\ ArmInv => TimerfdArmed
  <2> SUFFICES ASSUME TimerInv, ArmInv, stage = "idle", ~active, NEW t \in Timers,
                      In(t, once) \/ In(t, repeat)
               PROVE  Ready \/ deadline <= timer[t].expiration
    BY DEF TimerfdArmed
  <2>1. min_expiration_ <= timer[t].expiration
    BY DEF ArmInv, Earliness
  <2>2. deadline <= clock \/ deadline <= min_expiration_
    BY DEF ArmInv, Armed
  <2>3. deadline \in Int /\ min_expiration_ \in Int /\ timer[t].expiration \in Int
    BY Types DEF TimerInv, TypeOK
  <2> QED
    BY <2>1, <2>2, <2>3 DEF Ready
<1> QED
  BY <1>1, <1>2, <1>3, TimerInvariant, PTL DEF Spec
-----------------------------------------------------------------------------
(* What is left when callbacks of runEvery may call runEvery: timers of    *)
(* runAt and runAfter are not in the multimap that is then disturbed.      *)

OneShot(t) == timer[t].created /\ timer[t].duration = 0

OneShotInv ==
    /\ clock \in Int /\ now \in Int /\ now <= clock
    /\ timer \in TimerFcns
    /\ once \in Seq(Timers) /\ todo \in Seq(Timers)
    /\ tasks \in Seq(Tasks) /\ \A i \in 1 .. Len(tasks) : timer[tasks[i].t].created
    /\ \A t : In(t, once) => OneShot(t)
    /\ \A t : In(t, todo) => OneShot(t) /\ timer[t].expiration <= now
    /\ stage = "once" /\ cur # NoTimer =>
          cur \in Timers /\ OneShot(cur) /\ timer[cur].expiration <= now

(* A timer of runAt or runAfter is not called before its time.             *)
OneShotNotEarly ==
    stage = "once" /\ cur # NoTimer => timer[cur].expiration <= clock

(* The two parts of a multimap, sorted or not. *)
LEMMA SplitMembers ==
    ASSUME NEW s \in Seq(Timers), NEW tm \in TimerFcns, NEW e \in Int
    PROVE  /\ Due(s, tm, e) \in Seq(Timers) /\ Later(s, tm, e) \in Seq(Timers)
           /\ \A x : In(x, Due(s, tm, e)) => In(x, s) /\ tm[x].expiration <= e
           /\ \A x : In(x, Later(s, tm, e)) => In(x, s)
<1> DEFINE u == UpperBound(s, tm, e)
           d == SubSeq(s, 1, u - 1)
           l == SubSeq(s, u, Len(s))
<1>1. u \in 1 .. Len(s) + 1 /\ \A j \in 1 .. u - 1 : tm[s[j]].expiration <= e
  BY UpperBoundSplits
<1> HIDE DEF u
<1>2. Len(s) \in Nat /\ \A i \in 1 .. Len(s) : s[i] \in Timers /\ In(s[i], s)
  BY InIs
<1>3. /\ d \in Seq(Timers) /\ Len(d) = u - 1
      /\ \A i \in 1 .. u - 1 : i \in 1 .. Len(s) /\ d[i] = s[i]
  BY <1>1, <1>2
<1>4. /\ l \in Seq(Timers) /\ Len(l) = Len(s) - u + 1
      /\ \A i \in 1 .. Len(s) - u + 1 : u + i - 1 \in 1 .. Len(s) /\ l[i] = s[u + i - 1]
  BY <1>1, <1>2
<1> HIDE DEF d, l
<1>5. ASSUME NEW x, In(x, d) PROVE In(x, s) /\ tm[x].expiration <= e
  <2>1. PICK i \in 1 .. u - 1 : d[i] = x
    BY <1>3, <1>5, InIs
  <2> QED BY <1>1, <1>2, <1>3, <2>1
<1>6. ASSUME NEW x, In(x, l) PROVE In(x, s)
  <2>1. PICK i \in 1 .. Len(s) - u + 1 : l[i] = x
    BY <1>4, <1>6, InIs
  <2> QED BY <1>2, <1>4, <2>1
<1>7. Due(s, tm, e) = d /\ Later(s, tm, e) = l
  BY DEF Due, Later, d, l, u
<1> QED BY <1>3, <1>4, <1>5, <1>6, <1>7

(* What an insertion adds. *)
LEMMA InsertMembers ==
    ASSUME NEW s \in Seq(Timers), NEW tm \in TimerFcns, NEW t \in Timers
    PROVE  /\ Insert(s, tm, t) \in Seq(Timers)
           /\ \A x : In(x, Insert(s, tm, t)) => In(x, s) \/ x = t
<1> DEFINE e == tm[t].expiration
           d == Due(s, tm, e)
           l == Later(s, tm, e)
           r == (d \o <<t>>) \o l
<1>1. e \in Int
  BY DEF TimerFcns
<1> HIDE DEF e
<1>2. /\ d \in Seq(Timers) /\ l \in Seq(Timers)
      /\ \A x : In(x, d) \/ In(x, l) => In(x, s)
  BY <1>1, SplitMembers
<1> HIDE DEF d, l
<1>3. \A p, q \in Seq(Timers) : p \o q \in Seq(Timers) /\ \A x : In(x, p \o q) => In(x, p) \/ In(x, q)
  <2> TAKE p \in Seq(Timers), q \in Seq(Timers)
  <2>1. /\ p \o q \in Seq(Timers) /\ Len(p \o q) = Len(p) + Len(q)
        /\ Len(p) \in Nat /\ Len(q) \in Nat
        /\ \A i \in 1 .. Len(p) : (p \o q)[i] = p[i]
        /\ \A i \in 1 .. Len(q) : (p \o q)[Len(p) + i] = q[i]
    BY Joined, InIs
  <2>2. ASSUME NEW x, In(x, p \o q) PROVE In(x, p) \/ In(x, q)
    <3>1. PICK i \in 1 .. Len(p) + Len(q) : (p \o q)[i] = x
      <4> DEFINE pq == p \o q
      <4>1. pq \in Seq(Timers) /\ Len(pq) = Len(p) + Len(q) /\ In(x, pq)
        BY <2>1, <2>2
      <4> HIDE DEF pq
      <4>2. \E i \in 1 .. Len(p) + Len(q) : pq[i] = x
        BY <4>1, InIs
      <4> QED BY <4>2 DEF pq
    <3>2. CASE i \in 1 .. Len(p)
      BY <2>1, <3>1, <3>2, InIs
    <3>3. CASE i \notin 1 .. Len(p)
      <4>1. i - Len(p) \in 1 .. Len(q) /\ Len(p) + (i - Len(p)) = i
        BY <2>1, <3>3
      <4>2. q[i - Len(p)] = x
        BY <2>1, <3>1, <4>1
      <4> QED BY <4>1, <4>2, InIs
    <3> QED BY <3>2, <3>3
  <2> QED BY <2>1, <2>2
<1>4. <<t>> \in Seq(Timers) /\ \A x : In(x, <<t>>) => x = t
  BY DEF In
<1>5. r \in Seq(Timers) /\ \A x : In(x, r) => In(x, s) \/ x = t
  BY <1>2, <1>3, <1>4
<1>6. Insert(s, tm, t) = r
  BY <1>2, <1>4 DEF Insert, d, l, e
<1> QED BY <1>5, <1>6

(* addTimerInLoop of a timer that exists. *)
LEMMA OneShotAdd ==
    ASSUME once \in Seq(Timers), NEW tm \in TimerFcns, NEW t \in Timers, AddTimerInLoop(t, tm)
    PROVE  /\ once' \in Seq(Timers)
           /\ \A x : In(x, once') => In(x, once) \/ (x = t /\ tm[t].duration = 0)
<1>1. CASE tm[t].duration = 0
  BY <1>1, InsertMembers DEF AddTimerInLoop
<1>2. CASE tm[t].duration # 0
  BY <1>2 DEF AddTimerInLoop
<1> QED BY <1>1, <1>2

(* A new timer is none of those that are entered, queued or called. *)
LEMMA OneShotNew ==
    ASSUME OneShotInv, NEW t \in Timers, NEW q \in Requests, NewTimer(t, q)
    PROVE  /\ timer' \in TimerFcns /\ timer'[t].created
           /\ \A x : In(x, once) \/ In(x, todo) => x # t /\ timer'[x] = timer[x]
           /\ \A i \in 1 .. Len(tasks) : tasks[i].t # t /\ timer'[tasks[i].t] = timer[tasks[i].t]
           /\ stage = "once" /\ cur # NoTimer => cur # t /\ timer'[cur] = timer[cur]
<1>1. q.delay \in Int /\ q.interval \in Nat
  BY RequestTypes
<1> DEFINE n == [created |-> TRUE, expiration |-> clock + Skew + q.delay,
                 first |-> clock + Skew + q.delay, duration |-> q.interval]
<1>2. timer' = [timer EXCEPT ![t] = n] /\ ~timer[t].created
  BY DEF NewTimer
<1>3. clock + Skew + q.delay \in Int
  BY <1>1, TimerAssumption DEF OneShotInv
<1>4. n \in [created : BOOLEAN, expiration : Int, first : Int, duration : Nat] /\ n.created
  BY <1>1, <1>3
<1> HIDE DEF n
<1>5. /\ timer' \in TimerFcns /\ timer'[t].created
      /\ \A x \in Timers : x # t => timer'[x] = timer[x]
  BY <1>2, <1>4 DEF OneShotInv, TimerFcns
<1>6. \A x : In(x, once) \/ In(x, todo) => x \in Timers /\ timer[x].created
  BY InIs DEF OneShotInv, OneShot
<1>7. \A i \in 1 .. Len(tasks) : tasks[i].t \in Timers /\ timer[tasks[i].t].created
  <2>1. \A i \in 1 .. Len(tasks) : tasks[i] \in Tasks
    BY DEF OneShotInv
  <2> QED BY <2>1 DEF OneShotInv, Tasks
<1>8. stage = "once" /\ cur # NoTimer => cur \in Timers /\ timer[cur].created
  BY DEF OneShotInv, OneShot
<1> QED BY <1>2, <1>5, <1>6, <1>7, <1>8

(* A task queued behind the others. *)
LEMMA OneShotQueued ==
    ASSUME tasks \in Seq(Tasks), NEW a \in Tasks
    PROVE  /\ Append(tasks, a) \in Seq(Tasks)
           /\ \A i \in 1 .. Len(Append(tasks, a)) :
                 \/ Append(tasks, a)[i] = a
                 \/ i \in 1 .. Len(tasks) /\ Append(tasks, a)[i] = tasks[i]
  OBVIOUS

(* The first task taken. *)
LEMMA OneShotTaken ==
    ASSUME OneShotInv, tasks # <<>>
    PROVE  /\ Head(tasks).t \in Timers /\ timer[Head(tasks).t].created
           /\ Tail(tasks) \in Seq(Tasks)
           /\ \A i \in 1 .. Len(Tail(tasks)) : timer[Tail(tasks)[i].t].created
<1>1. tasks \in Seq(Tasks) /\ Len(tasks) \in Nat
      /\ \A i \in 1 .. Len(tasks) : tasks[i] \in Tasks /\ timer[tasks[i].t].created
  BY DEF OneShotInv
<1>2. 1 \in 1 .. Len(tasks) /\ Head(tasks) = tasks[1] /\ tasks[1] \in Tasks
  BY <1>1
<1>3. Tail(tasks) \in Seq(Tasks) /\ Len(Tail(tasks)) = Len(tasks) - 1
  BY <1>1
<1>4. \A i \in 1 .. Len(Tail(tasks)) : i + 1 \in 1 .. Len(tasks) /\ Tail(tasks)[i] = tasks[i + 1]
  BY <1>1, <1>3
<1>5. \A i \in 1 .. Len(Tail(tasks)) : timer[Tail(tasks)[i].t].created
  BY <1>1, <1>4
<1>6. Head(tasks).t \in Timers
  BY <1>2 DEF Tasks
<1> QED BY <1>1, <1>2, <1>3, <1>5, <1>6

(* The steps of the second half of handleRead, of poll() and of the clock. *)
LEMMA OneShotRest ==
    ASSUME OneShotInv,
           /\ clock' \in Int /\ clock <= clock' /\ now' = now
           /\ timer' \in TimerFcns
           /\ \A t \in Timers :
                 /\ timer'[t].created = timer[t].created
                 /\ timer'[t].duration = timer[t].duration
                 /\ timer[t].duration = 0 => timer'[t].expiration = timer[t].expiration
           /\ once' = once /\ todo' = todo
           /\ \/ tasks' = tasks
              \/ /\ tasks' \in Seq(Tasks)
                 /\ \A i \in 1 .. Len(tasks') : timer[tasks'[i].t].created
           /\ stage' = "once" /\ cur' # NoTimer => stage = "once" /\ cur' = cur
    PROVE  OneShotInv'
<1>1. \A t : In(t, once) => t \in Timers
  BY InIs DEF OneShotInv
<1>2. \A t : In(t, todo) => t \in Timers
  BY InIs DEF OneShotInv
<1>3. tasks' \in Seq(Tasks) /\ \A i \in 1 .. Len(tasks') : timer[tasks'[i].t].created
  BY DEF OneShotInv
<1>4. \A i \in 1 .. Len(tasks') : tasks'[i].t \in Timers
  <2>1. \A i \in 1 .. Len(tasks') : tasks'[i] \in Tasks
    BY <1>3
  <2> QED BY <2>1 DEF Tasks
<1>5. \A i \in 1 .. Len(tasks') : timer'[tasks'[i].t].created
  BY <1>3, <1>4
<1>6. \A t : In(t, once') => OneShot(t)'
  BY <1>1 DEF OneShotInv, OneShot
<1>7. \A t : In(t, todo') => OneShot(t)' /\ timer'[t].expiration <= now'
  BY <1>2 DEF OneShotInv, OneShot
<1>8. stage' = "once" /\ cur' # NoTimer =>
         cur' \in Timers /\ OneShot(cur)' /\ timer'[cur'].expiration <= now'
  BY DEF OneShotInv, OneShot
<1>9. clock' \in Int /\ now' \in Int /\ now' <= clock' /\ timer' \in TimerFcns
      /\ once' \in Seq(Timers) /\ todo' \in Seq(Timers)
  BY DEF OneShotInv
<1> QED BY <1>3, <1>5, <1>6, <1>7, <1>8, <1>9 DEF OneShotInv

(* addTimer, in place or from another thread. *)
LEMMA OneShotAddInPlace ==
    ASSUME OneShotInv, NEW t \in Timers, NEW q \in Requests, AddInPlace(t, q)
    PROVE  OneShotInv'
<1>1. NewTimer(t, q) /\ AddTimerInLoop(t, timer')
  BY DEF AddInPlace
<1>2. /\ clock' = clock /\ now' = now /\ todo' = todo /\ stage' = stage /\ cur' = cur
      /\ tasks' = tasks
  BY DEF AddInPlace, handleVars
<1>3. /\ timer' \in TimerFcns /\ timer'[t].created
      /\ \A x : In(x, once) \/ In(x, todo) => x # t /\ timer'[x] = timer[x]
      /\ \A i \in 1 .. Len(tasks) : tasks[i].t # t /\ timer'[tasks[i].t] = timer[tasks[i].t]
      /\ stage = "once" /\ cur # NoTimer => cur # t /\ timer'[cur] = timer[cur]
  BY <1>1, OneShotNew
<1>4. once \in Seq(Timers)
  BY DEF OneShotInv
<1>5. /\ once' \in Seq(Timers)
      /\ \A x : In(x, once') => In(x, once) \/ (x = t /\ timer'[t].duration = 0)
  BY <1>1, <1>3, <1>4, OneShotAdd
<1>6. \A x : In(x, once') => OneShot(x)'
  BY <1>3, <1>5 DEF OneShotInv, OneShot
<1>7. \A x : In(x, todo') => OneShot(x)' /\ timer'[x].expiration <= now'
  BY <1>2, <1>3 DEF OneShotInv, OneShot
<1>8. stage' = "once" /\ cur' # NoTimer =>
         cur' \in Timers /\ OneShot(cur)' /\ timer'[cur'].expiration <= now'
  BY <1>2, <1>3 DEF OneShotInv, OneShot
<1>9. tasks' \in Seq(Tasks) /\ \A i \in 1 .. Len(tasks') : timer'[tasks'[i].t].created
  BY <1>2, <1>3 DEF OneShotInv
<1>10. clock' \in Int /\ now' \in Int /\ now' <= clock' /\ todo' \in Seq(Timers)
  BY <1>2 DEF OneShotInv
<1> QED BY <1>3, <1>5, <1>6, <1>7, <1>8, <1>9, <1>10 DEF OneShotInv

LEMMA OneShotAddFromThread ==
    ASSUME OneShotInv, NEW t \in Timers, NEW q \in Requests, AddFromThread(t, q)
    PROVE  OneShotInv'
<1> DEFINE a == [op |-> "add", t |-> t]
<1>1. NewTimer(t, q) /\ tasks' = Append(tasks, a)
  BY DEF AddFromThread
<1>2. /\ clock' = clock /\ now' = now /\ todo' = todo /\ stage' = stage /\ cur' = cur
      /\ once' = once
  BY DEF AddFromThread, handleVars
<1>3. /\ timer' \in TimerFcns /\ timer'[t].created
      /\ \A x : In(x, once) \/ In(x, todo) => x # t /\ timer'[x] = timer[x]
      /\ \A i \in 1 .. Len(tasks) : tasks[i].t # t /\ timer'[tasks[i].t] = timer[tasks[i].t]
      /\ stage = "once" /\ cur # NoTimer => cur # t /\ timer'[cur] = timer[cur]
  BY <1>1, OneShotNew
<1>4. a \in Tasks /\ a.t = t
  BY DEF Tasks
<1>5. tasks \in Seq(Tasks)
  BY DEF OneShotInv
<1> HIDE DEF a
<1>6. /\ tasks' \in Seq(Tasks)
      /\ \A i \in 1 .. Len(tasks') :
            tasks'[i] = a \/ (i \in 1 .. Len(tasks) /\ tasks'[i] = tasks[i])
  BY <1>1, <1>4, <1>5, OneShotQueued
<1>7. \A i \in 1 .. Len(tasks) : timer[tasks[i].t].created
  BY DEF OneShotInv
<1>8. \A i \in 1 .. Len(tasks') : timer'[tasks'[i].t].created
  BY <1>3, <1>4, <1>6, <1>7
<1>9. /\ \A x : In(x, once') => OneShot(x)'
      /\ \A x : In(x, todo') => OneShot(x)' /\ timer'[x].expiration <= now'
  BY <1>2, <1>3 DEF OneShotInv, OneShot
<1>10. stage' = "once" /\ cur' # NoTimer =>
          cur' \in Timers /\ OneShot(cur)' /\ timer'[cur'].expiration <= now'
  BY <1>2, <1>3 DEF OneShotInv, OneShot
<1>11. /\ clock' \in Int /\ now' \in Int /\ now' <= clock'
       /\ once' \in Seq(Timers) /\ todo' \in Seq(Timers)
  BY <1>2 DEF OneShotInv
<1> QED BY <1>3, <1>6, <1>8, <1>9, <1>10, <1>11 DEF OneShotInv

(* addTimerInLoop from the task queue. *)
LEMMA OneShotRunAdd ==
    ASSUME OneShotInv, RunAdd
    PROVE  OneShotInv'
<1> DEFINE t == Head(tasks).t
<1>1. tasks # <<>> /\ AddTimerInLoop(t, timer) /\ tasks' = Tail(tasks)
  BY DEF RunAdd
<1>2. /\ clock' = clock /\ timer' = timer /\ now' = now /\ todo' = todo /\ stage' = stage
      /\ cur' = cur
  BY DEF RunAdd, handleVars
<1>3. /\ t \in Timers /\ timer[t].created /\ tasks' \in Seq(Tasks)
      /\ \A i \in 1 .. Len(tasks') : timer[tasks'[i].t].created
  BY <1>1, OneShotTaken
<1> HIDE DEF t
<1>4. once \in Seq(Timers) /\ timer \in TimerFcns
  BY DEF OneShotInv
<1>5. /\ once' \in Seq(Timers)
      /\ \A x : In(x, once') => In(x, once) \/ (x = t /\ timer[t].duration = 0)
  BY <1>1, <1>3, <1>4, OneShotAdd
<1>6. \A x : In(x, once') => OneShot(x)'
  BY <1>2, <1>3, <1>5 DEF OneShotInv, OneShot
<1>7. \A x : In(x, todo') => OneShot(x)' /\ timer'[x].expiration <= now'
  BY <1>2 DEF OneShotInv, OneShot
<1>8. stage' = "once" /\ cur' # NoTimer =>
         cur' \in Timers /\ OneShot(cur)' /\ timer'[cur'].expiration <= now'
  BY <1>2 DEF OneShotInv, OneShot
<1>9. /\ clock' \in Int /\ now' \in Int /\ now' <= clock' /\ todo' \in Seq(Timers)
      /\ timer' \in TimerFcns
  BY <1>2 DEF OneShotInv
<1> QED BY <1>2, <1>3, <1>5, <1>6, <1>7, <1>8, <1>9 DEF OneShotInv

(* handleRead takes the timers that are due out of timer_map_once_. *)
LEMMA OneShotHandleRead ==
    ASSUME OneShotInv, HandleRead, cur = NoTimer
    PROVE  OneShotInv'
<1>1. /\ now' = clock /\ todo' = Due(once, timer, clock) /\ once' = Later(once, timer, clock)
      /\ clock' = clock /\ timer' = timer /\ tasks' = tasks /\ cur' = NoTimer
  BY DEF HandleRead
<1>2. once \in Seq(Timers) /\ timer \in TimerFcns /\ clock \in Int
  BY DEF OneShotInv
<1>3. /\ todo' \in Seq(Timers) /\ once' \in Seq(Timers)
      /\ \A x : In(x, todo') => In(x, once) /\ timer[x].expiration <= clock
      /\ \A x : In(x, once') => In(x, once)
  BY <1>1, <1>2, SplitMembers
<1>4. \A x : In(x, todo') \/ In(x, once') => OneShot(x)'
  BY <1>1, <1>3 DEF OneShotInv, OneShot
<1>5. \A x : In(x, todo') => timer'[x].expiration <= now'
  BY <1>1, <1>3
<1>6. /\ clock' \in Int /\ now' \in Int /\ now' <= clock' /\ timer' \in TimerFcns
      /\ tasks' \in Seq(Tasks) /\ \A i \in 1 .. Len(tasks') : timer'[tasks'[i].t].created
  BY <1>1 DEF OneShotInv
<1> QED BY <1>1, <1>3, <1>4, <1>5, <1>6 DEF OneShotInv

(* The next one of them is called. *)
LEMMA OneShotCall ==
    ASSUME OneShotInv, CallOnce
    PROVE  OneShotInv'
<1>1. /\ todo # <<>> /\ cur' = Head(todo) /\ todo' = Tail(todo)
      /\ clock' = clock /\ timer' = timer /\ once' = once /\ now' = now /\ tasks' = tasks
  BY DEF CallOnce, queueVars
<1>2. todo \in Seq(Timers)
  BY DEF OneShotInv
<1>3. Len(todo) \in Nat /\ 1 \in 1 .. Len(todo) /\ Head(todo) = todo[1]
  BY <1>1, <1>2
<1>4. Head(todo) \in Timers /\ In(Head(todo), todo)
  BY <1>2, <1>3, InIs
<1>5. todo' \in Seq(Timers) /\ \A i \in 1 .. Len(todo') : i + 1 \in 1 .. Len(todo) /\ todo'[i] = todo[i + 1]
  BY <1>1, <1>2, <1>3
<1>6. ASSUME NEW x, In(x, todo') PROVE In(x, todo)
  <2>1. PICK i \in 1 .. Len(todo') : todo'[i] = x
    BY <1>5, <1>6 DEF In
  <2> QED BY <1>2, <1>5, <2>1, InIs
<1>7. \A x : In(x, todo') => OneShot(x)' /\ timer'[x].expiration <= now'
  BY <1>1, <1>6 DEF OneShotInv, OneShot
<1>8. cur' \in Timers /\ OneShot(cur)' /\ timer'[cur'].expiration <= now'
  BY <1>1, <1>4 DEF OneShotInv, OneShot
<1>9. \A x : In(x, once') => OneShot(x)'
  BY <1>1 DEF OneShotInv, OneShot
<1>10. /\ clock' \in Int /\ now' \in Int /\ now' <= clock' /\ timer' \in TimerFcns
       /\ once' \in Seq(Timers) /\ tasks' \in Seq(Tasks)
       /\ \A i \in 1 .. Len(tasks') : timer'[tasks'[i].t].created
  BY <1>1 DEF OneShotInv
<1> QED BY <1>5, <1>7, <1>8, <1>9, <1>10 DEF OneShotInv

(* No callback runs outside handleRead. *)
OneShotBetween ==
    /\ active => stage = "idle"
    /\ stage = "idle" => cur = NoTimer

LEMMA OneShotInit == Init => OneShotInv /\ OneShotBetween
<1> SUFFICES ASSUME Init PROVE OneShotInv /\ OneShotBetween
  OBVIOUS
<1>1. \A x : ~In(x, <<>>)
  BY DEF In
<1>2. timer \in TimerFcns
  BY DEF Init, TimerFcns
<1>3. <<>> \in Seq(Timers) /\ <<>> \in Seq(Tasks) /\ Len(<<>>) = 0
  OBVIOUS
<1> QED
  BY <1>1, <1>2, <1>3 DEF Init, OneShotInv, OneShotBetween

(* Every step keeps it. *)
LEMMA OneShotStep ==
    ASSUME OneShotInv, OneShotBetween, [Next]_vars
    PROVE  OneShotInv' /\ OneShotBetween'
<1> DEFINE Same ==
        /\ timer' \in TimerFcns
        /\ \A t \in Timers :
              /\ timer'[t].created = timer[t].created
              /\ timer'[t].duration = timer[t].duration
              /\ timer[t].duration = 0 => timer'[t].expiration = timer[t].expiration
<1>1. timer' = timer => Same
  BY DEF OneShotInv
<1>2. clock \in Int /\ clock <= clock
  BY DEF OneShotInv
<1>3. CASE Poll
  <2>1. /\ clock' = clock /\ now' = now /\ timer' = timer /\ once' = once /\ todo' = todo
        /\ tasks' = tasks /\ stage' = stage /\ cur' = cur
    BY <1>3 DEF Poll, queueVars
  <2>2. OneShotInv'
    BY <1>1, <1>2, <2>1, OneShotRest
  <2> QED BY <1>3, <2>2 DEF Poll, OneShotBetween
<1>4. CASE HandleRead
  <2>1. cur = NoTimer
    BY <1>4 DEF HandleRead, OneShotBetween
  <2>2. OneShotInv'
    BY <1>4, <2>1, OneShotHandleRead
  <2> QED BY <1>4, <2>1, <2>2 DEF HandleRead, OneShotBetween
<1>5. CASE CallOnce
  BY <1>5, OneShotCall DEF CallOnce, OneShotBetween
<1>6. CASE StartRepeat
  <2>1. /\ clock' = clock /\ now' = now /\ timer' = timer /\ once' = once /\ todo' = todo
        /\ tasks' = tasks /\ stage' = "repeat" /\ active' = active /\ stage = "once"
    BY <1>6 DEF StartRepeat, queueVars
  <2>2. OneShotInv'
    BY <1>1, <1>2, <2>1, OneShotRest
  <2> QED BY <2>1, <2>2 DEF OneShotBetween
<1>7. CASE CallRepeat
  <2>1. /\ clock' = clock /\ now' = now /\ timer' = timer /\ once' = once /\ todo' = todo
        /\ tasks' = tasks /\ stage' = "repeat" /\ active' = active /\ stage = "repeat"
    BY <1>7 DEF CallRepeat, queueVars
  <2>2. OneShotInv'
    BY <1>1, <1>2, <2>1, OneShotRest
  <2> QED BY <2>1, <2>2 DEF OneShotBetween
<1>8. CASE Return
  <2>1. /\ clock' = clock /\ now' = now /\ timer' = timer /\ once' = once /\ todo' = todo
        /\ tasks' = tasks /\ stage' = stage /\ active' = active /\ cur' = NoTimer
    BY <1>8 DEF Return, queueVars
  <2>2. OneShotInv'
    BY <1>1, <1>2, <2>1, OneShotRest
  <2> QED BY <2>1, <2>2 DEF OneShotBetween
<1>9. CASE EndHandleRead
  <2>1. /\ clock' = clock /\ now' = now /\ once' = once /\ todo' = todo /\ tasks' = tasks
        /\ stage' = "idle" /\ active' = active /\ stage = "repeat" /\ cur' = NoTimer
    BY <1>9 DEF EndHandleRead
  <2>2. \A t \in Timers :
           \/ timer'[t] = timer[t]
           \/ timer'[t] = [timer[t] EXCEPT !.expiration = timer[t].expiration + timer[t].duration]
    BY <1>9 DEF EndHandleRead, Updated, NextExpiration
  <2>3. \A t \in Timers :
           timer[t] \in [created : BOOLEAN, expiration : Int, first : Int, duration : Nat]
    BY DEF OneShotInv, TimerFcns
  <2>4. \A t \in Timers :
           /\ timer'[t] \in [created : BOOLEAN, expiration : Int, first : Int, duration : Nat]
           /\ timer'[t].created = timer[t].created
           /\ timer'[t].duration = timer[t].duration
           /\ timer[t].duration = 0 => timer'[t].expiration = timer[t].expiration
    <3> TAKE t \in Timers
    <3>1. PICK x : x = timer[t]
      OBVIOUS
    <3>2. PICK y : y = timer'[t]
      OBVIOUS
    <3>3. /\ x \in [created : BOOLEAN, expiration : Int, first : Int, duration : Nat]
          /\ y = x \/ y = [x EXCEPT !.expiration = x.expiration + x.duration]
      BY <2>2, <2>3, <3>1, <3>2
    <3>4. /\ y \in [created : BOOLEAN, expiration : Int, first : Int, duration : Nat]
          /\ y.created = x.created /\ y.duration = x.duration
          /\ x.duration = 0 => y.expiration = x.expiration
      BY ONLY <3>3
    <3> QED BY <3>1, <3>2, <3>4
  <2>5. timer' \in TimerFcns
    BY <1>9, <2>4 DEF EndHandleRead, Updated, TimerFcns
  <2>6. OneShotInv'
    BY <1>2, <2>1, <2>4, <2>5, OneShotRest
  <2> QED BY <2>1, <2>6 DEF OneShotBetween
<1>10. CASE RunAdd
  BY <1>10, OneShotRunAdd DEF RunAdd, handleVars, OneShotBetween
<1>11. CASE RunDelete
  <2>1. /\ clock' = clock /\ now' = now /\ timer' = timer /\ once' = once /\ todo' = todo
        /\ stage' = stage /\ active' = active /\ cur' = cur
        /\ tasks # <<>> /\ tasks' = Tail(tasks)
    BY <1>11 DEF RunDelete, handleVars
  <2>2. tasks' \in Seq(Tasks) /\ \A i \in 1 .. Len(tasks') : timer[tasks'[i].t].created
    BY <2>1, OneShotTaken
  <2>3. OneShotInv'
    BY <1>1, <1>2, <2>1, <2>2, OneShotRest
  <2> QED BY <2>1, <2>3 DEF OneShotBetween
<1>12. CASE Tick
  <2>1. /\ clock' = clock + TickStep /\ now' = now /\ timer' = timer /\ once' = once
        /\ todo' = todo /\ tasks' = tasks /\ stage' = stage /\ active' = active /\ cur' = cur
    BY <1>12 DEF Tick, queueVars, handleVars
  <2>2. clock' \in Int /\ clock <= clock'
    BY <1>2, <2>1, TimerAssumption
  <2>3. OneShotInv'
    BY <1>1, <2>1, <2>2, OneShotRest
  <2> QED BY <2>1, <2>3 DEF OneShotBetween
<1>13. CASE \E t \in Timers : \E q \in Requests : AddInPlace(t, q)
  <2>1. PICK t \in Timers, q \in Requests : AddInPlace(t, q)
    BY <1>13
  <2>2. OneShotInv'
    BY <2>1, OneShotAddInPlace
  <2> QED BY <2>1, <2>2 DEF AddInPlace, handleVars, OneShotBetween
<1>14. CASE \E t \in Timers : \E q \in Requests : AddFromThread(t, q)
  <2>1. PICK t \in Timers, q \in Requests : AddFromThread(t, q)
    BY <1>14
  <2>2. OneShotInv'
    BY <2>1, OneShotAddFromThread
  <2> QED BY <2>1, <2>2 DEF AddFromThread, handleVars, OneShotBetween
<1>15. CASE \E t \in Timers : DeleteTimer(t)
  <2>1. PICK t \in Timers : DeleteTimer(t)
    BY <1>15
  <2> DEFINE a == [op |-> "delete", t |-> t]
  <2>2. /\ clock' = clock /\ now' = now /\ timer' = timer /\ once' = once /\ todo' = todo
        /\ stage' = stage /\ active' = active /\ cur' = cur
        /\ timer[t].created /\ tasks' = Append(tasks, a)
    BY <2>1 DEF DeleteTimer, queueVars, handleVars
  <2>3. a \in Tasks /\ a.t = t
    BY DEF Tasks
  <2>4. tasks \in Seq(Tasks) /\ \A i \in 1 .. Len(tasks) : timer[tasks[i].t].created
    BY DEF OneShotInv
  <2> HIDE DEF a
  <2>5. /\ tasks' \in Seq(Tasks)
        /\ \A i \in 1 .. Len(tasks') :
              tasks'[i] = a \/ (i \in 1 .. Len(tasks) /\ tasks'[i] = tasks[i])
    BY <2>2, <2>3, <2>4, OneShotQueued
  <2>6. \A i \in 1 .. Len(tasks') : timer[tasks'[i].t].created
    BY <2>2, <2>3, <2>4, <2>5
  <2>7. OneShotInv'
    BY <1>1, <1>2, <2>2, <2>5, <2>6, OneShotRest
  <2> QED BY <2>2, <2>7 DEF OneShotBetween
<1>16. CASE UNCHANGED vars
  <2>1. /\ clock' = clock /\ now' = now /\ timer' = timer /\ once' = once /\ todo' = todo
        /\ tasks' = tasks /\ stage' = stage /\ active' = active /\ cur' = cur
    BY <1>16 DEF vars
  <2>2. OneShotInv'
    BY <1>1, <1>2, <2>1, OneShotRest
  <2> QED BY <2>1, <2>2 DEF OneShotBetween
<1> QED
  BY <1>3, <1>4, <1>5, <1>6, <1>7, <1>8, <1>9, <1>10, <1>11, <1>12, <1>13, <1>14, <1>15,
     <1>16 DEF Next, LoopStep

(* The callback of runAt or runAfter is never called early, whatever is    *)
(* added and deleted meanwhile: also when callbacks of runEvery call       *)
(* runEvery and handleRead then iterates over what they entered.           *)
THEOREM OneShotNeverEarly == Spec => []OneShotNotEarly
<1>1. Init => OneShotInv /\ OneShotBetween
  BY OneShotInit
<1>2. OneShotInv /\ OneShotBetween /\ [Next]_vars => OneShotInv' /\ OneShotBetween'
  BY OneShotStep
<1>3. OneShotInv => OneShotNotEarly
  <2> SUFFICES ASSUME OneShotInv, stage = "once", cur # NoTimer
               PROVE  timer[cur].expiration <= clock
    BY DEF OneShotNotEarly
  <2>1. cur \in Timers /\ timer[cur].expiration <= now
    BY DEF OneShotInv
  <2>2. timer[cur].expiration \in Int /\ now \in Int /\ clock \in Int /\ now <= clock
    BY <2>1 DEF OneShotInv, TimerFcns
  <2> QED BY <2>1, <2>2
<1> QED BY <1>1, <1>2, <1>3, PTL DEF Spec
=============================================================================
