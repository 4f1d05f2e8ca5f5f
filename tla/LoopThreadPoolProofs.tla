------------------------ MODULE LoopThreadPoolProofs ------------------------
(***************************************************************************)
(* Proofs about LoopThreadPool for any number of threads and connections.  *)
(***************************************************************************)
EXTENDS LoopThreadPool, TLAPS

USE DEF Current, Waiting, poolVars

(* The threads are numbered by naturals below MaxThreads. *)
LEMMA IdsAreNumbers ==
    /\ \A t \in Ids : t \in Nat /\ t < MaxThreads
    /\ \A n \in Nat : n < MaxThreads => n \in Ids
  BY PoolAssumption DEF Ids

(* A thread that has not pushed its loop is the one the caller waits for. *)
LEMMA BootIsAwaited ==
    TypeOK /\ Handshake => \A t \in Ids : thread[t] = "boot" =>
        t = Len(loops_) /\ t = Len(threads_) /\ Waiting /\ ~loop_inited_
<1> SUFFICES ASSUME TypeOK, Handshake, NEW t \in Ids, thread[t] = "boot"
             PROVE  t = Len(loops_) /\ t = Len(threads_) /\ Waiting /\ ~loop_inited_
  OBVIOUS
<1>1. t \in Nat /\ Len(loops_) \in Nat /\ Len(threads_) \in Nat
  BY IdsAreNumbers DEF TypeOK
<1>2. ~(t < Len(loops_)) /\ ~(t > Len(loops_))
  BY DEF Handshake
<1>3. t = Len(loops_)
  BY <1>1, <1>2
<1>4. Waiting /\ ~loop_inited_
  BY <1>3 DEF Handshake
<1> QED
  BY <1>3, <1>4 DEF Handshake

(* The handshake of start() with threadLoop(): the state is well typed,    *)
(* the caller and the threads agree on who is next, and the caller has     *)
(* come as far as the threads it filed away.                               *)
THEOREM HandshakeCorrect == Spec => [](TypeOK /\ Handshake /\ Progress)
<1>1. Init => TypeOK /\ Handshake /\ Progress
  <2> SUFFICES ASSUME Init PROVE TypeOK /\ Handshake /\ Progress
    OBVIOUS
  <2>1. TypeOK
    <3>1. thread \in [Ids -> {"none", "boot", "notify", "loop"}] /\ given \in [Ids -> Nat]
      BY DEF Init
    <3>2. loops_ \in Seq(Ids) /\ threads_ \in Seq(Ids)
      BY DEF Init
    <3> QED
      BY <3>1, <3>2 DEF Init, TypeOK
  <2>2. Len(loops_) = 0 /\ Len(threads_) = 0
    BY DEF Init
  <2>3. Handshake
    BY <2>2, PoolAssumption DEF Init, Handshake
  <2>4. Progress
    BY <2>2 DEF Init, Progress
  <2> QED
    BY <2>1, <2>3, <2>4
<1>2. TypeOK /\ Handshake /\ Progress /\ [Next]_vars
        => (TypeOK /\ Handshake /\ Progress)'
  <2> SUFFICES ASSUME TypeOK, Handshake, Progress, [Next]_vars
               PROVE  (TypeOK /\ Handshake /\ Progress)'
    OBVIOUS
  <2> USE PoolAssumption
  <2>1. CASE CreateThread
    <3>1. TypeOK'
      BY <2>1 DEF CreateThread, TypeOK, Handshake, Progress
    <3>2. Handshake'
      BY <2>1 DEF CreateThread, TypeOK, Handshake, Progress
    <3>3. Progress'
      BY <2>1 DEF CreateThread, TypeOK, Handshake, Progress
    <3> QED
      BY <3>1, <3>2, <3>3
  <2>2. CASE Wait
    <3>0. Len(threads_) \in Nat /\ Len(loops_) \in Nat
      BY DEF TypeOK
    <3>1. ASSUME loop_inited_ PROVE TypeOK' /\ Handshake'
      <4>1. Len(threads_) \in Ids
        BY <2>2, IdsAreNumbers DEF Wait, TypeOK, Progress
      <4>2. threads_ \in Seq(Ids) /\ threads_' = Append(threads_, Len(threads_))
        BY <2>2, <3>1 DEF Wait, TypeOK
      <4>3. /\ threads_' \in Seq(Ids)
            /\ Len(threads_') = Len(threads_) + 1
            /\ \A i \in 1 .. Len(threads_) : threads_'[i] = threads_[i]
            /\ threads_'[Len(threads_) + 1] = Len(threads_)
        BY <4>1, <4>2
      <4>4. \A i \in 1 .. Len(threads_') : threads_'[i] = i - 1
        BY <3>0, <4>3 DEF Handshake
      <4>5. TypeOK'
        BY <2>2, <3>1, <4>3 DEF Wait, TypeOK
      <4>6. Handshake'
        BY <2>2, <3>1, <4>3, <4>4, IdsAreNumbers DEF Wait, TypeOK, Handshake
      <4> QED
        BY <4>5, <4>6
    <3>2. ASSUME ~loop_inited_ PROVE TypeOK' /\ Handshake'
      <4>1. /\ caller' = "sleep" /\ caller = "lock"
            /\ UNCHANGED <<started_, thread_num_, next_loop_index_, given, loops_,
                           thread, threads_, loop_inited_>>
        BY <2>2, <3>2 DEF Wait
      <4> QED
        BY <4>1 DEF TypeOK, Handshake
    <3>3. Progress'
      BY <2>2 DEF Wait, TypeOK, Handshake, Progress
    <3> QED
      BY <3>1, <3>2, <3>3 DEF TypeOK
  <2>3. CASE StartReturns
    <3>1. TypeOK'
      BY <2>3 DEF StartReturns, TypeOK, Handshake, Progress
    <3>2. Handshake'
      BY <2>3 DEF StartReturns, TypeOK, Handshake, Progress
    <3>3. Progress'
      BY <2>3 DEF StartReturns, TypeOK, Handshake, Progress
    <3> QED
      BY <3>1, <3>2, <3>3
  <2>4. CASE Start
    <3>1. TypeOK'
      BY <2>4 DEF Start, TypeOK, Handshake, Progress
    <3>2. Handshake'
      BY <2>4 DEF Start, TypeOK, Handshake, Progress
    <3>3. Progress'
      BY <2>4 DEF Start, TypeOK, Handshake, Progress
    <3> QED
      BY <3>1, <3>2, <3>3
  <2>5. CASE SpuriousWakeup
    <3>1. TypeOK'
      BY <2>5 DEF SpuriousWakeup, TypeOK, Handshake, Progress
    <3>2. Handshake'
      BY <2>5 DEF SpuriousWakeup, TypeOK, Handshake, Progress
    <3>3. Progress'
      BY <2>5 DEF SpuriousWakeup, TypeOK, Handshake, Progress
    <3> QED
      BY <3>1, <3>2, <3>3
  <2>6. CASE GetLoopForNewConnection
    BY <2>6 DEF GetLoopForNewConnection, Wrapped, TypeOK, Handshake, Progress
  <2>7. ASSUME NEW n \in 0 .. MaxThreads, SetThreadNumber(n)
        PROVE  (TypeOK /\ Handshake /\ Progress)'
    BY <2>7 DEF SetThreadNumber, TypeOK, Handshake, Progress
  <2>8. ASSUME NEW t \in Ids, PushLoop(t)
        PROVE  (TypeOK /\ Handshake /\ Progress)'
    <3>1. t \in Nat /\ Len(loops_) \in Nat /\ Len(threads_) \in Nat
      BY IdsAreNumbers DEF TypeOK
    <3>2. t = Len(loops_) /\ ~loop_inited_ /\ Waiting
      BY <2>8, BootIsAwaited DEF PushLoop
    <3>3. /\ loops_' = Append(loops_, t)
          /\ Len(loops_') = Len(loops_) + 1
          /\ \A i \in 1 .. Len(loops_) : loops_'[i] = loops_[i]
          /\ loops_'[Len(loops_) + 1] = t
      BY <2>8 DEF PushLoop, TypeOK
    <3>4. TypeOK'
      BY <2>8, <3>3 DEF PushLoop, TypeOK
    <3>5. \A i \in 1 .. Len(loops_') : loops_'[i] = i - 1
      BY <3>1, <3>2, <3>3 DEF Handshake
    <3>6. Handshake'
      BY <2>8, <3>1, <3>2, <3>3, <3>5 DEF PushLoop, TypeOK, Handshake
    <3>7. Progress'
      BY <2>8 DEF PushLoop, Progress
    <3> QED
      BY <3>4, <3>6, <3>7
  <2>9. ASSUME NEW t \in Ids, NotifyOne(t)
        PROVE  (TypeOK /\ Handshake /\ Progress)'
    BY <2>9 DEF NotifyOne, TypeOK, Handshake, Progress
  <2>10. CASE UNCHANGED vars
    BY <2>10 DEF vars, TypeOK, Handshake, Progress
  <2> QED
    BY <2>1, <2>2, <2>3, <2>4, <2>5, <2>6, <2>7, <2>8, <2>9, <2>10
    DEF Next, CallerStep, ThreadStep
<1> QED
  BY <1>1, <1>2, PTL DEF Spec

(* After start() returned, getLoopForNewConnection reads a complete vector *)
(* that no thread writes any more.                                         *)
THEOREM PoolCompleteCorrect == Spec => []PoolComplete
<1>1. TypeOK /\ Handshake /\ Progress => PoolComplete
  <2> SUFFICES ASSUME TypeOK, Handshake, Progress, caller = "done"
               PROVE  /\ Len(loops_) = thread_num_
                      /\ \A t \in Ids : /\ thread[t] # "boot"
                                        /\ t < thread_num_ =>
                                             \E i \in DOMAIN loops_ : loops_[i] = t
    BY DEF PoolComplete
  <2>1. ~loop_inited_ /\ Len(loops_) = thread_num_ /\ thread_num_ \in Nat
    BY PoolAssumption DEF TypeOK, Handshake, Progress
  <2>2. ASSUME NEW t \in Ids
        PROVE  thread[t] # "boot"
    BY BootIsAwaited
  <2>3. ASSUME NEW t \in Ids, t < thread_num_
        PROVE  \E i \in DOMAIN loops_ : loops_[i] = t
    <3>1. t + 1 \in 1 .. Len(loops_) /\ (t + 1) - 1 = t
      BY <2>1, <2>3, IdsAreNumbers
    <3>2. loops_[t + 1] = t
      BY <3>1 DEF Handshake
    <3> QED
      BY <3>1, <3>2 DEF TypeOK
  <2> QED
    BY <2>1, <2>2, <2>3
<1> QED
  BY <1>1, HandshakeCorrect, PTL

(* condition_ is always notified for a sleeping caller. *)
THEOREM SleeperCorrect == Spec => []SleeperIsNotified
<1>1. Init => SleeperIsNotified
  BY DEF Init, SleeperIsNotified
<1>2. /\ TypeOK /\ Handshake /\ Progress /\ SleeperIsNotified
      /\ [Next]_vars
      => SleeperIsNotified'
  <2> SUFFICES ASSUME TypeOK, Handshake, Progress, SleeperIsNotified, [Next]_vars
               PROVE  SleeperIsNotified'
    OBVIOUS
  <2> USE PoolAssumption
  <2>1. CASE CreateThread
    BY <2>1 DEF CreateThread, SleeperIsNotified
  <2>2. CASE Wait
    BY <2>2 DEF Wait, SleeperIsNotified
  <2>3. CASE StartReturns \/ Start \/ SpuriousWakeup
    BY <2>3 DEF StartReturns, Start, SpuriousWakeup, SleeperIsNotified
  <2>4. CASE GetLoopForNewConnection
    BY <2>4 DEF GetLoopForNewConnection, SleeperIsNotified
  <2>5. ASSUME NEW n \in 0 .. MaxThreads, SetThreadNumber(n)
        PROVE  SleeperIsNotified'
    BY <2>5 DEF SetThreadNumber, SleeperIsNotified
  <2>6. ASSUME NEW t \in Ids, PushLoop(t)
        PROVE  SleeperIsNotified'
    <3>1. t = Len(threads_)
      BY <2>6, BootIsAwaited DEF PushLoop
    <3> QED
      BY <2>6, <3>1 DEF PushLoop, TypeOK, SleeperIsNotified
  <2>7. ASSUME NEW t \in Ids, NotifyOne(t)
        PROVE  SleeperIsNotified'
    BY <2>7 DEF NotifyOne, SleeperIsNotified
  <2>8. CASE UNCHANGED vars
    BY <2>8 DEF vars, SleeperIsNotified
  <2> QED
    BY <2>1, <2>2, <2>3, <2>4, <2>5, <2>6, <2>7, <2>8
    DEF Next, CallerStep, ThreadStep
<1> QED
  BY <1>1, <1>2, HandshakeCorrect, PTL DEF Spec

(* The round robin of getLoopForNewConnection: the index stays in range    *)
(* and the threads below it are exactly one connection ahead of the rest.  *)
THEOREM DealtCorrect == Spec => [](IndexInRange /\ NothingGiven /\ Dealt)
<1> DEFINE Inv == IndexInRange /\ NothingGiven /\ Dealt
<1>1. Init => Inv
  <2> SUFFICES ASSUME Init PROVE Inv
    OBVIOUS
  <2>1. \A t \in Ids : t < thread_num_ =>
           given[t] = IF t < next_loop_index_ THEN 0 + 1 ELSE 0
    BY PoolAssumption DEF Init
  <2> QED
    BY <2>1, PoolAssumption DEF Init, IndexInRange, NothingGiven, Dealt
<1>2. TypeOK /\ Handshake /\ Progress /\ Inv /\ [Next]_vars => Inv'
  <2> SUFFICES ASSUME TypeOK, Handshake, Progress, Inv, [Next]_vars
               PROVE  Inv'
    OBVIOUS
  <2> USE PoolAssumption
  <2>1. CASE GetLoopForNewConnection
    <3>1. PICK q \in Nat : \A t \in Ids : t < thread_num_ =>
             given[t] = IF t < next_loop_index_ THEN q + 1 ELSE q
      BY DEF Dealt
    <3>2. /\ caller = "done" /\ caller' = caller
          /\ thread_num_ \in Nat \ {0} /\ thread_num_' = thread_num_
          /\ next_loop_index_ \in Nat /\ next_loop_index_ <= thread_num_
          /\ next_loop_index_' = Wrapped + 1
          /\ given \in [Ids -> Nat]
      BY <2>1 DEF GetLoopForNewConnection, TypeOK, IndexInRange
    <3>3. Wrapped \in Nat /\ Wrapped < thread_num_
      BY <3>2 DEF Wrapped
    <3>4. Wrapped \in Ids
      BY <3>3, <3>2, IdsAreNumbers DEF TypeOK
    <3>5. Wrapped < Len(loops_) /\ loops_[Wrapped + 1] = Wrapped
      <4>1. Len(loops_) = thread_num_
        BY <3>2 DEF TypeOK, Handshake, Progress
      <4>2. Wrapped + 1 \in 1 .. Len(loops_) /\ (Wrapped + 1) - 1 = Wrapped
        BY <3>2, <3>3, <4>1
      <4> QED
        BY <3>3, <4>1, <4>2 DEF Handshake
    <3>6. given' = [given EXCEPT ![Wrapped] = @ + 1]
      BY <2>1, <3>5 DEF GetLoopForNewConnection
    <3>7. Dealt'
      <4>1. CASE next_loop_index_ < thread_num_
        <5>1. Wrapped = next_loop_index_
          BY <4>1, <3>2 DEF Wrapped
        <5>2. \A t \in Ids : t < thread_num_ =>
                given'[t] = IF t < next_loop_index_ + 1 THEN q + 1 ELSE q
          BY <3>1, <3>2, <3>4, <3>6, <5>1
        <5> QED
          BY <5>1, <5>2, <3>2 DEF Dealt
      <4>2. CASE next_loop_index_ = thread_num_
        <5>1. Wrapped = 0
          BY <4>2, <3>2 DEF Wrapped
        <5>2. \A t \in Ids : t < thread_num_ =>
                given'[t] = IF t < 1 THEN (q + 1) + 1 ELSE q + 1
          BY <3>1, <3>2, <3>4, <3>6, <4>2, <5>1, IdsAreNumbers
        <5>3. q + 1 \in Nat /\ next_loop_index_' = 1
          BY <3>1, <3>2, <5>1
        <5> QED
          BY <5>2, <5>3, <3>2 DEF Dealt
      <4> QED
        BY <4>1, <4>2, <3>2
    <3> QED
      BY <3>2, <3>3, <3>7 DEF IndexInRange, NothingGiven
  <2>2. CASE CreateThread \/ Wait \/ StartReturns \/ Start \/ SpuriousWakeup
              \/ UNCHANGED vars \/ \E t \in Ids : ThreadStep(t)
    <3>1. /\ UNCHANGED <<thread_num_, next_loop_index_, given>>
          /\ caller' # "done" => caller # "done"
      BY <2>2 DEF CreateThread, Wait, StartReturns, Start, SpuriousWakeup, vars,
                  ThreadStep, PushLoop, NotifyOne
    <3> QED
      BY <3>1 DEF IndexInRange, NothingGiven, Dealt
  <2>3. ASSUME NEW n \in 0 .. MaxThreads, SetThreadNumber(n)
        PROVE  Inv'
    <3>1. /\ caller # "done" /\ caller' = caller /\ thread_num_' = n
          /\ next_loop_index_ = 0 /\ next_loop_index_' = 0 /\ given' = given
      BY <2>3 DEF SetThreadNumber, Progress
    <3>2. \A t \in Ids : given'[t] = 0
      BY <3>1 DEF NothingGiven
    <3>3. \A t \in Ids : t < thread_num_' =>
            given'[t] = IF t < next_loop_index_' THEN 0 + 1 ELSE 0
      BY <3>1, <3>2, IdsAreNumbers
    <3> QED
      BY <3>1, <3>2, <3>3 DEF IndexInRange, NothingGiven, Dealt
  <2> QED
    BY <2>1, <2>2, <2>3 DEF Next, CallerStep
<1> QED
  BY <1>1, <1>2, HandshakeCorrect, PTL DEF Spec

(* "> is impossible": the index never passes the number of threads. *)
THEOREM IndexCorrect == Spec => []IndexInRange
  BY DealtCorrect, PTL

(* Two threads of the pool never differ by more than one connection. *)
THEOREM DealtEvenlyCorrect == Spec => []DealtEvenly
<1>1. TypeOK /\ Dealt => DealtEvenly
  <2> SUFFICES ASSUME TypeOK, Dealt,
                      NEW s \in Ids, NEW t \in Ids, s < thread_num_, t < thread_num_
               PROVE  given[s] <= given[t] + 1
    BY DEF DealtEvenly
  <2>1. PICK q \in Nat : \A u \in Ids : u < thread_num_ =>
           given[u] = IF u < next_loop_index_ THEN q + 1 ELSE q
    BY DEF Dealt
  <2> QED
    BY <2>1
<1> QED
  BY <1>1, HandshakeCorrect, DealtCorrect, PTL
=============================================================================
