--------------------------- MODULE EventLoopProofs ---------------------------
(***************************************************************************)
(* Proofs about EventLoop, for any number of threads and tasks.            *)
(***************************************************************************)
EXTENDS EventLoop, SequenceTheorems, TLAPS

(* The sequence facts the proofs use, about any set of elements. *)
LEMMA EmptyConcat ==
    ASSUME NEW S, NEW s \in Seq(S)
    PROVE  <<>> \o s = s /\ s \o <<>> = s
  BY ConcatEmptySeq

(* Pushing at the end of the last of two sequences in a row. *)
LEMMA AppendToConcat ==
    \A s, t \in Seq(Tasks) : \A e \in Tasks :
        Append(s \o t, e) = s \o Append(t, e)
<1> SUFFICES ASSUME NEW s \in Seq(Tasks), NEW t \in Seq(Tasks), NEW e \in Tasks
             PROVE  Append(s \o t, e) = s \o Append(t, e)
  OBVIOUS
<1>1. s \o t \in Seq(Tasks) /\ <<e>> \in Seq(Tasks)
  BY ConcatProperties
<1>2. Append(s \o t, e) = (s \o t) \o <<e>> /\ Append(t, e) = t \o <<e>>
  BY <1>1, AppendIsConcat
<1>3. (s \o t) \o <<e>> = s \o (t \o <<e>>)
  BY <1>1, ConcatAssociative
<1> QED BY <1>2, <1>3

(* Taking the head of a sequence out in front of it. *)
LEMMA HeadThenTail ==
    ASSUME NEW S, NEW s \in Seq(S), s # <<>>
    PROVE  <<Head(s)>> \o Tail(s) = s /\ Head(s) \in S /\ Tail(s) \in Seq(S)
  OBVIOUS

(* Types are preserved; a pusher in queueTaskInThread knows its task. *)
THEOREM TypeCorrect == Spec => [](TypeOK /\ PusherKnowsTask)
<1> USE NoTaskAssumption DEF TypeOK, PusherKnowsTask
<1>1. Init => TypeOK /\ PusherKnowsTask
  <2> SUFFICES ASSUME Init PROVE TypeOK /\ PusherKnowsTask
    OBVIOUS
  <2>1. pc \in [Threads -> {"idle", "check", "write"}] /\ PusherKnowsTask
    BY DEF Init
  <2>2. mine \in [Threads -> Tasks \cup {NoTask}]
    BY DEF Init
  <2>3. doing_the_tasks_ \in BOOLEAN /\ io \in BOOLEAN
    BY DEF Init
  <2>4. active_channels_ \in SUBSET LoopChannels /\ woken \in SUBSET Tasks
    BY DEF Init
  <2> QED BY <2>1, <2>2, <2>3, <2>4 DEF Init, Stages
<1>2. TypeOK /\ PusherKnowsTask /\ [Next]_vars => (TypeOK /\ PusherKnowsTask)'
  <2> SUFFICES ASSUME TypeOK, PusherKnowsTask, [Next]_vars
               PROVE  TypeOK' /\ PusherKnowsTask'
    OBVIOUS
  <2> USE DEF loopVars, threadVars, Stages, LoopChannels
  <2>1. ASSUME NEW th \in Threads, NEW t \in Tasks, Push(th, t)
        PROVE  TypeOK' /\ PusherKnowsTask'
    BY <2>1 DEF Push, PushBack
  <2>2. ASSUME NEW th \in Threads, CheckDoing(th)
        PROVE  TypeOK' /\ PusherKnowsTask'
    BY <2>2 DEF CheckDoing
  <2>3. ASSUME NEW th \in Threads, WriteWakeup(th)
        PROVE  TypeOK' /\ PusherKnowsTask'
    BY <2>3 DEF WriteWakeup
  <2>4. ASSUME NEW t \in Tasks, OwnerQueue(t)
        PROVE  TypeOK' /\ PusherKnowsTask'
    BY <2>4 DEF OwnerQueue, PushBack
  <2>5. CASE StartLoop \/ PollFails
    BY <2>5 DEF StartLoop, PollFails
  <2>13. CASE HandleWakeup
    BY <2>13 DEF HandleWakeup
  <2>6. CASE Poll
    BY <2>6 DEF Poll, ReadyChannels
  <2>7. CASE SwapTasks
    BY <2>7 DEF SwapTasks
  <2>11. CASE StartTasks \/ FinishTasks
    <3>1. doing_the_tasks_' \in BOOLEAN
      BY <2>11 DEF StartTasks, FinishTasks
    <3> QED BY <2>11, <3>1 DEF StartTasks, FinishTasks
  <2>12. CASE HandleIo \/ IoReady
    <3>1. io' \in BOOLEAN
      BY <2>12 DEF HandleIo, IoReady
    <3> QED BY <2>12, <3>1 DEF HandleIo, IoReady
  <2>8. CASE BeginTask
    <3>1. cur' \in Tasks /\ tmp_vec' \in Seq(Tasks)
      BY <2>8, HeadThenTail DEF BeginTask
    <3> QED BY <2>8, <3>1 DEF BeginTask
  <2>9. CASE EndTask
    BY <2>9 DEF EndTask
  <2>10. CASE UNCHANGED vars
    BY <2>10 DEF vars
  <2> QED
    BY <2>1, <2>2, <2>3, <2>4, <2>5, <2>6, <2>7, <2>8, <2>9, <2>10,
       <2>11, <2>12, <2>13 DEF Next, LoopStep
<1> QED BY <1>1, <1>2, PTL DEF Spec

(* Inside doTheTasks, and only there, the flag is up and a batch exists. *)
THEOREM BatchCorrect == Spec => []BatchOnlyInDoTheTasks
<1>1. Init => BatchOnlyInDoTheTasks
  BY DEF Init, BatchOnlyInDoTheTasks
<1>2. TypeOK /\ BatchOnlyInDoTheTasks /\ [Next]_vars => BatchOnlyInDoTheTasks'
  <2> SUFFICES ASSUME TypeOK, BatchOnlyInDoTheTasks, [Next]_vars
               PROVE  BatchOnlyInDoTheTasks'
    OBVIOUS
  <2> USE DEF TypeOK, BatchOnlyInDoTheTasks, loopVars, threadVars
  <2>1. ASSUME NEW th \in Threads, NEW t \in Tasks, Push(th, t)
        PROVE  BatchOnlyInDoTheTasks'
    BY <2>1 DEF Push, PushBack
  <2>2. ASSUME NEW th \in Threads, CheckDoing(th) \/ WriteWakeup(th)
        PROVE  BatchOnlyInDoTheTasks'
    BY <2>2 DEF CheckDoing, WriteWakeup
  <2>3. ASSUME NEW t \in Tasks, OwnerQueue(t)
        PROVE  BatchOnlyInDoTheTasks'
    BY <2>3 DEF OwnerQueue, PushBack
  <2>4. CASE StartLoop \/ Poll \/ PollFails \/ HandleWakeup \/ HandleIo \/ IoReady
    BY <2>4 DEF StartLoop, Poll, PollFails, HandleWakeup, HandleIo, IoReady
  <2>5. CASE StartTasks \/ SwapTasks
    BY <2>5 DEF StartTasks, SwapTasks
  <2>6. CASE BeginTask \/ EndTask \/ FinishTasks
    BY <2>6 DEF BeginTask, EndTask, FinishTasks
  <2>7. CASE UNCHANGED vars
    BY <2>7 DEF vars
  <2> QED
    BY <2>1, <2>2, <2>3, <2>4, <2>5, <2>6, <2>7 DEF Next, LoopStep
<1> QED BY <1>1, <1>2, TypeCorrect, PTL DEF Spec

(* Nothing is lost, duplicated or reordered between push_back and the call. *)
THEOREM ConservationCorrect == Spec => []Conservation
<1>1. Init => Conservation
  BY DEF Init, Conservation, Backlog, CurSeq
<1>2. /\ TypeOK
      /\ BatchOnlyInDoTheTasks
      /\ Conservation
      /\ [Next]_vars
      => Conservation'
  <2> SUFFICES ASSUME TypeOK, BatchOnlyInDoTheTasks, Conservation, [Next]_vars
               PROVE  Conservation'
    OBVIOUS
  <2>1. /\ CurSeq \in Seq(Tasks)
        /\ tmp_vec \o task_vec_ \in Seq(Tasks)
        /\ Backlog \in Seq(Tasks)
    <3>1. CurSeq \in Seq(Tasks)
      BY DEF TypeOK, CurSeq
    <3>2. tmp_vec \o task_vec_ \in Seq(Tasks)
      BY ConcatProperties DEF TypeOK
    <3> QED BY <3>1, <3>2, ConcatProperties DEF Backlog
  <2>0. tmp_vec \in Seq(Tasks) /\ task_vec_ \in Seq(Tasks) /\ ran \in Seq(Tasks)
    BY DEF TypeOK
  <2>2. ASSUME NEW t \in Tasks, PushBack(t),
               UNCHANGED <<tmp_vec, cur, ran>>
        PROVE  Conservation'
    <3>1. tmp_vec' \o task_vec_' = Append(tmp_vec \o task_vec_, t)
      <4>1. Append(tmp_vec \o task_vec_, t) = tmp_vec \o Append(task_vec_, t)
        BY <2>0, AppendToConcat
      <4> QED BY <2>2, <4>1 DEF PushBack
    <3>2. CurSeq' = CurSeq
      BY <2>2 DEF CurSeq
    <3>3. Backlog' = Append(Backlog, t)
      BY <2>1, <3>1, <3>2, AppendToConcat DEF Backlog
    <3>4. ran \o Backlog' = Append(ran \o Backlog, t)
      <4>1. Append(ran \o Backlog, t) = ran \o Append(Backlog, t)
        BY <2>0, <2>1, AppendToConcat
      <4> QED BY <3>3, <4>1
    <3> QED BY <2>2, <3>4 DEF PushBack, Conservation
  <2>3. CASE SwapTasks
    <3>1. CurSeq = <<>> /\ tmp_vec = <<>>
      BY <2>3 DEF SwapTasks, BatchOnlyInDoTheTasks, CurSeq
    <3>2. tmp_vec' \o task_vec_' = tmp_vec \o task_vec_
      BY <2>3, <3>1, EmptyConcat DEF SwapTasks, TypeOK
    <3> QED BY <2>3, <3>1, <3>2 DEF SwapTasks, Conservation, Backlog, CurSeq
  <2>4. CASE BeginTask
    <3>1. CurSeq = <<>> /\ CurSeq' = <<Head(tmp_vec)>>
      BY <2>4, HeadThenTail, NoTaskAssumption DEF BeginTask, CurSeq, TypeOK
    <3>2. /\ <<Head(tmp_vec)>> \o Tail(tmp_vec) = tmp_vec
          /\ <<Head(tmp_vec)>> \in Seq(Tasks)
          /\ Tail(tmp_vec) \in Seq(Tasks)
      BY <2>4, HeadThenTail DEF BeginTask, TypeOK
    <3>3. Backlog' = <<Head(tmp_vec)>> \o (Tail(tmp_vec) \o task_vec_)
      BY <2>4, <3>1 DEF BeginTask, Backlog
    <3>4. Backlog' = tmp_vec \o task_vec_
      BY <3>2, <3>3, ConcatAssociative DEF TypeOK
    <3>5. Backlog = tmp_vec \o task_vec_
      BY <2>1, <3>1, EmptyConcat DEF Backlog
    <3> QED BY <2>4, <3>4, <3>5 DEF BeginTask, Conservation
  <2>5. CASE EndTask
    <3>1. CurSeq = <<cur>> /\ CurSeq' = <<>> /\ cur \in Tasks
      BY <2>5 DEF EndTask, CurSeq, TypeOK
    <3>2. Backlog' = tmp_vec \o task_vec_
      BY <2>1, <2>5, <3>1, EmptyConcat DEF EndTask, Backlog
    <3>3. ran' = ran \o <<cur>>
      BY <2>5, <3>1, AppendIsConcat DEF EndTask, TypeOK
    <3>4. ran' \o Backlog' = ran \o Backlog
      <4>1. <<cur>> \in Seq(Tasks)
        BY <3>1
      <4>2. (ran \o <<cur>>) \o (tmp_vec \o task_vec_)
              = ran \o (<<cur>> \o (tmp_vec \o task_vec_))
        BY <2>0, <2>1, <4>1, ConcatAssociative
      <4> QED BY <3>1, <3>2, <3>3, <4>2 DEF Backlog
    <3> QED BY <2>5, <3>4 DEF EndTask, Conservation
  <2>6. CASE UNCHANGED <<task_vec_, tmp_vec, cur, queued, ran>>
    BY <2>6 DEF Conservation, Backlog, CurSeq
  <2>7. ASSUME NEW th \in Threads, CheckDoing(th) \/ WriteWakeup(th)
        PROVE  Conservation'
    BY <2>6, <2>7 DEF CheckDoing, WriteWakeup, loopVars
  <2>8. ASSUME NEW th \in Threads, NEW t \in Tasks, Push(th, t)
        PROVE  Conservation'
    BY <2>2, <2>8 DEF Push, loopVars
  <2>9. ASSUME NEW t \in Tasks, OwnerQueue(t)
        PROVE  Conservation'
    BY <2>2, <2>9 DEF OwnerQueue, loopVars
  <2>10. CASE StartLoop \/ Poll \/ PollFails \/ HandleWakeup \/ HandleIo
              \/ IoReady \/ StartTasks \/ FinishTasks
    BY <2>6, <2>10 DEF StartLoop, Poll, PollFails, HandleWakeup, HandleIo,
                       IoReady, StartTasks, FinishTasks, loopVars
  <2>11. CASE UNCHANGED vars
    BY <2>6, <2>11 DEF vars
  <2> QED
    BY <2>3, <2>4, <2>5, <2>7, <2>8, <2>9, <2>10, <2>11 DEF Next, LoopStep
<1> QED BY <1>1, <1>2, TypeCorrect, BatchCorrect, PTL DEF Spec

(* What push_back adds to the elements of a vector, and to two in a row. *)
LEMMA RangeOfAppend ==
    \A s \in Seq(Tasks) : \A e \in Tasks : Range(Append(s, e)) = Range(s) \cup {e}
<1> SUFFICES ASSUME NEW s \in Seq(Tasks), NEW e \in Tasks
             PROVE  Range(Append(s, e)) = Range(s) \cup {e}
  OBVIOUS
<1>1. /\ DOMAIN Append(s, e) = DOMAIN s \cup {Len(s) + 1}
      /\ \A i \in DOMAIN s : Append(s, e)[i] = s[i]
      /\ Append(s, e)[Len(s) + 1] = e
  OBVIOUS
<1> QED BY <1>1, Zenon DEF Range

(* A task is pushed before its thread thinks of waking the loop for it. *)
THEOREM PushedBeforeWokenCorrect == Spec => []PushedBeforeWoken
<1>1. Init => PushedBeforeWoken
  BY DEF Init, PushedBeforeWoken
<1>2. /\ TypeOK
      /\ PushedBeforeWoken
      /\ [Next]_vars
      => PushedBeforeWoken'
  <2> SUFFICES ASSUME TypeOK, PushedBeforeWoken, [Next]_vars
               PROVE  PushedBeforeWoken'
    OBVIOUS
  <2>1. queued \in Seq(Tasks) /\ pc \in [Threads -> {"idle", "check", "write"}]
        /\ mine \in [Threads -> Tasks \cup {NoTask}]
    BY DEF TypeOK
  <2>2. ASSUME NEW t \in Tasks, PushBack(t)
        PROVE  Range(queued)' = Range(queued) \cup {t}
    BY <2>1, <2>2, RangeOfAppend DEF PushBack
  <2>3. ASSUME NEW th \in Threads, NEW t \in Tasks, Push(th, t)
        PROVE  PushedBeforeWoken'
    <3>1. Range(queued)' = Range(queued) \cup {t}
      BY <2>2, <2>3 DEF Push
    <3>2. ASSUME NEW u \in Threads, pc'[u] # "idle"
          PROVE  mine'[u] \in Range(queued)'
      BY <2>1, <2>3, <3>1, <3>2 DEF Push, PushedBeforeWoken
    <3> QED BY <2>3, <3>1, <3>2 DEF Push, PushedBeforeWoken
  <2>4. ASSUME NEW t \in Tasks, OwnerQueue(t)
        PROVE  PushedBeforeWoken'
    <3>1. Range(queued)' = Range(queued) \cup {t}
      BY <2>2, <2>4 DEF OwnerQueue
    <3> QED BY <2>4, <3>1 DEF OwnerQueue, threadVars, PushedBeforeWoken
  <2>5. ASSUME NEW th \in Threads, CheckDoing(th)
        PROVE  PushedBeforeWoken'
    BY <2>1, <2>5 DEF CheckDoing, PushedBeforeWoken
  <2>6. ASSUME NEW th \in Threads, WriteWakeup(th)
        PROVE  PushedBeforeWoken'
    BY <2>1, <2>6 DEF WriteWakeup, PushedBeforeWoken
  <2>7. CASE UNCHANGED <<threadVars, queued>>
    BY <2>7 DEF threadVars, PushedBeforeWoken
  <2>8. CASE LoopStep \/ PollFails \/ IoReady
    BY <2>7, <2>8 DEF LoopStep, StartLoop, Poll, PollFails, HandleWakeup,
         HandleIo, IoReady, StartTasks, SwapTasks, BeginTask, EndTask, FinishTasks
  <2>9. CASE UNCHANGED vars
    BY <2>7, <2>9 DEF vars, threadVars
  <2> QED BY <2>3, <2>4, <2>5, <2>6, <2>8, <2>9 DEF Next
<1> QED BY <1>1, <1>2, TypeCorrect, PTL DEF Spec

(* weakupCallback never consumes a wakeup that doTheTasks will not answer. *)
THEOREM WakeupCorrect == Spec => []WakeupPending
<1>1. Init => WakeupPending
  BY DEF Init, WakeupPending
<1>2. /\ TypeOK
      /\ PushedBeforeWoken
      /\ WakeupPending
      /\ [Next]_vars
      => WakeupPending'
  <2> SUFFICES ASSUME TypeOK, PushedBeforeWoken, WakeupPending, [Next]_vars
               PROVE  WakeupPending'
    OBVIOUS
  <2>1. task_vec_ \in Seq(Tasks) /\ weakup_fd_ \in Nat
    BY DEF TypeOK
  <2>2. ASSUME NEW t \in Tasks, PushBack(t), UNCHANGED <<stage, weakup_fd_, woken>>
        PROVE  WakeupPending'
    <3>1. Range(task_vec_)' = Range(task_vec_) \cup {t}
      BY <2>1, <2>2, RangeOfAppend DEF PushBack
    <3>2. t \notin woken
      BY <2>2 DEF PushBack, PushedBeforeWoken
    <3> QED BY <2>2, <3>1, <3>2 DEF WakeupPending
  <2>3. ASSUME NEW th \in Threads, NEW t \in Tasks, Push(th, t)
        PROVE  WakeupPending'
    BY <2>2, <2>3 DEF Push, loopVars
  <2>4. ASSUME NEW t \in Tasks, OwnerQueue(t)
        PROVE  WakeupPending'
    BY <2>2, <2>4 DEF OwnerQueue, loopVars, threadVars
  <2>5. ASSUME NEW th \in Threads, CheckDoing(th)
        PROVE  WakeupPending'
    BY <2>5 DEF CheckDoing, loopVars, WakeupPending
  <2>6. ASSUME NEW th \in Threads, WriteWakeup(th)
        PROVE  WakeupPending'
    BY <2>1, <2>6 DEF WriteWakeup, loopVars, WakeupPending
  <2>7. CASE SwapTasks
    <3>1. Range(task_vec_)' = {}
      BY <2>7 DEF SwapTasks, Range
    <3> QED BY <3>1 DEF WakeupPending
  <2>8. CASE StartLoop \/ BeginTask \/ EndTask \/ FinishTasks \/ IoReady
    BY <2>8 DEF StartLoop, BeginTask, EndTask, FinishTasks, IoReady, loopVars,
                threadVars, WakeupPending
  <2>9. CASE Poll \/ PollFails \/ HandleWakeup \/ HandleIo \/ StartTasks
    BY <2>9 DEF Poll, PollFails, HandleWakeup, HandleIo, StartTasks, threadVars,
                WakeupPending
  <2>10. CASE UNCHANGED vars
    BY <2>10 DEF vars, WakeupPending
  <2> QED
    BY <2>3, <2>4, <2>5, <2>6, <2>7, <2>8, <2>9, <2>10 DEF Next, LoopStep
<1> QED BY <1>1, <1>2, TypeCorrect, PushedBeforeWokenCorrect, PTL DEF Spec

(* The elements of two vectors in a row. *)
LEMMA RangeOfConcat ==
    \A s, t \in Seq(Tasks) : Range(s \o t) = Range(s) \cup Range(t)
  BY RangeConcatenation

(* Pushing, swapping, calling: each is a step of the first-in first-out    *)
(* executor of module TaskExecutor, or invisible to it.                    *)
THEOREM ExecutorRefined == Spec => RefinesExecutor
<1>1. Init => Executor!ExecInit
  BY DEF Init, Executor!ExecInit, Backlog, CurSeq
<1>2. /\ TypeOK
      /\ BatchOnlyInDoTheTasks
      /\ Conservation
      /\ [Next]_vars
      => [Executor!ExecNext]_<<Backlog, ran>>
  <2> SUFFICES ASSUME TypeOK, BatchOnlyInDoTheTasks, Conservation, [Next]_vars
               PROVE  Executor!ExecNext \/ UNCHANGED <<Backlog, ran>>
    OBVIOUS
  <2>1. tmp_vec \in Seq(Tasks) /\ task_vec_ \in Seq(Tasks) /\ ran \in Seq(Tasks)
    BY DEF TypeOK
  <2>2. CurSeq \in Seq(Tasks)
    BY DEF TypeOK, CurSeq
  <2>3. tmp_vec \o task_vec_ \in Seq(Tasks)
    BY <2>1, ConcatProperties
  <2>4. Backlog \in Seq(Tasks)
    BY <2>2, <2>3, ConcatProperties DEF Backlog
  <2>5. ASSUME NEW t \in Tasks, PushBack(t), UNCHANGED <<tmp_vec, cur, ran>>
        PROVE  Executor!ExecNext
    <3>1. tmp_vec' \o task_vec_' = Append(tmp_vec \o task_vec_, t)
      <4>1. Append(tmp_vec \o task_vec_, t) = tmp_vec \o Append(task_vec_, t)
        BY <2>1, AppendToConcat
      <4> QED BY <2>5, <4>1 DEF PushBack
    <3>2. CurSeq' = CurSeq
      BY <2>5 DEF CurSeq
    <3>3. Backlog' = Append(Backlog, t)
      BY <2>2, <2>3, <3>1, <3>2, AppendToConcat DEF Backlog
    <3>4. Range(queued) = Range(ran) \cup Range(Backlog)
      BY <2>1, <2>4, RangeOfConcat DEF Conservation
    <3>5. Executor!Submit(t)
      <4>1. t \notin Range(Backlog) /\ t \notin Range(ran)
        BY <2>5, <3>4 DEF PushBack
      <4>2. Executor!Range(Backlog) = Range(Backlog) /\ Executor!Range(ran) = Range(ran)
        BY DEF Executor!Range, Range
      <4> QED BY <2>5, <3>3, <4>1, <4>2 DEF Executor!Submit
    <3> QED BY <3>5 DEF Executor!ExecNext
  <2>6. CASE SwapTasks
    <3>1. CurSeq = <<>> /\ tmp_vec = <<>> /\ CurSeq' = CurSeq
      BY <2>6 DEF SwapTasks, BatchOnlyInDoTheTasks, CurSeq
    <3>2. tmp_vec' \o task_vec_' = tmp_vec \o task_vec_
      BY <2>1, <2>6, <3>1, EmptyConcat DEF SwapTasks
    <3> QED BY <2>6, <3>1, <3>2 DEF SwapTasks, Backlog
  <2>7. CASE BeginTask
    <3>1. CurSeq = <<>> /\ CurSeq' = <<Head(tmp_vec)>>
      BY <2>7, HeadThenTail, NoTaskAssumption DEF BeginTask, CurSeq, TypeOK
    <3>2. /\ <<Head(tmp_vec)>> \o Tail(tmp_vec) = tmp_vec
          /\ <<Head(tmp_vec)>> \in Seq(Tasks)
          /\ Tail(tmp_vec) \in Seq(Tasks)
      BY <2>7, HeadThenTail DEF BeginTask, TypeOK
    <3>3. Backlog' = <<Head(tmp_vec)>> \o (Tail(tmp_vec) \o task_vec_)
      BY <2>7, <3>1 DEF BeginTask, Backlog
    <3>4. Backlog' = tmp_vec \o task_vec_
      BY <3>2, <3>3, ConcatAssociative DEF TypeOK
    <3>5. Backlog = tmp_vec \o task_vec_
      BY <2>3, <3>1, EmptyConcat DEF Backlog
    <3> QED BY <2>7, <3>4, <3>5 DEF BeginTask
  <2>8. CASE EndTask
    <3>1. CurSeq = <<cur>> /\ CurSeq' = <<>> /\ cur \in Tasks
      BY <2>8 DEF EndTask, CurSeq, TypeOK
    <3>2. Backlog' = tmp_vec \o task_vec_
      BY <2>3, <2>8, <3>1, EmptyConcat DEF EndTask, Backlog
    <3>3. /\ Backlog # <<>>
          /\ Head(Backlog) = cur
          /\ Tail(Backlog) = tmp_vec \o task_vec_
      BY <2>3, <3>1 DEF Backlog
    <3>4. Executor!RunOldest
      BY <2>8, <3>2, <3>3 DEF EndTask, Executor!RunOldest
    <3> QED BY <3>4 DEF Executor!ExecNext
  <2>9. CASE UNCHANGED <<task_vec_, tmp_vec, cur, ran>>
    BY <2>9 DEF Backlog, CurSeq
  <2>10. ASSUME NEW th \in Threads, CheckDoing(th) \/ WriteWakeup(th)
         PROVE  UNCHANGED <<Backlog, ran>>
    BY <2>9, <2>10 DEF CheckDoing, WriteWakeup, loopVars, Backlog, CurSeq
  <2>11. ASSUME NEW th \in Threads, NEW t \in Tasks, Push(th, t)
         PROVE  Executor!ExecNext
    BY <2>5, <2>11 DEF Push, loopVars
  <2>12. ASSUME NEW t \in Tasks, OwnerQueue(t)
         PROVE  Executor!ExecNext
    BY <2>5, <2>12 DEF OwnerQueue, loopVars
  <2>13. CASE StartLoop \/ Poll \/ PollFails \/ HandleWakeup \/ HandleIo
              \/ IoReady \/ StartTasks \/ FinishTasks
    BY <2>9, <2>13 DEF StartLoop, Poll, PollFails, HandleWakeup, HandleIo,
                       IoReady, StartTasks, FinishTasks, loopVars
  <2>14. CASE UNCHANGED vars
    BY <2>9, <2>14 DEF vars
  <2> QED
    BY <2>6, <2>7, <2>8, <2>10, <2>11, <2>12, <2>13, <2>14 DEF Next, LoopStep
<1> QED
  BY <1>1, <1>2, TypeCorrect, BatchCorrect, ConservationCorrect, PTL
     DEF Spec, RefinesExecutor, Executor!ExecSpec, Executor!execVars

=============================================================================
