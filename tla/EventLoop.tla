------------------------------ MODULE EventLoop ------------------------------
(***************************************************************************)
(* EventLoop: one thread blocks in poll(), calls the handlers of the       *)
(* channels that are ready, then runs the tasks that other threads queued  *)
(* with queueTaskInThread.  A queueing thread pushes under mutex_, releases*)
(* it, and only then reads doing_the_tasks_ to decide whether to write the *)
(* eventfd that makes poll() return.                                       *)
(*                                                                         *)
(* The two critical sections (push_back, swap) are single actions, which   *)
(* is what mutex_ guarantees; everything else is interleaved.  The loop's  *)
(* own channel (the eventfd) is modelled; all its other channels (sockets, *)
(* timerfd) are one abstract channel "io" that becomes ready when the      *)
(* environment likes.  stop_ is never set anywhere, so loop() never ends.  *)
(* A functor given to doTaskInThread by the loop thread itself is called   *)
(* in place: it is part of the handler or task that is running.            *)
(***************************************************************************)
EXTENDS Naturals, Sequences, Functions

CONSTANTS Threads,      \* threads other than the loop's that queue tasks
          Tasks,        \* functors, each queued at most once (the bound)
          NoTask        \* no functor

ASSUME NoTaskAssumption == NoTask \notin Tasks

VARIABLES
    stage,              \* where the loop thread is in loop()
    doing_the_tasks_,   \* the atomic flag
    task_vec_,          \* queued and not yet swapped out
    tmp_vec,            \* swapped out by doTheTasks and not yet started
    cur,                \* the task being called, or NoTask
    weakup_fd_,         \* counter of the eventfd
    io,                 \* some other channel of the loop is ready
    active_channels_,   \* ready channels whose handler was not called yet
    pc,                 \* per thread, where it is in queueTaskInThread
    mine,               \* per thread, the task it is queueing
    queued,             \* history: tasks in the order of their push_back
    ran,                \* history: tasks in the order in which they finished
    woken               \* history: tasks whose thread wrote the eventfd

loopVars   == <<stage, doing_the_tasks_, tmp_vec, cur, active_channels_>>
threadVars == <<pc, mine, woken>>
vars == <<stage, doing_the_tasks_, task_vec_, tmp_vec, cur, weakup_fd_, io,
          active_channels_, pc, mine, queued, ran, woken>>

Stages == {"setup", "poll", "handle", "swap", "run"}
LoopChannels == {"wakeup", "io"}

TypeOK ==
    /\ stage \in Stages
    /\ doing_the_tasks_ \in BOOLEAN
    /\ task_vec_ \in Seq(Tasks)
    /\ tmp_vec \in Seq(Tasks)
    /\ cur \in Tasks \cup {NoTask}
    /\ weakup_fd_ \in Nat
    /\ io \in BOOLEAN
    /\ active_channels_ \in SUBSET LoopChannels
    /\ pc \in [Threads -> {"idle", "check", "write"}]
    /\ mine \in [Threads -> Tasks \cup {NoTask}]
    /\ queued \in Seq(Tasks)
    /\ ran \in Seq(Tasks)
    /\ woken \in SUBSET Tasks

(* The constructor: eventfd(0), no task, the flag false. *)
Init ==
    /\ stage = "setup"
    /\ doing_the_tasks_ = FALSE
    /\ task_vec_ = <<>>
    /\ tmp_vec = <<>>
    /\ cur = NoTask
    /\ weakup_fd_ = 0
    /\ io = FALSE
    /\ active_channels_ = {}
    /\ pc = [th \in Threads |-> "idle"]
    /\ mine = [th \in Threads |-> NoTask]
    /\ queued = <<>>
    /\ ran = <<>>
    /\ woken = {}

-----------------------------------------------------------------------------
PushFront(t) ==
    /\ t \notin Range(queued)
    /\ task_vec_' = <<t>> \o task_vec_
    /\ queued' = Append(queued, t)

(* Queueing a task: the locked push_back shared by every caller. *)
PushBack(t) ==
    /\ t \notin Range(queued)
    /\ task_vec_' = Append(task_vec_, t)
    /\ queued' = Append(queued, t)

(* queueTaskInThread by another thread: push, read the flag, maybe write. *)
Push(th, t) ==
    /\ pc[th] = "idle"
    /\ PushBack(t)
    /\ pc' = [pc EXCEPT ![th] = "check"]
    /\ mine' = [mine EXCEPT ![th] = t]
    /\ UNCHANGED <<loopVars, weakup_fd_, io, ran, woken>>

CheckDoing(th) ==
    /\ pc[th] = "check"
    /\ pc' = [pc EXCEPT ![th] = IF doing_the_tasks_ THEN "idle" ELSE "write"]
    /\ UNCHANGED <<loopVars, task_vec_, weakup_fd_, io, queued, ran, mine, woken>>

WriteWakeup(th) ==
    /\ pc[th] = "write"
    /\ weakup_fd_' = weakup_fd_ + 1
    /\ pc' = [pc EXCEPT ![th] = "idle"]
    /\ woken' = woken \cup {mine[th]}
    /\ UNCHANGED <<loopVars, task_vec_, io, queued, ran, mine>>

(* queueTaskInThread by the loop's own thread: before loop() is called, in *)
(* a channel handler, or inside a running task.  It never writes.          *)
OwnerQueue(t) ==
    /\ \/ stage = "setup"
       \/ stage = "handle" /\ "io" \in active_channels_
       \/ stage = "run" /\ cur # NoTask
    /\ PushBack(t)
    /\ UNCHANGED <<loopVars, threadVars, weakup_fd_, io, ran>>

-----------------------------------------------------------------------------
(* The loop thread. *)
StartLoop ==
    /\ stage = "setup"
    /\ stage' = "poll"
    /\ UNCHANGED <<doing_the_tasks_, task_vec_, tmp_vec, cur, weakup_fd_, io,
                   active_channels_, threadVars, queued, ran>>

ReadyWithoutWakeup == {c \in LoopChannels : c = "io" /\ io}

ReadyChannels ==
    {c \in LoopChannels : (c = "wakeup" /\ weakup_fd_ > 0) \/ (c = "io" /\ io)}

(* poll(-1) returns the channels that are ready. *)
Poll ==
    /\ stage = "poll"
    /\ ReadyChannels # {}
    /\ active_channels_' = ReadyChannels
    /\ stage' = "handle"
    /\ UNCHANGED <<doing_the_tasks_, task_vec_, tmp_vec, cur, weakup_fd_, io,
                   threadVars, queued, ran>>

(* ::poll fails (EINTR): it is logged and the round goes on without a channel. *)
PollFails ==
    /\ stage = "poll"
    /\ active_channels_' = {}
    /\ stage' = "handle"
    /\ UNCHANGED <<doing_the_tasks_, task_vec_, tmp_vec, cur, weakup_fd_, io,
                   threadVars, queued, ran>>

(* weakupCallback: the read takes the whole counter. *)
HandleWakeup ==
    /\ stage = "handle"
    /\ "wakeup" \in active_channels_
    /\ active_channels_' = active_channels_ \ {"wakeup"}
    /\ weakup_fd_' = 0
    /\ UNCHANGED <<stage, doing_the_tasks_, task_vec_, tmp_vec, cur, io,
                   threadVars, queued, ran>>

(* The handler of any other channel returns. *)
HandleIo ==
    /\ stage = "handle"
    /\ "io" \in active_channels_
    /\ active_channels_' = active_channels_ \ {"io"}
    /\ io' = FALSE
    /\ UNCHANGED <<stage, doing_the_tasks_, task_vec_, tmp_vec, cur, weakup_fd_,
                   threadVars, queued, ran>>

StartTasksIfWoken ==
    /\ stage = "handle"
    /\ active_channels_ = {}
    /\ doing_the_tasks_' = (weakup_fd_ > 0)
    /\ stage' = IF weakup_fd_ > 0 THEN "swap" ELSE "poll"
    /\ UNCHANGED <<task_vec_, tmp_vec, cur, weakup_fd_, io, active_channels_,
                   threadVars, queued, ran>>

(* doTheTasks, called in every round: raise the flag, ... *)
StartTasks ==
    /\ stage = "handle"
    /\ active_channels_ = {}
    /\ doing_the_tasks_' = TRUE
    /\ stage' = "swap"
    /\ UNCHANGED <<task_vec_, tmp_vec, cur, weakup_fd_, io, active_channels_,
                   threadVars, queued, ran>>

(* ... take every queued task (tmp_vec is a fresh, empty vector), ... *)
SwapTasks ==
    /\ stage = "swap"
    /\ tmp_vec' = task_vec_
    /\ task_vec_' = <<>>
    /\ stage' = "run"
    /\ UNCHANGED <<doing_the_tasks_, cur, weakup_fd_, io, active_channels_,
                   threadVars, queued, ran>>

(* ... call them one after the other, ... *)
BeginTask ==
    /\ stage = "run"
    /\ cur = NoTask
    /\ tmp_vec # <<>>
    /\ cur' = Head(tmp_vec)
    /\ tmp_vec' = Tail(tmp_vec)
    /\ UNCHANGED <<stage, doing_the_tasks_, task_vec_, weakup_fd_, io,
                   active_channels_, threadVars, queued, ran>>

EndTask ==
    /\ stage = "run"
    /\ cur # NoTask
    /\ ran' = Append(ran, cur)
    /\ cur' = NoTask
    /\ UNCHANGED <<stage, doing_the_tasks_, task_vec_, tmp_vec, weakup_fd_, io,
                   active_channels_, threadVars, queued>>

(* ... and lower the flag.  The next thing is poll(-1) again. *)
FinishTasks ==
    /\ stage = "run"
    /\ cur = NoTask
    /\ tmp_vec = <<>>
    /\ doing_the_tasks_' = FALSE
    /\ stage' = "poll"
    /\ UNCHANGED <<task_vec_, tmp_vec, cur, weakup_fd_, io, active_channels_,
                   threadVars, queued, ran>>

(* A socket or the timerfd becomes ready. *)
IoReady ==
    /\ ~io
    /\ io' = TRUE
    /\ UNCHANGED <<loopVars, threadVars, task_vec_, weakup_fd_, queued, ran>>

-----------------------------------------------------------------------------
LoopStep ==
    \/ StartLoop \/ Poll \/ HandleWakeup \/ HandleIo \/ StartTasks
    \/ SwapTasks \/ BeginTask \/ EndTask \/ FinishTasks

Next ==
    \/ LoopStep
    \/ PollFails
    \/ IoReady
    \/ \E t \in Tasks : OwnerQueue(t)
    \/ \E th \in Threads :
          \/ \E t \in Tasks : Push(th, t)
          \/ CheckDoing(th)
          \/ WriteWakeup(th)

Spec == Init /\ [][Next]_vars

(* The scheduler runs every thread, and tasks and handlers return.         *)
(* Nothing makes a socket become ready, a signal arrive or a user queue.   *)
FairSpec ==
    /\ Spec
    /\ WF_vars(LoopStep)
    /\ \A th \in Threads : WF_vars(CheckDoing(th)) /\ WF_vars(WriteWakeup(th))

-----------------------------------------------------------------------------
(* Safety. *)

CurSeq == IF cur = NoTask THEN <<>> ELSE <<cur>>

(* What was queued and has not finished, oldest first. *)
Backlog == CurSeq \o (tmp_vec \o task_vec_)

(* Tasks are neither lost, duplicated nor reordered between push_back and  *)
(* the end of their call: those that ran, the one being called, those      *)
(* swapped out and those still queued are, in this order, exactly the      *)
(* pushes in push order (queueTaskInThread against doTheTasks' swap).      *)
Conservation == queued = ran \o Backlog

(* doTheTasks leaves nothing behind: outside it no swapped-out task is     *)
(* waiting and none is being called, so its next swap, into a new vector,  *)
(* cannot drop a task.  The flag is up exactly while it runs.              *)
BatchOnlyInDoTheTasks ==
    /\ stage # "run" => tmp_vec = <<>> /\ cur = NoTask
    /\ doing_the_tasks_ <=> stage \in {"swap", "run"}

(* A wakeup is never lost: while a task whose thread wrote the eventfd is  *)
(* still in task_vec_, the loop is not going to block: the counter is      *)
(* positive, so poll() returns at once, or the loop thread is between      *)
(* poll() and the swap (weakupCallback's read against doTheTasks' swap).   *)
WakeupPending ==
    \A t \in woken \cap Range(task_vec_) :
        weakup_fd_ > 0 \/ stage \in {"handle", "swap"}

(* Two facts the proofs of module EventLoopProofs also need.  A thread     *)
(* inside queueTaskInThread knows the task it pushed, ...                  *)
PusherKnowsTask == \A th \in Threads : pc[th] # "idle" => mine[th] \in Tasks

(* ... and a task is pushed before its thread thinks of waking the loop.   *)
PushedBeforeWoken ==
    /\ woken \subseteq Range(queued)
    /\ \A th \in Threads : pc[th] # "idle" => mine[th] \in Range(queued)

(* EventLoop's queue as the abstract first-in first-out executor.          *)
Executor == INSTANCE TaskExecutor WITH pending <- Backlog, ran <- ran

(* Every step of the loop and of the queueing threads is a step of the     *)
(* abstract executor, or leaves it unchanged.                              *)
RefinesExecutor == Executor!ExecSpec

(* Liveness. *)

(* A task whose thread wrote the eventfd is run (queueTaskInThread with    *)
(* doing_the_tasks_ read as false).                                        *)
WokenTaskRuns == \A t \in Tasks : t \in woken ~> t \in Range(ran)

(* A task that another thread pushed is run: what the comment "wake up     *)
(* thread" in queueTaskInThread is for.  It fails when the thread reads    *)
(* doing_the_tasks_ while the loop runs the tasks it swapped out before,   *)
(* and nothing else wakes the loop.                                        *)
PushedTaskRuns ==
    \A t \in Tasks : (\E th \in Threads : mine[th] = t) ~> t \in Range(ran)

(* Every queued task is run, whoever queued it. *)
QueuedTaskRuns == \A t \in Tasks : t \in Range(queued) ~> t \in Range(ran)

(* When some other channel of the loop keeps becoming ready, as a timer of *)
(* EventLoop::runEvery makes it, every queued task is run, also one that   *)
(* was pushed while doing_the_tasks_ was up.                               *)
ActiveLoopRunsAll == []<>io => QueuedTaskRuns
=============================================================================
