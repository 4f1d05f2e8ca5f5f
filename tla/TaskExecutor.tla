---------------------------- MODULE TaskExecutor ----------------------------
(***************************************************************************)
(* What EventLoop::queueTaskInThread promises its callers, without saying  *)
(* how: the tasks handed over form one first-in first-out line, each task  *)
(* is handed over once, and the task at the head is the next one to run.   *)
(* Nothing is said of WHEN a task runs; the liveness properties of module  *)
(* EventLoop are about that.                                               *)
(***************************************************************************)
EXTENDS Sequences, Functions

CONSTANT Tasks          \* identities of the functors handed over

VARIABLES pending,      \* handed over and not finished, oldest first
          ran           \* finished, in the order in which they ran

execVars == <<pending, ran>>

ExecInit ==
    /\ pending = <<>>
    /\ ran = <<>>

Submit(t) ==
    /\ t \notin Range(pending) \cup Range(ran)
    /\ pending' = Append(pending, t)
    /\ UNCHANGED ran

RunOldest ==
    /\ pending # <<>>
    /\ ran' = Append(ran, Head(pending))
    /\ pending' = Tail(pending)

ExecNext == RunOldest \/ \E t \in Tasks : Submit(t)

ExecSpec == ExecInit /\ [][ExecNext]_execVars
=============================================================================
