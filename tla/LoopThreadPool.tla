--------------------------- MODULE LoopThreadPool ---------------------------
(***************************************************************************)
(* LoopThreadPool: start() creates one thread after the other and waits    *)
(* for each to have put its EventLoop into loops_; afterwards connections  *)
(* are dealt out in turn.  The thread that calls start() and then runs the *)
(* base loop is "the caller".                                              *)
(*                                                                         *)
(* The critical sections of mutex_ are single actions.  The caller holds   *)
(* the mutex from its check of loop_inited_ until it sleeps on condition_, *)
(* so check and sleep are one action too; notify_one is called after the   *)
(* mutex was released and is a step of its own, which may come late.       *)
(***************************************************************************)
EXTENDS Naturals, Sequences

CONSTANTS MaxThreads,   \* bound: the largest thread_num_ that is set
          MaxConns      \* bound: connections dealt out

ASSUME PoolAssumption == MaxThreads \in Nat /\ MaxConns \in Nat

VARIABLES
    started_,
    thread_num_,
    next_loop_index_,
    loop_inited_,
    loops_,             \* the threads whose loop was pushed, in that order
    threads_,           \* the threads the caller has filed away
    caller,             \* where the caller is in start()
    thread,             \* per thread (by its number i), where it is
    given               \* history: per thread, connections it was given

vars == <<started_, thread_num_, next_loop_index_, loop_inited_, loops_,
          threads_, caller, thread, given>>
poolVars == <<started_, thread_num_, next_loop_index_, given>>

(* Threads are numbered from 0 in the order of their creation. *)
Ids == 0 .. MaxThreads - 1

(* The variable i of start(): as many threads as were filed away. *)
Current == Len(threads_)

TypeOK ==
    /\ started_ \in BOOLEAN
    /\ thread_num_ \in 0 .. MaxThreads
    /\ next_loop_index_ \in Nat
    /\ loop_inited_ \in BOOLEAN
    /\ loops_ \in Seq(Ids)
    /\ threads_ \in Seq(Ids)
    /\ caller \in {"before", "create", "lock", "sleep", "done"}
    /\ thread \in [Ids -> {"none", "boot", "notify", "loop"}]
    /\ given \in [Ids -> Nat]

Init ==
    /\ started_ = FALSE
    /\ thread_num_ \in 0 .. MaxThreads
    /\ next_loop_index_ = 0
    /\ loop_inited_ = FALSE
    /\ loops_ = <<>>
    /\ threads_ = <<>>
    /\ caller = "before"
    /\ thread = [t \in Ids |-> "none"]
    /\ given = [t \in Ids |-> 0]

-----------------------------------------------------------------------------
(* The caller. *)

(* setThreadNumber; a call after start() changes nothing. *)
SetThreadNumber(n) ==
    /\ ~started_
    /\ thread_num_' = n
    /\ UNCHANGED <<started_, next_loop_index_, given, loop_inited_, loops_,
                   threads_, caller, thread>>

Start ==
    /\ caller = "before"
    /\ started_' = TRUE
    /\ caller' = "create"
    /\ UNCHANGED <<thread_num_, next_loop_index_, given, loop_inited_, loops_,
                   threads_, thread>>

CreateThreadOneMore ==
    /\ caller = "create"
    /\ Current <= thread_num_
    /\ thread' = [thread EXCEPT ![Current] = "boot"]
    /\ caller' = "lock"
    /\ UNCHANGED <<poolVars, loop_inited_, loops_, threads_>>

(* EventLoopThread::run *)
CreateThread ==
    /\ caller = "create"
    /\ Current < thread_num_
    /\ thread' = [thread EXCEPT ![Current] = "boot"]
    /\ caller' = "lock"
    /\ UNCHANGED <<poolVars, loop_inited_, loops_, threads_>>

WaitKeepsFlag ==
    /\ caller = "lock"
    /\ IF loop_inited_
       THEN threads_' = Append(threads_, Current) /\ caller' = "create"
       ELSE caller' = "sleep" /\ UNCHANGED threads_
    /\ UNCHANGED <<poolVars, loop_inited_, loops_, thread>>

(* condition_.wait: lock, look at the predicate, and file the thread away  *)
(* or go to sleep.                                                         *)
Wait ==
    /\ caller = "lock"
    /\ IF loop_inited_
       THEN /\ threads_' = Append(threads_, Current)
            /\ loop_inited_' = FALSE
            /\ caller' = "create"
       ELSE /\ caller' = "sleep"
            /\ UNCHANGED <<threads_, loop_inited_>>
    /\ UNCHANGED <<poolVars, loops_, thread>>

(* A condition variable may wake up for no reason. *)
SpuriousWakeup ==
    /\ caller = "sleep"
    /\ caller' = "lock"
    /\ UNCHANGED <<poolVars, loop_inited_, loops_, threads_, thread>>

StartReturns ==
    /\ caller = "create"
    /\ Current >= thread_num_
    /\ caller' = "done"
    /\ UNCHANGED <<poolVars, loop_inited_, loops_, threads_, thread>>

WrappedEarly == IF next_loop_index_ + 1 >= thread_num_ THEN 0 ELSE next_loop_index_

(* The index getLoopForNewConnection uses. *)
Wrapped == IF next_loop_index_ >= thread_num_ THEN 0 ELSE next_loop_index_

(* newConnection on the base loop, which does not ask a pool of no thread. *)
GetLoopForNewConnection ==
    /\ caller = "done"
    /\ thread_num_ # 0
    /\ \E t \in Ids :
          /\ Wrapped < Len(loops_) => t = loops_[Wrapped + 1]
          /\ given[t] < MaxConns
          /\ given' = [given EXCEPT ![t] = @ + 1]
    /\ next_loop_index_' = Wrapped + 1
    /\ UNCHANGED <<started_, thread_num_, loop_inited_, loops_, threads_,
                   caller, thread>>

-----------------------------------------------------------------------------
(* A thread of the pool in threadLoop(). *)

PushLoop(t) ==
    /\ thread[t] = "boot"
    /\ loops_' = Append(loops_, t)
    /\ loop_inited_' = TRUE
    /\ thread' = [thread EXCEPT ![t] = "notify"]
    /\ UNCHANGED <<poolVars, threads_, caller>>

NotifyNobody(t) ==
    /\ thread[t] = "notify"
    /\ thread' = [thread EXCEPT ![t] = "loop"]
    /\ UNCHANGED <<poolVars, loop_inited_, loops_, threads_, caller>>

(* notify_one wakes the caller if it sleeps and does nothing otherwise;    *)
(* then thread_cb_ and loop().                                             *)
NotifyOne(t) ==
    /\ thread[t] = "notify"
    /\ caller' = IF caller = "sleep" THEN "lock" ELSE caller
    /\ thread' = [thread EXCEPT ![t] = "loop"]
    /\ UNCHANGED <<poolVars, loop_inited_, loops_, threads_>>

-----------------------------------------------------------------------------
CallerStep == CreateThread \/ Wait \/ StartReturns

ThreadStep(t) == PushLoop(t) \/ NotifyOne(t)

Next ==
    \/ CallerStep
    \/ Start
    \/ SpuriousWakeup
    \/ GetLoopForNewConnection
    \/ \E n \in 0 .. MaxThreads : SetThreadNumber(n)
    \/ \E t \in Ids : ThreadStep(t)

Spec == Init /\ [][Next]_vars

(* Every thread is scheduled.  Nothing makes a condition variable wake up  *)
(* by itself, and nobody has to call start().                              *)
FairSpec ==
    /\ Spec
    /\ WF_vars(CallerStep)
    /\ \A t \in Ids : WF_vars(ThreadStep(t))

-----------------------------------------------------------------------------
(* The caller waits for the thread it created last. *)
Waiting == caller \in {"lock", "sleep"}

(* start() and the threads it creates agree on who is next: at most one    *)
(* thread is on its way into loops_, it is the one the caller waits for,   *)
(* and loop_inited_ is raised for it and for no earlier one, however late  *)
(* the notification of an earlier thread comes.                            *)
Handshake ==
    /\ \A i \in 1 .. Len(threads_) : threads_[i] = i - 1
    /\ \A i \in 1 .. Len(loops_) : loops_[i] = i - 1
    /\ loop_inited_ => Len(loops_) = Current + 1 /\ Waiting
    /\ ~loop_inited_ => Len(loops_) = Current
    /\ \A t \in Ids :
          /\ t < Len(loops_) => thread[t] \in {"notify", "loop"}
          /\ t > Len(loops_) => thread[t] = "none"
          /\ t = Len(loops_) /\ Waiting /\ ~loop_inited_ => thread[t] = "boot"
          /\ t = Len(loops_) /\ (loop_inited_ \/ ~Waiting) => thread[t] = "none"

(* When start() has returned, every thread's loop is in loops_, once, so   *)
(* that getLoopForNewConnection, which takes no lock, reads a vector no    *)
(* thread writes any more; the number it wraps at is that of the loops.    *)
PoolComplete ==
    caller = "done" =>
        /\ Len(loops_) = thread_num_
        /\ \A t \in Ids : /\ thread[t] # "boot"
                          /\ t < thread_num_ => \E i \in DOMAIN loops_ : loops_[i] = t

(* "> is impossible" (getLoopForNewConnection): the index never passes the *)
(* number of threads, so the element it reads exists.                      *)
IndexInRange == next_loop_index_ <= thread_num_

(* Connections are dealt out evenly: two threads of the pool never differ  *)
(* by more than one connection.                                            *)
DealtEvenly ==
    \A s, t \in Ids : s < thread_num_ /\ t < thread_num_ => given[s] <= given[t] + 1

(* No notification is lost: when the caller sleeps although the loop it    *)
(* waits for is there, that thread has not notified yet.                   *)
SleeperIsNotified ==
    caller = "sleep" /\ loop_inited_ => thread[Current] = "notify"

(* What the proofs of module LoopThreadPoolProofs also need: how far the   *)
(* caller has come, and that nothing was dealt out before it was done, ... *)
Progress ==
    /\ started_ <=> caller # "before"
    /\ caller = "before" => Current = 0
    /\ caller = "done" => Current = thread_num_
    /\ Waiting => Current < thread_num_
    /\ started_ => Current <= thread_num_
    /\ caller # "done" => next_loop_index_ = 0

(* ... and that the threads below the index are one connection ahead.      *)
Dealt ==
    \E q \in Nat : \A t \in Ids : t < thread_num_ =>
        given[t] = IF t < next_loop_index_ THEN q + 1 ELSE q

NothingGiven == caller # "done" => \A t \in Ids : given[t] = 0

(* start() returns, without the help of spurious wakeups. *)
StartTerminates == caller = "create" ~> caller = "done"
=============================================================================
