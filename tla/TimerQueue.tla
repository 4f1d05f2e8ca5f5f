----------------------------- MODULE TimerQueue -----------------------------
(***************************************************************************)
(* TimerQueue: two multimaps of timers, those that fire once and those     *)
(* that repeat, and one timerfd armed for the earliest of them.  When the  *)
(* timerfd expires, poll() reports it and handleRead runs the callbacks of *)
(* the timers that are due, re-enters the repeating ones and arms the      *)
(* timerfd again.                                                          *)
(*                                                                         *)
(* Time is a counter that the environment advances between any two steps.  *)
(* It stands for the system clock, which timers are compared with, and for *)
(* the monotonic clock of the timerfd; the two are assumed to run evenly.  *)
(* A multimap is the sequence of its timers in iteration order (the key of *)
(* a timer is its expiration()).  Callbacks may add timers, which happens  *)
(* in place, and delete timers, which is always queued.                    *)
(***************************************************************************)
EXTENDS Integers, Sequences

CONSTANTS
    Timers,             \* Timer objects (their number is the bound)
    NoTimer,            \* end() of a multimap, and no timer
    Delays,             \* for runAt and runAfter; negative: a time in the past
    Intervals,          \* for runEvery
    RunEveryInCallback, \* callbacks of runEvery call runEvery too
    TickStep,           \* the clock advances in steps of this size ...
    MaxTime,            \* ... up to this bound
    Skew,               \* the application reads it so much after a step
    Forever             \* TimePoint::max()

ASSUME TimerAssumption ==
    /\ NoTimer \notin Timers
    /\ Delays \subseteq Int
    /\ Intervals \subseteq Nat \ {0}
    /\ RunEveryInCallback \in BOOLEAN
    /\ TickStep \in Nat \ {0}
    /\ MaxTime \in Nat
    /\ Skew \in Nat
    /\ Forever \in Nat /\ MaxTime < Forever
    /\ \A d \in Delays \cup Intervals : MaxTime + Skew + d < Forever

VARIABLES
    clock,
    timer,              \* per timer: expiration_, duration_, whether it was
                        \* created, and (history) its first expiration
    once,               \* timer_map_once_
    repeat,             \* timer_map_repeat_
    min_expiration_,
    deadline,           \* when the timerfd expires (Forever: disarmed)
    active,             \* poll() reported the timerfd
    stage,              \* where the loop is in handleRead
    now,                \* the variable now of handleRead
    todo,               \* to_delete, what is left of it
    upper,              \* upper_it of the second half
    cur,                \* the timer whose callback runs
    to_update,
    tasks,              \* queued addTimerInLoop and deleteTimerInLoop
    fires,              \* history: how often each callback was called
    deleted             \* history: timers that deleteTimerInLoop was run for

vars == <<clock, timer, once, repeat, min_expiration_, deadline, active, stage,
          now, todo, upper, cur, to_update, tasks, fires, deleted>>
queueVars  == <<timer, once, repeat, min_expiration_, deadline>>
handleVars == <<active, stage, now, todo, upper, cur, to_update>>

Stages == {"idle", "once", "repeat"}

TypeOK ==
    /\ clock \in 0 .. MaxTime
    /\ timer \in [Timers -> [created : BOOLEAN, expiration : Int, first : Int,
                           duration : Nat]]
    /\ once \in Seq(Timers)
    /\ repeat \in Seq(Timers)
    /\ min_expiration_ \in Int
    /\ deadline \in Int
    /\ active \in BOOLEAN
    /\ stage \in Stages
    /\ now \in 0 .. MaxTime
    /\ todo \in Seq(Timers)
    /\ upper \in Timers \cup {NoTimer}
    /\ cur \in Timers \cup {NoTimer}
    /\ to_update \in Seq(Timers)
    /\ tasks \in Seq([op : {"add", "delete"}, t : Timers])
    /\ fires \in [Timers -> Nat]
    /\ deleted \in SUBSET Timers

Init ==
    /\ clock = 0
    /\ timer = [t \in Timers |-> [created |-> FALSE, expiration |-> 0, first |-> 0,
                                  duration |-> 0]]
    /\ once = <<>>
    /\ repeat = <<>>
    /\ min_expiration_ = Forever
    /\ deadline = Forever
    /\ active = FALSE
    /\ stage = "idle"
    /\ now = 0
    /\ todo = <<>>
    /\ upper = NoTimer
    /\ cur = NoTimer
    /\ to_update = <<>>
    /\ tasks = <<>>
    /\ fires = [t \in Timers |-> 0]
    /\ deleted = {}

-----------------------------------------------------------------------------
(* Multimaps: the place of the first timer of s after time e, one past the *)
(* last if there is none; the timers before that place, and from it on.    *)
(* Insertion keeps the order and comes after equal keys.                   *)
UpperBound(s, tm, e) ==
    CHOOSE i \in 1 .. Len(s) + 1 :
        /\ i <= Len(s) => tm[s[i]].expiration > e
        /\ \A j \in 1 .. i - 1 : tm[s[j]].expiration <= e

DueSoon(s, tm, e) == SubSeq(s, 1, UpperBound(s, tm, e + 1) - 1)
Due(s, tm, e)     == SubSeq(s, 1, UpperBound(s, tm, e) - 1)
Later(s, tm, e)   == SubSeq(s, UpperBound(s, tm, e), Len(s))
Insert(s, tm, t)  ==
    Due(s, tm, tm[t].expiration) \o <<t>> \o Later(s, tm, tm[t].expiration)

(* The key of *begin(), or TimePoint::max(). *)
FirstKey(s, tm) == IF s = <<>> THEN Forever ELSE tm[Head(s)].expiration

Earlier(x, y) == IF x < y THEN x ELSE y

(* resetTimerfd with the multimaps o and r.  A time in the past becomes    *)
(* ten nanoseconds, that is now; a zero it_value disarms the timerfd.      *)
ArmedFor(e) ==
    IF e < clock THEN clock ELSE IF e = clock THEN Forever ELSE e

EarliestOnce(o, r, tm) == FirstKey(o, tm)
Earliest(o, r, tm) == Earlier(FirstKey(o, tm), FirstKey(r, tm))

ResetTimerfd(o, r, tm) ==
    /\ min_expiration_' = Earliest(o, r, tm)
    /\ deadline' = IF min_expiration_' = Forever THEN deadline
                   ELSE ArmedFor(min_expiration_')

RearmsIfEmpty(e) == min_expiration_ = Forever

(* Whether a new timer sets the timerfd again. *)
Rearms(e) == e < min_expiration_

(* addTimerInLoop *)
AddTimerInLoop(t, tm) ==
    /\ once' = IF tm[t].duration = 0 THEN Insert(once, tm, t) ELSE once
    /\ repeat' = IF tm[t].duration = 0 THEN repeat ELSE Insert(repeat, tm, t)
    /\ IF Rearms(tm[t].expiration)
       THEN ResetTimerfd(once', repeat', tm)
       ELSE UNCHANGED <<min_expiration_, deadline>>

-----------------------------------------------------------------------------
(* The application. *)

(* runAt, runAfter (interval 0) and runEvery construct a Timer. *)
Requests == {[delay |-> d, interval |-> 0] : d \in Delays}
              \cup {[delay |-> i, interval |-> i] : i \in Intervals}

NewTimer(t, q) ==
    /\ ~timer[t].created
    /\ timer' = [timer EXCEPT ![t] = [created |-> TRUE,
                    expiration |-> clock + Skew + q.delay,
                    first |-> clock + Skew + q.delay, duration |-> q.interval]]

(* addTimer by the loop's thread: in a callback of a timer, or anywhere    *)
(* else outside handleRead.                                                *)
AddInPlace(t, q) ==
    /\ stage # "idle" => cur # NoTimer
    /\ stage = "repeat" => q.interval = 0 \/ RunEveryInCallback
    /\ NewTimer(t, q)
    /\ AddTimerInLoop(t, timer')
    /\ UNCHANGED <<clock, handleVars, tasks, fires, deleted>>

(* addTimer by another thread. *)
AddFromThread(t, q) ==
    /\ NewTimer(t, q)
    /\ tasks' = Append(tasks, [op |-> "add", t |-> t])
    /\ UNCHANGED <<clock, once, repeat, min_expiration_, deadline, handleVars,
                   fires, deleted>>

(* deleteTimer, for a timer of runEvery, by any thread. *)
DeleteTimer(t) ==
    /\ timer[t].created /\ timer[t].duration # 0
    /\ \A i \in DOMAIN tasks : tasks[i] # [op |-> "delete", t |-> t]
    /\ t \notin deleted
    /\ tasks' = Append(tasks, [op |-> "delete", t |-> t])
    /\ UNCHANGED <<clock, queueVars, handleVars, fires, deleted>>

TasksAnytime == TRUE

(* doTheTasks comes after the handlers of the round. *)
TasksTurn == stage = "idle" /\ ~active

(* It runs addTimerInLoop ... *)
RunAdd ==
    /\ TasksTurn
    /\ tasks # <<>> /\ Head(tasks).op = "add"
    /\ AddTimerInLoop(Head(tasks).t, timer)
    /\ tasks' = Tail(tasks)
    /\ UNCHANGED <<clock, timer, handleVars, fires, deleted>>

(* timer_map_repeat_ without t. *)
Erased(t) ==
    IF \E i \in DOMAIN repeat : repeat[i] = t
    THEN LET i == CHOOSE i \in DOMAIN repeat : repeat[i] = t
         IN  SubSeq(repeat, 1, i - 1) \o SubSeq(repeat, i + 1, Len(repeat))
    ELSE repeat

(* ... or deleteTimerInLoop, which looks among the timers that repeat from *)
(* the timer's expiration on.                                              *)
RunDelete ==
    /\ TasksTurn
    /\ tasks # <<>> /\ Head(tasks).op = "delete"
    /\ LET t == Head(tasks).t IN
         /\ repeat' = Erased(t)
         /\ deleted' = deleted \cup {t}
    /\ tasks' = Tail(tasks)
    /\ UNCHANGED <<clock, timer, once, min_expiration_, deadline, handleVars, fires>>

-----------------------------------------------------------------------------
(* The loop. *)

Ready == deadline <= clock

(* poll() reports the timerfd. *)
Poll ==
    /\ stage = "idle" /\ ~active
    /\ Ready
    /\ active' = TRUE
    /\ UNCHANGED <<clock, queueVars, stage, now, todo, upper, cur, to_update, tasks,
                   fires, deleted>>

(* handleRead: the read disarms an expired timerfd (and fails if a handler *)
(* of this round has set it again); the timers of timer_map_once_ that are *)
(* due are taken out ...                                                   *)
HandleRead ==
    /\ active
    /\ active' = FALSE
    /\ deadline' = IF Ready THEN Forever ELSE deadline
    /\ now' = clock
    /\ todo' = Due(once, timer, clock)
    /\ once' = Later(once, timer, clock)
    /\ stage' = "once"
    /\ UNCHANGED <<clock, timer, repeat, min_expiration_, upper, cur, to_update,
                   tasks, fires, deleted>>

(* ... and called one after the other. *)
CallOnce ==
    /\ stage = "once" /\ cur = NoTimer
    /\ todo # <<>>
    /\ cur' = Head(todo)
    /\ todo' = Tail(todo)
    /\ fires' = [fires EXCEPT ![Head(todo)] = @ + 1]
    /\ UNCHANGED <<clock, queueVars, active, stage, now, upper, to_update, tasks, deleted>>

(* What ++it reaches from t, and where the loop starts (t = NoTimer). *)
Following(t) ==
    LET i == IF t = NoTimer THEN 0 ELSE CHOOSE i \in DOMAIN repeat : repeat[i] = t
    IN  IF i < Len(repeat) THEN repeat[i + 1] ELSE NoTimer

(* The second half of handleRead: upper_it is looked up once, and inserts  *)
(* do not move it.                                                         *)
StartRepeat ==
    LET i == UpperBound(repeat, timer, now) IN
    /\ stage = "once" /\ cur = NoTimer
    /\ todo = <<>>
    /\ upper' = IF i > Len(repeat) THEN NoTimer ELSE repeat[i]
    /\ stage' = "repeat"
    /\ UNCHANGED <<clock, queueVars, active, now, todo, cur, to_update, tasks, fires,
                   deleted>>

LastUpdated == IF to_update = <<>> THEN NoTimer ELSE to_update[Len(to_update)]

CallRepeat ==
    /\ stage = "repeat" /\ cur = NoTimer
    /\ Following(LastUpdated) # upper
    /\ cur' = Following(LastUpdated)
    /\ fires' = [fires EXCEPT ![cur'] = @ + 1]
    /\ UNCHANGED <<clock, queueVars, active, stage, now, todo, upper, to_update, tasks,
                   deleted>>

(* A callback returns; one of the second half goes to to_update. *)
Return ==
    /\ cur # NoTimer
    /\ cur' = NoTimer
    /\ to_update' = IF stage = "repeat" THEN Append(to_update, cur) ELSE to_update
    /\ UNCHANGED <<clock, queueVars, active, stage, now, todo, upper, tasks, fires,
                   deleted>>

FromAfterUpper ==
    IF upper = NoTimer THEN <<>>
    ELSE LET i == CHOOSE i \in DOMAIN repeat : repeat[i] = upper
         IN  SubSeq(repeat, i + 1, Len(repeat))

(* The timers from upper_it on. *)
FromUpper ==
    IF upper = NoTimer THEN <<>>
    ELSE LET i == CHOOSE i \in DOMAIN repeat : repeat[i] = upper
         IN  SubSeq(repeat, i, Len(repeat))

NextFromNow(t) == clock + timer[t].duration
NextExpiration(t) == timer[t].expiration + timer[t].duration

(* Timer::timerUpdate of all of to_update *)
Updated ==
    [t \in Timers |->
        IF \E i \in DOMAIN to_update : to_update[i] = t
        THEN [timer[t] EXCEPT !.expiration = NextExpiration(t)] ELSE timer[t]]

(* The timers of u inserted into s, one after the other. *)
InsertAll(s, tm, u) ==
    LET with[n \in 0 .. Len(u)] ==
            IF n = 0 THEN s ELSE Insert(with[n - 1], tm, u[n])
    IN  with[Len(u)]

(* Erase up to upper_it, update and insert again, and arm the timerfd. *)
EndHandleRead ==
    /\ stage = "repeat" /\ cur = NoTimer
    /\ Following(LastUpdated) = upper
    /\ timer' = Updated
    /\ repeat' = InsertAll(FromUpper, timer', to_update)
    /\ ResetTimerfd(once, repeat', timer')
    /\ stage' = "idle"
    /\ upper' = NoTimer
    /\ to_update' = <<>>
    /\ UNCHANGED <<clock, once, active, now, todo, cur, tasks, fires, deleted>>

Tick ==
    /\ clock + TickStep <= MaxTime
    /\ clock' = clock + TickStep
    /\ UNCHANGED <<queueVars, handleVars, tasks, fires, deleted>>

-----------------------------------------------------------------------------
LoopStep ==
    \/ Poll \/ HandleRead \/ CallOnce \/ StartRepeat \/ CallRepeat \/ Return
    \/ EndHandleRead

Next ==
    \/ LoopStep \/ RunAdd \/ RunDelete
    \/ Tick
    \/ \E t \in Timers :
          \/ \E q \in Requests : AddInPlace(t, q) \/ AddFromThread(t, q)
          \/ DeleteTimer(t)

Spec == Init /\ [][Next]_vars

(* Time passes, poll() reports the timerfd when it has expired, the loop's *)
(* thread is scheduled, and callbacks return.  That a queued addTimer or   *)
(* deleteTimer wakes the loop is not assumed.                              *)
FairSpec == Spec /\ WF_vars(LoopStep) /\ WF_vars(Tick)

-----------------------------------------------------------------------------
In(t, s) == \E i \in DOMAIN s : s[i] = t

(* No callback is called before its time. *)
NoEarlyFire == cur # NoTimer => timer[cur].expiration <= clock

(* Outside handleRead the timerfd is armed no later than for the earliest  *)
(* timer: min_expiration_, which decides whether a new timer resets it, is *)
(* never earlier than what it is armed for, even when the timer it was set *)
(* for has been deleted.                                                   *)
TimerfdArmed ==
    stage = "idle" /\ ~active =>
        \A t \in Timers : In(t, once) \/ In(t, repeat) =>
            Ready \/ deadline <= timer[t].expiration

(* A timer that deleteTimerInLoop was run for is gone: it is in no map and *)
(* not about to be re-entered, also when its own callback deleted it.      *)
DeletedIsGone ==
    \A t \in deleted : ~In(t, repeat) /\ ~In(t, to_update) /\ cur # t

(* runAt and runAfter call once; a timer of runEvery is moved by exactly   *)
(* one interval for every call, however late handleRead comes.             *)
NoDrift ==
    \A t \in Timers :
        /\ timer[t].duration = 0 => fires[t] <= 1
        /\ stage = "idle" /\ timer[t].duration # 0 =>
              timer[t].expiration = timer[t].first + fires[t] * timer[t].duration

(* The second half of handleRead erases no timer without calling it, and   *)
(* calls every timer that was due when it looked at the clock.             *)
DueIsCalled ==
    [][stage = "repeat" /\ stage' = "idle" =>
         \A t \in Timers : In(t, repeat) =>
            /\ In(t, repeat')
            /\ timer[t].expiration <= now => In(t, to_update)]_vars

(* Every timer that addTimerInLoop entered is called when its time comes,  *)
(* or deleted before: the timerfd alone wakes the loop.                    *)
TimerFires ==
    \A t \in Timers : \A e \in 0 .. MaxTime :
        (In(t, once) \/ In(t, repeat)) /\ timer[t].expiration = e
          ~> \/ timer[t].duration = 0 /\ fires[t] = 1
             \/ timer[t].expiration # e
             \/ t \in deleted
=============================================================================
