---------------------------- MODULE MCTimerQueue ----------------------------
(* Model values for TimerQueue: the timer objects are interchangeable      *)
(* (symmetry is used in safety runs only).                                 *)
EXTENDS TimerQueue, TLC

PastAndFuture == {-2, 2}

Symmetry == Permutations(Timers)
=============================================================================
