---------------------------- MODULE MCTimerQueue ----------------------------
(* Three timers out of every mix of one-shot and repeating, due at once,   *)
(* later, at the same time or already past, with a clock that moves during *)
(* callbacks too.                                                          *)
EXTENDS TimerQueue

MCStartTimes == {2}
MCDelays == {0, 1}
MCIntervals == {1, 2}
MCTimestamps == {0, 3}

=============================================================================
