---------------------------- MODULE MCClockSteps ----------------------------
(* Two timers of the loop's own thread, and a clock that is set once, by a *)
(* millisecond, forward or back.                                           *)
EXTENDS ClockSteps

CONSTANTS p1, loop

MCDelays == {1}

MCSteps == {-2, 2}

=============================================================================
