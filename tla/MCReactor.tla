----------------------------- MODULE MCReactor ------------------------------
(* Two posters of two tasks, the wake-up and one other channel, which its  *)
(* user enables for reading; an array that takes one event at first, and   *)
(* an eventfd that is full at 2.                                           *)
EXTENDS Reactor

CONSTANTS p1, p2, loop, wake, c1, none

MCPosters == {p1, p2}

MCCallbacksOf == [c \in {wake, c1} |-> {"read"}]

MCReadiness == {{}, {"IN"}}

MCUserKinds == {{"IN", "HUP"}}

=============================================================================
