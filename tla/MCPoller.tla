------------------------------ MODULE MCPoller ------------------------------
(* Two channels, one of which may be refused, and an array that takes one  *)
(* event at first.                                                         *)
EXTENDS Poller

CONSTANTS c1, c2, none

MCCallbacksOf == [c \in {c1, c2} |-> IF c = c1 THEN {"read"} ELSE {"close", "read", "write"}]

MCReadiness == {{}, {"IN"}, {"OUT", "HUP"}}

=============================================================================
