--------------------------- MODULE MCListenSocket ---------------------------
(* Four descriptors: the socket, the reserve, and two for connections and  *)
(* the rest of the process, so that the table is often full.               *)
EXTENDS ListenSocket

CONSTANT none

MCFd == 0 .. 3

=============================================================================
