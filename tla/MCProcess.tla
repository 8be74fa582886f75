------------------------------ MODULE MCProcess ------------------------------
(* What belongs to the process as a whole.  Two threads make and destroy   *)
(* their servers, with five descriptors where two of these need eight, and *)
(* two threads set up the logger.  Neither part has a variable of the      *)
(* other, so each is explored with the other at rest: the steps of both,   *)
(* mixed, would show no state of either that is not shown so.              *)
EXTENDS Server, MCInitLogger, TLC

CONSTANT none

MCFd == 0 .. 4

ThreadSymmetry == Permutations({t1, t2})

ProcessInit == Init /\ LoggerInit

ProcessNext ==
  \/ /\ calls = 0
     /\ Next
     /\ UNCHANGED loggerVars
  \/ /\ ~terminated /\ \A f \in Fd : owner[f] = Free
     /\ \A t \in Thread : at[t] = "out" /\ local[t] = NoThread
     /\ LoggerNext
     /\ UNCHANGED vars

ProcessSpec == ProcessInit /\ [][ProcessNext]_<<vars, loggerVars>>

=============================================================================
