------------------------------ MODULE Executor ------------------------------
(***************************************************************************)
(* What EventLoop::queueInLoopThread promises its callers, with no queue,  *)
(* no eventfd and no poller in sight: every client hands over tasks, and   *)
(* the tasks of one client are run once each, in the order in which that   *)
(* client handed them over.  Nothing is promised about the relative order  *)
(* of the tasks of different clients.                                      *)
(***************************************************************************)
EXTENDS Naturals, Sequences

CONSTANT Clients

VARIABLES
  asked,   \* asked[c]: how many tasks client c has handed over
  ran      \* ran[c]:   the numbers of c's tasks that were run, oldest first

vars == <<asked, ran>>

Init ==
  /\ asked = [c \in Clients |-> 0]
  /\ ran = [c \in Clients |-> <<>>]

Ask(c) ==
  /\ asked' = [asked EXCEPT ![c] = @ + 1]
  /\ UNCHANGED ran

Run(c) ==
  /\ Len(ran[c]) < asked[c]
  /\ ran' = [ran EXCEPT ![c] = Append(@, Len(@) + 1)]
  /\ UNCHANGED asked

(* A client that is the loop thread itself has the task run before its     *)
(* call returns, so it never has a task outstanding.                       *)
AskAndRun(c) ==
  /\ Len(ran[c]) = asked[c]
  /\ asked' = [asked EXCEPT ![c] = @ + 1]
  /\ ran' = [ran EXCEPT ![c] = Append(@, Len(@) + 1)]

Next == \E c \in Clients : Ask(c) \/ Run(c) \/ AskAndRun(c)

SafeSpec == Init /\ [][Next]_vars

Spec == SafeSpec /\ \A c \in Clients : WF_vars(Run(c))

=============================================================================
