----------------------------- MODULE EventLoop ------------------------------
(***************************************************************************)
(* EventLoop::loop as a whole: the pending tasks and the eventfd of        *)
(* PendingTasks, the timers of TimerQueue, and the timeout with which      *)
(* Epoller::wait joins them.  A task, a callback of a channel or of a      *)
(* timer may set timers; timers end the wait through the timeout only.     *)
(***************************************************************************)
EXTENDS Integers, Sequences

CONSTANTS
  Posters, Loop, MaxTasks, MaxCounter,                              \* PendingTasks
  TicksPerMs, StartTimes, MaxTime, MaxTimers, Delays, Intervals, Timestamps,
                                                                    \* TimerQueue
  TimeoutBits   \* width of the int that epoll_wait takes

VARIABLES
  pendingTasks, counter, posterAt, loopAt, woken, task, asked, ran,
  now, timers, expirationTimers, timerAt, current, gId,
  alarm, fired, last, sampledId,
  timeout,      \* what the next epoll_wait is called with, in milliseconds
  deadline      \* when the running one times out

PT == INSTANCE PendingTasks
TQ == INSTANCE TimerQueue

taskVars == <<pendingTasks, counter, posterAt, loopAt, woken, task, asked, ran>>
timerVars ==
  <<now, timers, expirationTimers, timerAt, current, gId, alarm, fired, last, sampledId>>
vars == <<taskVars, timerVars, timeout, deadline>>

(* Those of PendingTasks and TimerQueue, and a power the provers know      *)
(* nothing of.                                                             *)
ASSUME EventLoopAssumption ==
  /\ Loop \notin Posters
  /\ MaxTasks \in Nat /\ MaxCounter \in Nat \ {0}
  /\ TicksPerMs \in Nat \ {0}
  /\ StartTimes \subseteq Nat /\ MaxTime \in Nat /\ MaxTimers \in Nat
  /\ Delays \subseteq Nat /\ Intervals \subseteq Nat \ {0} /\ Timestamps \subseteq Nat
  /\ TimeoutBits \in Nat \ {0} /\ 2 ^ (TimeoutBits - 1) \in Nat \ {0}

NotLooked == -2    \* the timeout of the next wait is not known yet
NotWaiting == -2   \* epoll_wait has not been called
Never == -1        \* it waits without a timeout

Waiting == deadline # NotWaiting

Init == PT!Init /\ TQ!Init /\ timeout = NotLooked /\ deadline = NotWaiting

-----------------------------------------------------------------------------
(* Time passes everywhere, as long as the loop likes to take.              *)
(* Bound: not so long between the look at the clock and the call that the  *)
(* wait would go past MaxTime.                                             *)
Tick ==
  /\ TQ!Tick
  /\ timeout > 0 => now + timeout * TicksPerMs < MaxTime
  /\ UNCHANGED <<taskVars, timeout, deadline>>

Post ==
  /\ \E p \in Posters : PT!QueueInLoopThread(p) \/ PT!Signal(p)
  /\ UNCHANGED <<timerVars, timeout, deadline>>

-----------------------------------------------------------------------------
(* The thread of the loop.                                                 *)

(* runAfter, runUntil or runEvery from the thread of the loop: the timer   *)
(* is in the queue when the call returns.                                  *)
RequestInline ==
  /\ loopAt = "timers" => timerAt = "callback"
  /\ PT!RunInline
  /\ TQ!Request
  /\ UNCHANGED <<timeout, deadline>>

(* The value an int holds after an int64_t was assigned to it.             *)
Narrow(ms) ==
  LET half == 2 ^ (TimeoutBits - 1) IN ((ms + half) % (2 * half)) - half

(* Epoller::wait looks at the clock; a negative timeout is taken for none. *)
LookAtClock ==
  /\ loopAt = "wait" /\ ~Waiting
  /\ timeout = NotLooked
  /\ LET exp == TQ!GetNextExpiredTime
         ms  == IF exp = TQ!Epoch THEN -1 ELSE Narrow(TQ!GetMillsecondsFromNow(exp))
     IN  timeout' = IF ms < 0 THEN Never ELSE ms
  /\ UNCHANGED <<taskVars, timerVars, deadline>>

(* It calls epoll_wait, which counts the timeout from the call.            *)
EnterWait ==
  /\ timeout # NotLooked
  /\ deadline' = IF timeout = Never THEN Never ELSE now + timeout * TicksPerMs
  /\ timeout' = NotLooked
  /\ UNCHANGED <<taskVars, timerVars>>

ReturnFromWait ==
  /\ Waiting
  /\ deadline' = NotWaiting
  /\ UNCHANGED <<timerVars, timeout>>

PollWake == PT!PollWake /\ ReturnFromWait

PollOther == PT!PollOther /\ ReturnFromWait

TimedOut == Waiting /\ deadline # Never /\ now >= deadline

PollTimeout == TimedOut /\ PollOther

(* Variant: a round in which a timer ran is begun again at its end.        *)
ExecExpiredTimesTaskOnly ==
  /\ loopAt = "timers"
  /\ \/ TQ!GetExpiredTimes /\ UNCHANGED taskVars
     \/ TQ!StartRun /\ UNCHANGED taskVars
     \/ TQ!FinishRun /\ UNCHANGED taskVars
     \/ /\ TQ!FinishBatch
        /\ loopAt' = IF \E i \in TQ!Ids : fired[i] > 0 /\ last[i] = now
                     THEN "wait" ELSE "check"
        /\ UNCHANGED <<pendingTasks, counter, posterAt, woken, task, asked, ran>>
  /\ UNCHANGED <<timeout, deadline>>

(* execExpiredTimesTask from its first line to its last.                   *)
ExecExpiredTimesTask ==
  /\ loopAt = "timers"
  /\ \/ TQ!GetExpiredTimes /\ UNCHANGED taskVars
     \/ TQ!StartRun /\ UNCHANGED taskVars
     \/ TQ!FinishRun /\ UNCHANGED taskVars
     \/ TQ!FinishBatch /\ PT!TimersDone
  /\ UNCHANGED <<timeout, deadline>>

(* A task of another thread may be the one that runAfter, runUntil or      *)
(* runEvery handed over.                                                   *)
RunTask ==
  /\ PT!RunTask
  /\ TQ!Request \/ UNCHANGED timerVars
  /\ UNCHANGED <<timeout, deadline>>

OtherStep ==
  /\ PT!StartLoop \/ PT!HandleEvents \/ PT!CheckPending \/ PT!TryPop
  /\ UNCHANGED <<timerVars, timeout, deadline>>

LoopStep ==
  \/ LookAtClock \/ EnterWait \/ PollWake \/ PollTimeout
  \/ ExecExpiredTimesTask \/ RunTask \/ OtherStep

Next == Tick \/ Post \/ LoopStep \/ PollOther \/ RequestInline

SafeSpec == Init /\ [][Next]_vars

-----------------------------------------------------------------------------
TypeOK ==
  /\ PT!TypeOK
  /\ TQ!TypeOK
  /\ timeout \in {NotLooked, Never} \cup Nat
  /\ deadline \in {NotWaiting, Never} \cup Nat
  /\ timeout # NotLooked => loopAt = "wait" /\ ~Waiting
  /\ Waiting => loopAt = "wait"

(* Timers take nothing away from the tasks, nor the other way round: every *)
(* task still runs, once and in order, however many timers are due and     *)
(* repeat.  Nothing but the eventfd has to end the wait for it.            *)
TasksRun == PT!ExecutorSpec

=============================================================================
