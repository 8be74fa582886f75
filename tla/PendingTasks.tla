---------------------------- MODULE PendingTasks ----------------------------
(***************************************************************************)
(* How a task reaches the thread of an EventLoop: queueInLoopThread, the   *)
(* BlockQueue of pending tasks, the eventfd of WakeUp and the skeleton of  *)
(* EventLoop::loop that reads the one and drains the other.                *)
(*                                                                         *)
(* Every method of BlockQueue holds mtx_ from its first to its last line,  *)
(* so each call is one step.  A write to or a read of the eventfd is one   *)
(* system call, hence one step.  Between two such steps of a thread every  *)
(* other thread may take any number of its own.                            *)
(***************************************************************************)
EXTENDS Naturals, Sequences

CONSTANTS
  Posters,      \* threads that hand tasks to the loop and are not its thread
  Loop,         \* the thread that runs EventLoop::loop
  MaxTasks,     \* bound: how many tasks one thread ever hands over
  MaxCounter    \* largest value the eventfd holds (2^64 - 2 on Linux)

ASSUME PendingTasksAssumption ==
  /\ Loop \notin Posters
  /\ MaxTasks \in Nat
  /\ MaxCounter \in Nat \ {0}

VARIABLES
  pendingTasks,  \* pendingTasks_->tasks_
  counter,       \* the counter of the eventfd wake_->fd_
  posterAt,      \* what each poster does: nothing, or about to call Signal
  loopAt,        \* the phase of the loop thread
  woken,         \* the wake channel is in activatedChannels_
  task,          \* task_, the task doPendingTask took off the queue
  asked,         \* asked[t]: how many tasks thread t has handed over
  ran            \* ran[t]: numbers of t's tasks that ran, oldest first

vars == <<pendingTasks, counter, posterAt, loopAt, woken, task, asked, ran>>

Threads == Posters \cup {Loop}
Task == [by : Posters, n : Nat]
NoTask == [by |-> Loop, n |-> 0]

(* setup     the thread that made the EventLoop has not called loop() yet  *)
(* wait      in Epoller::wait                                              *)
(* dispatch  running handleEvent of the activated channels                 *)
(* timers    in execExpiredTimesTask                                       *)
(* check     about to evaluate pendingTasks_->empty()                      *)
(* pop       about to evaluate pendingTasks_->try_pop(task_)               *)
(* task      running task_()                                               *)
Phases == {"setup", "wait", "dispatch", "timers", "check", "pop", "task"}

Init ==
  /\ pendingTasks = <<>>
  /\ counter = 0
  /\ posterAt = [p \in Posters |-> "idle"]
  /\ loopAt = "setup"
  /\ woken = FALSE
  /\ task = NoTask
  /\ asked = [t \in Threads |-> 0]
  /\ ran = [t \in Threads |-> <<>>]

-----------------------------------------------------------------------------
(* The threads that are not the loop thread.                               *)

(* Variant: the task is pushed and Signal is forgotten.                    *)
QueueInLoopThreadSilently(p) ==
  /\ posterAt[p] = "idle"
  /\ asked[p] < MaxTasks
  /\ asked' = [asked EXCEPT ![p] = @ + 1]
  /\ pendingTasks' = Append(pendingTasks, [by |-> p, n |-> asked[p] + 1])
  /\ UNCHANGED <<counter, posterAt, loopAt, woken, task, ran>>

(* queueInLoopThread from another thread: the task is pushed first and the *)
(* loop is woken by a separate step.                                       *)
QueueInLoopThread(p) ==
  /\ posterAt[p] = "idle"
  /\ asked[p] < MaxTasks
  /\ asked' = [asked EXCEPT ![p] = @ + 1]
  /\ pendingTasks' = Append(pendingTasks, [by |-> p, n |-> asked[p] + 1])
  /\ posterAt' = [posterAt EXCEPT ![p] = "signal"]
  /\ UNCHANGED <<counter, loopAt, woken, task, ran>>

(* WakeUp::Signal adds 1 to the eventfd.  While the counter is full the    *)
(* write fails with EAGAIN and is tried again, which changes nothing.      *)
Signal(p) ==
  /\ posterAt[p] = "signal"
  /\ counter < MaxCounter
  /\ counter' = counter + 1
  /\ posterAt' = [posterAt EXCEPT ![p] = "idle"]
  /\ UNCHANGED <<pendingTasks, loopAt, woken, task, asked, ran>>

-----------------------------------------------------------------------------
(* The loop thread.                                                        *)

(* Variant: the thread of the loop is taken for another one.               *)
RunInlineQueued ==
  /\ loopAt \in {"setup", "dispatch", "timers", "task"}
  /\ asked[Loop] < MaxTasks /\ counter < MaxCounter
  /\ asked' = [asked EXCEPT ![Loop] = @ + 1]
  /\ pendingTasks' = Append(pendingTasks, [by |-> Loop, n |-> asked[Loop] + 1])
  /\ counter' = counter + 1
  /\ UNCHANGED <<posterAt, loopAt, woken, task, ran>>

(* queueInLoopThread from the loop thread, before loop(), in a callback of *)
(* a channel or of a timer or in a task: the new task runs at once, ahead  *)
(* of whatever is queued.                                                  *)
RunInline ==
  /\ loopAt \in {"setup", "dispatch", "timers", "task"}
  /\ asked[Loop] < MaxTasks
  /\ asked' = [asked EXCEPT ![Loop] = @ + 1]
  /\ ran' = [ran EXCEPT ![Loop] = Append(@, asked[Loop] + 1)]
  /\ UNCHANGED <<pendingTasks, counter, posterAt, loopAt, woken, task>>

(* The thread calls loop(); other threads may hold the EventLoop already.  *)
StartLoop ==
  /\ loopAt = "setup"
  /\ loopAt' = "wait"
  /\ UNCHANGED <<pendingTasks, counter, posterAt, woken, task, asked, ran>>

(* epoll_wait reports the eventfd, which is readable.                      *)
PollWake ==
  /\ loopAt = "wait"
  /\ counter > 0
  /\ woken' = TRUE
  /\ loopAt' = "dispatch"
  /\ UNCHANGED <<pendingTasks, counter, posterAt, task, asked, ran>>

(* epoll_wait returns without the eventfd: a timeout, other channels only, *)
(* or EINTR.  activatedChannels_ was cleared before the call.              *)
PollOther ==
  /\ loopAt = "wait"
  /\ woken' = FALSE
  /\ loopAt' = "dispatch"
  /\ UNCHANGED <<pendingTasks, counter, posterAt, task, asked, ran>>

(* WakeUp::handleRead resets the eventfd; at 0 the read fails with EAGAIN  *)
(* and is tried again, so the step is enabled only above 0.                *)
HandleEvents ==
  /\ loopAt = "dispatch"
  /\ \/ woken /\ counter > 0 /\ counter' = 0
     \/ ~woken /\ UNCHANGED counter
  /\ loopAt' = "timers"
  /\ UNCHANGED <<pendingTasks, posterAt, woken, task, asked, ran>>

TimersDone ==
  /\ loopAt = "timers"
  /\ loopAt' = "check"
  /\ UNCHANGED <<pendingTasks, counter, posterAt, woken, task, asked, ran>>

(* Variant: the queue is not looked at before try_pop.                     *)
CheckPendingBlindly ==
  /\ loopAt = "check"
  /\ loopAt' = "pop"
  /\ UNCHANGED <<pendingTasks, counter, posterAt, woken, task, asked, ran>>

(* !pendingTasks_->empty(): the queue is unlocked again before try_pop.    *)
CheckPending ==
  /\ loopAt = "check"
  /\ loopAt' = IF pendingTasks = <<>> THEN "wait" ELSE "pop"
  /\ UNCHANGED <<pendingTasks, counter, posterAt, woken, task, asked, ran>>

(* Variant: try_pop takes the youngest task.                               *)
TryPopYoungest ==
  /\ loopAt = "pop"
  /\ pendingTasks # <<>>
  /\ task' = pendingTasks[Len(pendingTasks)]
  /\ pendingTasks' = SubSeq(pendingTasks, 1, Len(pendingTasks) - 1)
  /\ loopAt' = "task"
  /\ UNCHANGED <<counter, posterAt, woken, asked, ran>>

(* try_pop looks again under the lock and fails on an empty queue, which   *)
(* ends the while loop.                                                    *)
TryPop ==
  /\ loopAt = "pop"
  /\ task' = IF pendingTasks = <<>> THEN task ELSE Head(pendingTasks)
  /\ pendingTasks' = IF pendingTasks = <<>> THEN <<>> ELSE Tail(pendingTasks)
  /\ loopAt' = IF pendingTasks = <<>> THEN "wait" ELSE "task"
  /\ UNCHANGED <<counter, posterAt, woken, asked, ran>>

(* Variant: doPendingTask runs one task in a round.                        *)
RunOneTask ==
  /\ loopAt = "task"
  /\ ran' = [ran EXCEPT ![task.by] = Append(@, task.n)]
  /\ loopAt' = "wait"
  /\ UNCHANGED <<pendingTasks, counter, posterAt, woken, task, asked>>

(* task_() has run; control goes back to the condition of the while.       *)
RunTask ==
  /\ loopAt = "task"
  /\ ran' = [ran EXCEPT ![task.by] = Append(@, task.n)]
  /\ loopAt' = "check"
  /\ UNCHANGED <<pendingTasks, counter, posterAt, woken, task, asked>>

LoopStep ==
  \/ StartLoop
  \/ PollWake \/ HandleEvents \/ TimersDone \/ CheckPending \/ TryPop \/ RunTask

Next ==
  \/ \E p \in Posters : QueueInLoopThread(p) \/ Signal(p)
  \/ LoopStep
  \/ PollOther
  \/ RunInline

(* The threads are scheduled fairly.  Nothing obliges a client to hand     *)
(* over a task, nor a timeout or another descriptor to end the wait.       *)
Fairness ==
  /\ WF_vars(LoopStep)
  /\ \A p \in Posters : WF_vars(Signal(p))

SafeSpec == Init /\ [][Next]_vars
Spec == SafeSpec /\ Fairness

-----------------------------------------------------------------------------
(* The queue only ever holds tasks of other threads: what the loop's own   *)
(* thread hands over never waits behind them.                              *)
TypeOK ==
  /\ pendingTasks \in Seq(Task)
  /\ counter \in 0 .. MaxCounter
  /\ posterAt \in [Posters -> {"idle", "signal"}]
  /\ loopAt \in Phases
  /\ woken \in BOOLEAN
  /\ task \in Task \cup {NoTask}
  /\ asked \in [Threads -> 0 .. MaxTasks]
  /\ ran \in [Threads -> Seq(Nat)]

(* The loop never sleeps on a task: while it waits, or is about to for the *)
(* first time, with a task queued, the eventfd is readable or a poster is  *)
(* still on its way to Signal.  This is what the order push, then Signal,  *)
(* against read, then drain, is for.                                       *)
NoLostWakeup ==
  loopAt \in {"setup", "wait"} /\ pendingTasks # <<>> =>
    counter > 0 \/ \E p \in Posters : posterAt[p] = "signal"

(* WakeUp::handleRead retries on EAGAIN without end, so calling it with    *)
(* the eventfd at 0 would hang the loop.  It is called above 0 only: the   *)
(* loop thread is the only reader and activatedChannels_ holds no channel  *)
(* of an earlier round.                                                    *)
WakeReadNeverSpins == loopAt = "dispatch" /\ woken => counter > 0

(* What empty() said still holds when try_pop takes the lock again: other  *)
(* threads may only have added tasks in between.                           *)
PopFindsTask == loopAt = "pop" => pendingTasks # <<>>

(* The tasks of one thread run in the order that thread handed them over,  *)
(* none skipped and none twice; those of the loop thread run at once.      *)
InOrderOnce ==
  /\ \A t \in Threads : ran[t] = [i \in 1 .. Len(ran[t]) |-> i]
  /\ \A t \in Threads : Len(ran[t]) <= asked[t]
  /\ Len(ran[Loop]) = asked[Loop]

(* The whole of it: the mechanism implements the promise of Executor, the  *)
(* promise that every task is run included.                                *)
Exec == INSTANCE Executor WITH Clients <- Threads
ExecutorSpec == Exec!Spec

=============================================================================
