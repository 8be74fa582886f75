---------------------------- MODULE ReactorProofs ----------------------------
(***************************************************************************)
(* Proofs about PendingTasks, for any set of posters and any bounds, and   *)
(* about Reactor, for any other channels besides: each step of Reactor is  *)
(* a step of PendingTasks or a stutter, and one of Poller or a stutter, so *)
(* what is proved of either holds of both together, and epoll has the      *)
(* eventfd to report whenever the loop must not sleep.                     *)
(***************************************************************************)
EXTENDS Reactor, SequenceTheorems, TLAPS

PP == INSTANCE PollerProofs WITH loopAt <- pollAt, ready <- Ready

-----------------------------------------------------------------------------
(* Type correctness.                                                       *)

LEMMA TypeInit == Init => TypeOK
<1> SUFFICES ASSUME Init PROVE TypeOK
  OBVIOUS
<1>1. asked \in [Threads -> 0 .. MaxTasks] /\ ran \in [Threads -> Seq(Nat)]
  BY PendingTasksAssumption DEF Init
<1>2. pendingTasks \in Seq(Task) /\ counter \in 0 .. MaxCounter
  BY PendingTasksAssumption DEF Init
<1>3. posterAt \in [Posters -> {"idle", "signal"}]
  BY DEF Init
<1> QED
  BY <1>1, <1>2, <1>3 DEF Init, TypeOK, Phases

LEMMA TypeNext == TypeOK /\ [Next]_vars => TypeOK'
<1> SUFFICES ASSUME TypeOK, [Next]_vars PROVE TypeOK'
  OBVIOUS
<1> USE PendingTasksAssumption DEF TypeOK
<1>1. ASSUME NEW p \in Posters, QueueInLoopThread(p) PROVE TypeOK'
  <2>1. p \in Threads
    BY DEF Threads
  <2>2. [by |-> p, n |-> asked[p] + 1] \in Task
    BY <2>1 DEF Task
  <2>3. pendingTasks' \in Seq(Task)
    BY <1>1, <2>2 DEF QueueInLoopThread
  <2>4. asked' \in [Threads -> 0 .. MaxTasks]
    BY <1>1, <2>1 DEF QueueInLoopThread
  <2> QED
    BY <1>1, <2>3, <2>4 DEF QueueInLoopThread
<1>2. ASSUME NEW p \in Posters, Signal(p) PROVE TypeOK'
  BY <1>2 DEF Signal
<1>3. CASE RunInline
  <2>1. Loop \in Threads
    BY DEF Threads
  <2>2. asked' \in [Threads -> 0 .. MaxTasks] /\ ran' \in [Threads -> Seq(Nat)]
    BY <1>3, <2>1 DEF RunInline
  <2> QED
    BY <1>3, <2>2 DEF RunInline
<1>4. CASE PollWake
  BY <1>4 DEF PollWake, Phases
<1>5. CASE PollOther
  BY <1>5 DEF PollOther, Phases
<1>6. CASE HandleEvents
  BY <1>6 DEF HandleEvents, Phases
<1>7. CASE TimersDone
  BY <1>7 DEF TimersDone, Phases
<1>8. CASE CheckPending
  BY <1>8 DEF CheckPending, Phases
<1>9. CASE TryPop
  <2>1. pendingTasks' \in Seq(Task) /\ task' \in Task \cup {NoTask}
    BY <1>9, HeadTailProperties DEF TryPop
  <2> QED
    BY <1>9, <2>1 DEF TryPop, Phases
<1>10. CASE RunTask
  <2>1. task.by \in Threads /\ task.n \in Nat
    BY DEF Task, NoTask, Threads
  <2>2. ran' \in [Threads -> Seq(Nat)]
    BY <1>10, <2>1 DEF RunTask
  <2> QED
    BY <1>10, <2>2 DEF RunTask, Phases
<1>11. CASE StartLoop
  BY <1>11 DEF StartLoop, Phases
<1>12. CASE UNCHANGED vars
  BY <1>12 DEF vars
<1> QED
  BY <1>1, <1>2, <1>3, <1>4, <1>5, <1>6, <1>7, <1>8, <1>9, <1>10, <1>11, <1>12
     DEF Next, LoopStep

(* Every variable keeps to its type; in particular no thread pushes the    *)
(* eventfd past the value the kernel allows.                               *)
THEOREM TypeCorrect == SafeSpec => []TypeOK
BY TypeInit, TypeNext, PTL DEF SafeSpec

-----------------------------------------------------------------------------
(* Waking the loop.                                                        *)

Waking == NoLostWakeup /\ WakeReadNeverSpins /\ PopFindsTask

LEMMA WakingNext == TypeOK /\ Waking /\ [Next]_vars => Waking'
<1> SUFFICES ASSUME TypeOK, Waking, [Next]_vars PROVE Waking'
  OBVIOUS
<1> USE DEF Waking, NoLostWakeup, WakeReadNeverSpins, PopFindsTask, TypeOK
<1>1. ASSUME NEW p \in Posters, QueueInLoopThread(p) PROVE Waking'
  <2>1. posterAt'[p] = "signal"
    BY <1>1 DEF QueueInLoopThread
  <2>2. p \in Threads /\ asked[p] \in Nat
    BY PendingTasksAssumption DEF Threads
  <2>3. [by |-> p, n |-> asked[p] + 1] \in Task
    BY <2>2 DEF Task
  <2>4. pendingTasks' # <<>>
    BY <1>1, <2>3 DEF QueueInLoopThread
  <2> QED
    BY <1>1, <2>1, <2>4 DEF QueueInLoopThread
<1>2. ASSUME NEW p \in Posters, Signal(p) PROVE Waking'
  <2>1. counter' > 0
    BY <1>2, PendingTasksAssumption DEF Signal
  <2> QED
    BY <1>2, <2>1 DEF Signal
<1>3. CASE RunInline
  BY <1>3 DEF RunInline
<1>4. CASE PollWake
  BY <1>4 DEF PollWake
<1>5. CASE PollOther
  BY <1>5 DEF PollOther
<1>6. CASE HandleEvents
  BY <1>6 DEF HandleEvents
<1>7. CASE TimersDone
  BY <1>7 DEF TimersDone
<1>8. CASE CheckPending
  BY <1>8 DEF CheckPending
<1>9. CASE TryPop
  BY <1>9 DEF TryPop
<1>10. CASE RunTask
  BY <1>10 DEF RunTask
<1>11. CASE StartLoop
  BY <1>11 DEF StartLoop
<1>12. CASE UNCHANGED vars
  BY <1>12 DEF vars
<1> QED
  BY <1>1, <1>2, <1>3, <1>4, <1>5, <1>6, <1>7, <1>8, <1>9, <1>10, <1>11, <1>12
     DEF Next, LoopStep

LEMMA WakingInvariant == SafeSpec => []Waking
<1>1. Init => Waking
  BY DEF Init, Waking, NoLostWakeup, WakeReadNeverSpins, PopFindsTask
<1>2. SafeSpec => []TypeOK
  BY TypeInit, TypeNext, PTL DEF SafeSpec
<1> QED
  BY <1>1, <1>2, WakingNext, PTL DEF SafeSpec

(* The loop thread never sleeps on a queued task that nobody is about to   *)
(* signal, however many threads hand over tasks.                           *)
THEOREM NoLostWakeupHolds == SafeSpec => []NoLostWakeup
BY WakingInvariant, PTL DEF Waking

(* WakeUp::handleRead never meets an eventfd at 0, so its retry loop ends. *)
THEOREM WakeReadNeverSpinsHolds == SafeSpec => []WakeReadNeverSpins
BY WakingInvariant, PTL DEF Waking

(* try_pop always finds the task that empty() saw.                         *)
THEOREM PopFindsTaskHolds == SafeSpec => []PopFindsTask
BY WakingInvariant, PTL DEF Waking

-----------------------------------------------------------------------------
(***************************************************************************)
(* Order and the promise of Executor.  InOrderOnce is not inductive: it    *)
(* says nothing of the tasks that are still queued.  Owed does.            *)
(***************************************************************************)

Ran(t) == Len(ran[t])
InHand(p, k) == loopAt = "task" /\ task = [by |-> p, n |-> k]
Queued(p, k) == \E i \in 1 .. Len(pendingTasks) :
                   pendingTasks[i] = [by |-> p, n |-> k]

(* The task in hand is the next one of its thread.                         *)
HandNext ==
  loopAt = "task" => /\ task \in Task
                     /\ task.n = Ran(task.by) + 1
                     /\ task.n <= asked[task.by]

(* A queued task was handed over, has not run and is not in hand.          *)
QueuedOwed ==
  \A i \in 1 .. Len(pendingTasks) :
    /\ Ran(pendingTasks[i].by) < pendingTasks[i].n
    /\ pendingTasks[i].n <= asked[pendingTasks[i].by]
    /\ loopAt = "task" /\ task.by = pendingTasks[i].by =>
         task.n < pendingTasks[i].n

(* The queued tasks of one thread are in the order it pushed them.         *)
QueuedInOrder ==
  \A i, j \in 1 .. Len(pendingTasks) :
    i < j /\ pendingTasks[i].by = pendingTasks[j].by =>
      pendingTasks[i].n < pendingTasks[j].n

(* A task that was handed over and has not run is in hand or queued.       *)
NothingLost ==
  \A p \in Posters : \A k \in (Ran(p) + 1) .. asked[p] :
    InHand(p, k) \/ Queued(p, k)

Owed == HandNext /\ QueuedOwed /\ QueuedInOrder /\ NothingLost
OrderInv == InOrderOnce /\ Owed

LEMMA OrderInit == Init => OrderInv
<1> SUFFICES ASSUME Init PROVE OrderInv
  OBVIOUS
<1>1. \A t \in Threads : ran[t] = <<>> /\ asked[t] = 0
  BY DEF Init
<1>2. Loop \in Threads /\ Posters \subseteq Threads
  BY DEF Threads
<1>3. InOrderOnce
  BY <1>1, <1>2 DEF InOrderOnce
<1>4. HandNext /\ QueuedOwed /\ QueuedInOrder
  BY DEF Init, HandNext, QueuedOwed, QueuedInOrder
<1>5. NothingLost
  BY <1>1, <1>2 DEF NothingLost, Ran
<1> QED
  BY <1>3, <1>4, <1>5 DEF OrderInv, Owed

(* A thread pushes a task behind all of its own.                           *)
LEMMA OrderQueue ==
  ASSUME TypeOK, OrderInv, NEW p \in Posters, QueueInLoopThread(p)
  PROVE  OrderInv'
<1> DEFINE new == [by |-> p, n |-> asked[p] + 1]
           last == Len(pendingTasks) + 1
<1> USE DEF TypeOK, OrderInv, Owed
<1>1. p \in Threads /\ p # Loop /\ Loop \in Threads
  BY PendingTasksAssumption DEF Threads
<1>2. asked[p] \in Nat /\ Ran(p) \in Nat /\ Ran(p) <= asked[p]
  BY <1>1, PendingTasksAssumption DEF InOrderOnce, Ran
<1>3. /\ asked' = [asked EXCEPT ![p] = asked[p] + 1]
      /\ pendingTasks' = Append(pendingTasks, new)
      /\ UNCHANGED <<loopAt, task, ran>>
  BY <1>1 DEF QueueInLoopThread
<1>4. new \in Task
  BY <1>2 DEF Task
<1>5. /\ Len(pendingTasks') = last /\ pendingTasks'[last] = new
      /\ \A i \in 1 .. Len(pendingTasks) : pendingTasks'[i] = pendingTasks[i]
      /\ Len(pendingTasks) \in Nat
  BY <1>3, <1>4, AppendProperties
<1>6. \A t \in Threads : /\ asked'[t] \in Nat /\ asked[t] \in Nat
                         /\ asked'[t] = IF t = p THEN asked[p] + 1 ELSE asked[t]
                         /\ asked[t] <= asked'[t]
  <2>1. \A t \in Threads : asked[t] \in Nat
    BY PendingTasksAssumption
  <2> QED
    BY <1>1, <1>2, <1>3, <2>1
<1>7. \A i \in 1 .. Len(pendingTasks) :
        pendingTasks[i].by \in Threads /\ pendingTasks[i].n \in Nat
  <2>1. \A i \in 1 .. Len(pendingTasks) : pendingTasks[i] \in Task
    BY ElementOfSeq
  <2> QED
    BY <2>1 DEF Task, Threads
<1>8. InOrderOnce'
  <2>1. \A t \in Threads : Len(ran[t]) \in Nat
    OBVIOUS
  <2>2. \A t \in Threads : Len(ran[t]) <= asked'[t]
    <3>1. \A t \in Threads : Len(ran[t]) <= asked[t]
      BY DEF InOrderOnce
    <3> HIDE DEF TypeOK, OrderInv
    <3> QED
      BY <1>6, <2>1, <3>1
  <2>3. asked'[Loop] = asked[Loop]
    BY <1>1, <1>6
  <2> QED
    BY <1>3, <2>2, <2>3 DEF InOrderOnce
<1>9. HandNext'
  <2>1. CASE loopAt = "task"
    <3>1. task.by \in Threads /\ task.n \in Nat
      BY <2>1 DEF HandNext, Task, Threads
    <3> QED
      BY <1>3, <1>6, <2>1, <3>1 DEF HandNext, Ran
  <2> QED
    BY <1>3, <2>1 DEF HandNext
<1>10. QueuedOwed'
  <2> SUFFICES ASSUME NEW i \in 1 .. last
               PROVE  /\ Ran(pendingTasks'[i].by) < pendingTasks'[i].n
                      /\ pendingTasks'[i].n <= asked'[pendingTasks'[i].by]
                      /\ loopAt = "task" /\ task.by = pendingTasks'[i].by =>
                           task.n < pendingTasks'[i].n
    BY <1>3, <1>5 DEF QueuedOwed, Ran
  <2>1. CASE i = last
    <3>1. loopAt = "task" => task \in Task /\ task.n <= asked[task.by]
      BY DEF HandNext
    <3> QED
      BY <1>1, <1>2, <1>5, <1>6, <2>1, <3>1 DEF Task
  <2>2. CASE i \in 1 .. Len(pendingTasks)
    <3>1. /\ Ran(pendingTasks[i].by) < pendingTasks[i].n
          /\ pendingTasks[i].n <= asked[pendingTasks[i].by]
          /\ loopAt = "task" /\ task.by = pendingTasks[i].by =>
               task.n < pendingTasks[i].n
      BY <2>2 DEF QueuedOwed
    <3>2. /\ pendingTasks[i].by \in Threads /\ pendingTasks[i].n \in Nat
          /\ pendingTasks'[i] = pendingTasks[i]
      BY <1>5, <1>7, <2>2
    <3>3. pendingTasks[i].n <= asked'[pendingTasks[i].by]
      <4> HIDE DEF TypeOK, OrderInv, last, new
      <4> QED
        BY <1>6, <3>1, <3>2
    <3> QED
      BY <3>1, <3>2, <3>3
  <2> QED
    BY <1>5, <2>1, <2>2
<1>11. QueuedInOrder'
  <2> SUFFICES ASSUME NEW i \in 1 .. last, NEW j \in 1 .. last, i < j,
                      pendingTasks'[i].by = pendingTasks'[j].by
               PROVE  pendingTasks'[i].n < pendingTasks'[j].n
    BY <1>5 DEF QueuedInOrder
  <2>1. i \in 1 .. Len(pendingTasks)
    BY <1>5
  <2>2. CASE j = last
    BY <1>2, <1>5, <1>7, <2>1, <2>2 DEF QueuedOwed
  <2>3. CASE j \in 1 .. Len(pendingTasks)
    BY <1>5, <2>1, <2>3 DEF QueuedInOrder
  <2> QED
    BY <1>5, <2>2, <2>3
<1>12. NothingLost'
  <2> SUFFICES ASSUME NEW q \in Posters, NEW k \in (Ran(q) + 1) .. asked'[q]
               PROVE  InHand(q, k) \/ Queued(q, k)'
    BY <1>3 DEF NothingLost, Ran, InHand
  <2>1. q \in Threads /\ Ran(q) \in Nat
    BY DEF Threads, Ran
  <2>2. CASE q = p /\ k = asked[p] + 1
    BY <1>5, <2>2, SMTT(30) DEF Queued
  <2>3. CASE k \in (Ran(q) + 1) .. asked[q]
    <3>1. InHand(q, k) \/ Queued(q, k)
      BY <2>3 DEF NothingLost
    <3>2. Queued(q, k) => Queued(q, k)'
      BY <1>5 DEF Queued
    <3> QED
      BY <3>1, <3>2
  <2> QED
    BY <1>6, <2>1, <2>2, <2>3
<1> QED
  BY <1>8, <1>9, <1>10, <1>11, <1>12

(* The head of the queue is the next task of its thread: NothingLost puts  *)
(* that next task somewhere, and QueuedInOrder leaves only the head.       *)
LEMMA HeadIsNext ==
  ASSUME TypeOK, OrderInv, pendingTasks # <<>>, loopAt = "pop"
  PROVE  /\ Head(pendingTasks) \in Task
         /\ Head(pendingTasks).n = Ran(Head(pendingTasks).by) + 1
         /\ Head(pendingTasks).n <= asked[Head(pendingTasks).by]
<1> DEFINE h == pendingTasks[1]
           k == Ran(h.by) + 1
<1>1. /\ Len(pendingTasks) \in Nat \ {0} /\ Head(pendingTasks) = h
      /\ \A i \in 1 .. Len(pendingTasks) : pendingTasks[i] \in Task
  BY EmptySeq, ElementOfSeq DEF TypeOK
<1>2. /\ h \in Task /\ h.by \in Posters /\ h.n \in Nat
      /\ \A i \in 1 .. Len(pendingTasks) : pendingTasks[i].n \in Nat
  BY <1>1 DEF Task
<1>3. asked[h.by] \in Nat /\ Ran(h.by) \in Nat
  BY <1>2, PendingTasksAssumption DEF TypeOK, Threads, Ran
<1>4. k <= h.n /\ h.n <= asked[h.by]
  BY <1>1, <1>2, <1>3 DEF OrderInv, Owed, QueuedOwed
<1>5. k \in (Ran(h.by) + 1) .. asked[h.by]
  BY <1>2, <1>3, <1>4
<1>6. PICK i \in 1 .. Len(pendingTasks) : pendingTasks[i] = [by |-> h.by, n |-> k]
  BY <1>2, <1>5 DEF OrderInv, Owed, NothingLost, InHand, Queued
<1>7. pendingTasks[i].by = h.by /\ pendingTasks[i].n = k
  BY <1>6
<1>8. i = 1
  BY <1>1, <1>2, <1>3, <1>4, <1>7 DEF OrderInv, Owed, QueuedInOrder
<1> QED
  BY <1>1, <1>2, <1>4, <1>7, <1>8

(* Taking the head off the queue.                                          *)
LEMMA OrderTryPop ==
  ASSUME TypeOK, Waking, OrderInv, TryPop
  PROVE  OrderInv'
<1> DEFINE h == Head(pendingTasks)
           m == Len(pendingTasks)
<1>1. /\ loopAt = "pop" /\ loopAt' = "task" /\ pendingTasks # <<>>
      /\ task' = h /\ pendingTasks' = Tail(pendingTasks)
      /\ UNCHANGED <<asked, ran>>
  BY DEF TryPop, Waking, PopFindsTask
<1>2. h \in Task /\ h.n = Ran(h.by) + 1 /\ h.n <= asked[h.by]
  BY <1>1, HeadIsNext
<1>3. /\ m \in Nat \ {0} /\ h = pendingTasks[1]
      /\ Len(pendingTasks') = m - 1
      /\ \A i \in 1 .. m - 1 : pendingTasks'[i] = pendingTasks[i + 1]
  BY <1>1, HeadTailProperties, EmptySeq DEF TypeOK
<1>4. \A i \in 1 .. m - 1 : i + 1 \in 1 .. m /\ 1 < i + 1
  BY <1>3
<1>5. InOrderOnce'
  BY <1>1 DEF OrderInv, InOrderOnce
<1>6. HandNext'
  BY <1>1, <1>2 DEF HandNext, Ran
<1>7. QueuedOwed'
  <2> SUFFICES ASSUME NEW i \in 1 .. m - 1
               PROVE  /\ Ran(pendingTasks[i + 1].by) < pendingTasks[i + 1].n
                      /\ pendingTasks[i + 1].n <= asked[pendingTasks[i + 1].by]
                      /\ h.by = pendingTasks[i + 1].by => h.n < pendingTasks[i + 1].n
    BY <1>1, <1>3 DEF QueuedOwed, Ran
  <2> QED
    BY <1>3, <1>4 DEF OrderInv, Owed, QueuedOwed, QueuedInOrder
<1>8. QueuedInOrder'
  <2> SUFFICES ASSUME NEW i \in 1 .. m - 1, NEW j \in 1 .. m - 1, i < j,
                      pendingTasks[i + 1].by = pendingTasks[j + 1].by
               PROVE  pendingTasks[i + 1].n < pendingTasks[j + 1].n
    BY <1>3 DEF QueuedInOrder
  <2>1. i + 1 < j + 1
    BY <1>3
  <2> QED
    BY <1>4, <2>1 DEF OrderInv, Owed, QueuedInOrder
<1>9. NothingLost'
  <2> SUFFICES ASSUME NEW p \in Posters, NEW k \in (Ran(p) + 1) .. asked[p]
               PROVE  InHand(p, k)' \/ Queued(p, k)'
    BY <1>1 DEF NothingLost, Ran
  <2>1. PICK i \in 1 .. m : pendingTasks[i] = [by |-> p, n |-> k]
    BY <1>1 DEF OrderInv, Owed, NothingLost, InHand, Queued
  <2>2. CASE i = 1
    BY <1>1, <1>3, <2>1, <2>2 DEF InHand
  <2>3. CASE i # 1
    <3>1. i - 1 \in 1 .. m - 1 /\ (i - 1) + 1 = i
      BY <1>3, <2>3
    <3>2. pendingTasks'[i - 1] = [by |-> p, n |-> k]
      BY <1>3, <2>1, <3>1
    <3> QED
      BY <1>3, <3>1, <3>2 DEF Queued
  <2> QED
    BY <2>2, <2>3
<1> QED
  BY <1>5, <1>6, <1>7, <1>8, <1>9 DEF OrderInv, Owed

(* Running the task in hand moves it from the owed to the ran.             *)
LEMMA OrderRunTask ==
  ASSUME TypeOK, OrderInv, RunTask
  PROVE  /\ OrderInv'
         /\ task.by \in Posters
         /\ Ran(task.by) < asked[task.by]
         /\ ran' = [ran EXCEPT ![task.by] = Append(@, Len(@) + 1)]
<1> DEFINE b == task.by
<1>1. /\ loopAt = "task" /\ loopAt' = "check"
      /\ ran' = [ran EXCEPT ![b] = Append(ran[b], task.n)]
      /\ UNCHANGED <<pendingTasks, task, asked>>
  BY DEF RunTask
<1>2. task \in Task /\ task.n = Ran(b) + 1 /\ task.n <= asked[b]
  BY <1>1 DEF OrderInv, Owed, HandNext
<1>3. b \in Posters /\ b \in Threads /\ b # Loop /\ Loop \in Threads
  BY <1>2, PendingTasksAssumption DEF Task, Threads
<1>4. \A t \in Threads : /\ ran[t] \in Seq(Nat) /\ Ran(t) \in Nat
                         /\ asked[t] \in Nat
  BY PendingTasksAssumption DEF TypeOK, Ran
<1>5. /\ \A t \in Threads : t # b => ran'[t] = ran[t]
      /\ ran'[b] = Append(ran[b], Ran(b) + 1)
  BY <1>1, <1>2, <1>3 DEF TypeOK
<1>6. /\ Len(ran'[b]) = Ran(b) + 1
      /\ ran'[b][Ran(b) + 1] = Ran(b) + 1
      /\ \A i \in 1 .. Ran(b) : ran'[b][i] = ran[b][i]
      /\ ran'[b] \in Seq(Nat)
  <2>1. Ran(b) + 1 \in Nat /\ ran[b] \in Seq(Nat)
    BY <1>3, <1>4
  <2> QED
    BY <1>5, <2>1, AppendProperties DEF Ran
<1>7. Ran(b) < asked[b]
  BY <1>2, <1>3, <1>4
<1>8. InOrderOnce'
  <2>1. ran'[b] = [i \in 1 .. Len(ran'[b]) |-> i]
    <3>1. \A i \in 1 .. Ran(b) : ran[b][i] = i
      BY <1>3 DEF OrderInv, InOrderOnce, Ran
    <3>2. ASSUME NEW i \in 1 .. Ran(b) + 1 PROVE ran'[b][i] = i
      <4>1. Ran(b) \in Nat
        BY <1>3, <1>4
      <4>2. i \in 1 .. Ran(b) \/ i = Ran(b) + 1
        BY <4>1
      <4> QED
        BY <1>6, <3>1, <4>2
    <3>3. ran'[b] \in [1 .. Len(ran'[b]) -> Nat]
      BY <1>6, LenProperties
    <3> QED
      BY <1>6, <3>2, <3>3
  <2> QED
    BY <1>1, <1>3, <1>4, <1>5, <1>6, <1>7, <2>1 DEF OrderInv, InOrderOnce, Ran
<1>9. HandNext'
  BY <1>1 DEF HandNext
<1>10. \A t \in Threads : Ran(t)' = IF t = b THEN Ran(b) + 1 ELSE Ran(t)
  BY <1>5, <1>6 DEF Ran
<1>11. QueuedOwed'
  <2>1. \A i \in 1 .. Len(pendingTasks) :
          pendingTasks[i].by \in Threads /\ pendingTasks[i].n \in Nat
    <3>1. \A i \in 1 .. Len(pendingTasks) : pendingTasks[i] \in Task
      BY ElementOfSeq DEF TypeOK
    <3> QED
      BY <3>1 DEF Task, Threads
  <2> QED
    BY <1>1, <1>2, <1>3, <1>4, <1>10, <2>1 DEF OrderInv, Owed, QueuedOwed
<1>12. QueuedInOrder'
  BY <1>1 DEF OrderInv, Owed, QueuedInOrder
<1>13. NothingLost'
  <2> SUFFICES ASSUME NEW p \in Posters, NEW k \in (Ran(p)' + 1) .. asked[p]
               PROVE  Queued(p, k)
    BY <1>1 DEF NothingLost, Queued
  <2>1. p \in Threads
    BY DEF Threads
  <2>2. k \in (Ran(p) + 1) .. asked[p] /\ (p = b => k # task.n)
    BY <1>2, <1>3, <1>4, <1>10, <2>1
  <2>3. ~InHand(p, k)
    BY <2>2 DEF InHand
  <2> QED
    BY <2>2, <2>3 DEF OrderInv, Owed, NothingLost
<1> QED
  BY <1>1, <1>2, <1>3, <1>7, <1>8, <1>9, <1>11, <1>12, <1>13
     DEF OrderInv, Owed, Ran

(* Running a task of the loop thread at once.                              *)
LEMMA OrderRunInline ==
  ASSUME TypeOK, OrderInv, RunInline
  PROVE  /\ OrderInv'
         /\ Ran(Loop) = asked[Loop]
         /\ ran' = [ran EXCEPT ![Loop] = Append(@, Len(@) + 1)]
<1>1. /\ asked' = [asked EXCEPT ![Loop] = asked[Loop] + 1]
      /\ ran' = [ran EXCEPT ![Loop] = Append(ran[Loop], asked[Loop] + 1)]
      /\ UNCHANGED <<pendingTasks, task, loopAt>>
  BY DEF RunInline
<1>2. Loop \in Threads /\ \A p \in Posters : p \in Threads /\ p # Loop
  BY PendingTasksAssumption DEF Threads
<1>3. /\ Ran(Loop) = asked[Loop] /\ Ran(Loop) \in Nat /\ ran[Loop] \in Seq(Nat)
  BY <1>2 DEF TypeOK, OrderInv, InOrderOnce, Ran
<1>4. /\ \A t \in Threads : t # Loop => ran'[t] = ran[t] /\ asked'[t] = asked[t]
      /\ ran'[Loop] = Append(ran[Loop], Ran(Loop) + 1)
      /\ asked'[Loop] = Ran(Loop) + 1
  BY <1>1, <1>2, <1>3 DEF TypeOK
<1>5. /\ Len(ran'[Loop]) = Ran(Loop) + 1
      /\ ran'[Loop][Ran(Loop) + 1] = Ran(Loop) + 1
      /\ \A i \in 1 .. Ran(Loop) : ran'[Loop][i] = ran[Loop][i]
      /\ ran'[Loop] \in Seq(Nat)
  <2>1. Ran(Loop) + 1 \in Nat
    BY <1>3
  <2> QED
    BY <1>3, <1>4, <2>1, AppendProperties DEF Ran
<1>6. InOrderOnce'
  <2>0. Ran(Loop) + 1 \in Nat
    BY <1>3
  <2>1. \A i \in 1 .. Ran(Loop) : ran[Loop][i] = i
    BY <1>2 DEF OrderInv, InOrderOnce, Ran
  <2>2. ASSUME NEW i \in 1 .. Ran(Loop) + 1 PROVE ran'[Loop][i] = i
    <3>1. i \in 1 .. Ran(Loop) \/ i = Ran(Loop) + 1
      BY <1>3
    <3> QED
      BY <1>5, <2>1, <3>1
  <2>3. ran'[Loop] \in [1 .. Len(ran'[Loop]) -> Nat]
    BY <1>5, LenProperties
  <2>4. ran'[Loop] = [i \in 1 .. Len(ran'[Loop]) |-> i]
    BY <1>5, <2>2, <2>3
  <2>5. ASSUME NEW t \in Threads
        PROVE  /\ ran'[t] = [i \in 1 .. Len(ran'[t]) |-> i]
               /\ Len(ran'[t]) <= asked'[t]
    <3>1. CASE t = Loop
      <4>1. ran'[t] = [i \in 1 .. Len(ran'[t]) |-> i]
        BY <2>4, <3>1
      <4>2. Len(ran'[Loop]) = asked'[Loop]
        BY <1>4, <1>5
      <4>3. asked'[Loop] \in Nat
        BY <1>4, <2>0
      <4>4. Len(ran'[t]) <= asked'[t]
        BY <4>2, <4>3, <3>1
      <4> QED
        BY <4>1, <4>4
    <3>2. CASE t # Loop
      BY <1>4, <3>2 DEF OrderInv, InOrderOnce
    <3> QED
      BY <3>1, <3>2
  <2> QED
    BY <1>2, <1>4, <1>5, <2>5 DEF InOrderOnce
<1>7. \A t \in Posters : Ran(t)' = Ran(t) /\ asked'[t] = asked[t]
  BY <1>2, <1>4 DEF Ran
<1>8. \A i \in 1 .. Len(pendingTasks) : pendingTasks[i].by \in Posters
  <2>1. \A i \in 1 .. Len(pendingTasks) : pendingTasks[i] \in Task
    BY ElementOfSeq DEF TypeOK
  <2> QED
    BY <2>1 DEF Task
<1>9. HandNext'
  <2>1. task \in Task => task.by \in Posters
    BY DEF Task
  <2> QED
    BY <1>1, <1>7, <2>1 DEF OrderInv, Owed, HandNext
<1>10. QueuedOwed' /\ QueuedInOrder'
  BY <1>1, <1>7, <1>8 DEF OrderInv, Owed, QueuedOwed, QueuedInOrder
<1>11. NothingLost'
  BY <1>1, <1>7 DEF OrderInv, Owed, NothingLost, InHand, Queued
<1> QED
  BY <1>1, <1>3, <1>6, <1>9, <1>10, <1>11 DEF OrderInv, Owed, Ran

(* The other steps move neither a task nor a count.                        *)
LEMMA OrderOther ==
  ASSUME OrderInv, UNCHANGED <<pendingTasks, task, asked, ran>>,
         loopAt' = loopAt \/ (loopAt # "task" /\ loopAt' # "task")
  PROVE  OrderInv'
<1>1. InOrderOnce'
  BY DEF OrderInv, InOrderOnce
<1>2. HandNext' /\ QueuedOwed' /\ QueuedInOrder'
  BY DEF OrderInv, Owed, HandNext, QueuedOwed, QueuedInOrder, Ran
<1>3. NothingLost'
  BY DEF OrderInv, Owed, NothingLost, InHand, Queued, Ran
<1> QED
  BY <1>1, <1>2, <1>3 DEF OrderInv, Owed

LEMMA OrderNext ==
  TypeOK /\ Waking /\ OrderInv /\ [Next]_vars => OrderInv' /\ [Exec!Next]_Exec!vars
<1> SUFFICES ASSUME TypeOK, Waking, OrderInv, [Next]_vars
             PROVE  OrderInv' /\ [Exec!Next]_Exec!vars
  OBVIOUS
<1> USE DEF Exec!vars
<1>1. ASSUME NEW p \in Posters, QueueInLoopThread(p)
      PROVE  OrderInv' /\ [Exec!Next]_Exec!vars
  <2>1. p \in Threads /\ Exec!Ask(p)
    BY <1>1 DEF Threads, QueueInLoopThread, Exec!Ask
  <2> QED
    BY <1>1, <2>1, OrderQueue DEF Exec!Next
<1>2. ASSUME NEW p \in Posters, Signal(p)
      PROVE  OrderInv' /\ [Exec!Next]_Exec!vars
  BY <1>2, OrderOther DEF Signal
<1>3. CASE RunInline
  <2>1. Loop \in Threads /\ Exec!AskAndRun(Loop)
    BY <1>3, OrderRunInline DEF Threads, RunInline, Exec!AskAndRun, Ran
  <2> QED
    BY <1>3, <2>1, OrderRunInline DEF Exec!Next
<1>4. CASE PollWake
  BY <1>4, OrderOther DEF PollWake
<1>5. CASE PollOther
  BY <1>5, OrderOther DEF PollOther
<1>6. CASE HandleEvents
  BY <1>6, OrderOther DEF HandleEvents
<1>7. CASE TimersDone
  BY <1>7, OrderOther DEF TimersDone
<1>8. CASE CheckPending
  BY <1>8, OrderOther DEF CheckPending
<1>9. CASE TryPop
  BY <1>9, OrderTryPop DEF TryPop
<1>10. CASE RunTask
  <2>1. task.by \in Threads /\ Exec!Run(task.by)
    BY <1>10, OrderRunTask DEF Threads, RunTask, Exec!Run, Ran
  <2> QED
    BY <1>10, <2>1, OrderRunTask DEF Exec!Next
<1>11. CASE StartLoop
  BY <1>11, OrderOther DEF StartLoop
<1>12. CASE UNCHANGED vars
  BY <1>12, OrderOther DEF vars
<1> QED
  BY <1>1, <1>2, <1>3, <1>4, <1>5, <1>6, <1>7, <1>8, <1>9, <1>10, <1>11, <1>12
     DEF Next, LoopStep

LEMMA OrderInvariant == SafeSpec => [](TypeOK /\ Waking /\ OrderInv)
<1>1. SafeSpec => [](TypeOK /\ Waking)
  BY TypeInit, TypeNext, WakingInvariant, PTL DEF SafeSpec
<1> QED
  BY <1>1, OrderInit, OrderNext, PTL DEF SafeSpec

(* Whatever the interleaving, the tasks of one thread run once each and in *)
(* the order in which that thread called queueInLoopThread.                *)
THEOREM InOrderOnceHolds == SafeSpec => []InOrderOnce
BY OrderInvariant, PTL DEF OrderInv

(* The mechanism implements the safety part of the promise of Executor:    *)
(* each of its steps hands over a task, runs the next task of a thread,    *)
(* does both for the loop thread, or changes nothing a client can see.     *)
THEOREM ImplementsExecutor == SafeSpec => Exec!SafeSpec
<1>1. Init => Exec!Init
  BY DEF Init, Exec!Init
<1>2. TypeOK /\ Waking /\ OrderInv /\ [Next]_vars => [Exec!Next]_Exec!vars
  BY OrderNext
<1> QED
  BY <1>1, <1>2, OrderInvariant, PTL DEF SafeSpec, Exec!SafeSpec

-----------------------------------------------------------------------------
(***************************************************************************)
(* Tasks and channels together.                                            *)
(***************************************************************************)

(* The loop waits in one sense when it does in the other, and from the end *)
(* of its constructor on the wake channel is registered for reading.       *)
Coupled ==
  /\ pollAt = "wait" <=> loopAt = "wait"
  /\ loopAt # "setup" => Constructed
  /\ event[Wake] \in {{}, {"IN", "HUP"}}
  /\ Constructed => Wake \in channels
  /\ DOMAIN event = Channel
  /\ othersReady \in [Others -> Readiness]

LEMMA WaitIsPoll ==
  ASSUME Coupled, Wait
  PROVE  PollWake \/ PollOther
<1>1. /\ loopAt = "wait" /\ loopAt' = "dispatch" /\ woken' = (Wake \in activated')
      /\ UNCHANGED <<pendingTasks, counter, posterAt, task, asked, ran>>
  BY DEF Wait, Poll!Wait, Coupled
<1>2. Wake \in activated' => counter > 0
  <2> SUFFICES ASSUME Wake \in activated' PROVE counter > 0
    OBVIOUS
  <2>1. Wake \in Poll!Reportable
    BY DEF Wait, Poll!Wait, Poll!Reported
  <2>2. Poll!Reports(Wake) # {}
    BY <2>1 DEF Poll!Reportable
  <2>3. Ready[Wake] # {}
    BY <2>2 DEF Poll!Reports
  <2> QED
    BY <2>3, ReactorAssumption DEF Ready
<1>3. woken' = TRUE \/ woken' = FALSE
  BY <1>1
<1> QED
  BY <1>1, <1>2, <1>3 DEF PollWake, PollOther

(* Whatever the channels, a step is one of PendingTasks.                   *)
LEMMA TasksStep == Coupled /\ ReactorNext => Next \/ UNCHANGED vars
<1> SUFFICES ASSUME Coupled, ReactorNext PROVE Next \/ UNCHANGED vars
  OBVIOUS
<1>1. CASE ConstructWake \/ EnableWake \/ HandleEvent \/ CallbacksReturn
  BY <1>1 DEF ConstructWake, EnableWake, HandleEvent, CallbacksReturn
<1>2. CASE EnterLoop
  BY <1>2 DEF EnterLoop, Next, LoopStep
<1>3. CASE Wait
  BY <1>3, WaitIsPoll DEF Next, LoopStep
<1>4. CASE HandleRead
  BY <1>4 DEF HandleRead, Next, LoopStep
<1>5. CASE AllHandled
  BY <1>5 DEF AllHandled, Next, LoopStep
<1>6. CASE AfterDispatch
  BY <1>6 DEF AfterDispatch, Next, LoopStep
<1>7. CASE RunHere
  BY <1>7 DEF RunHere, Next
<1>8. CASE ChangeChannel \/ OthersReadinessChanges
  BY <1>8 DEF ChangeChannel, OthersReadinessChanges
<1>9. CASE \E p \in Posters : Post(p) \/ WriteSignal(p)
  BY <1>9 DEF Post, WriteSignal, Next
<1> QED
  BY <1>1, <1>2, <1>3, <1>4, <1>5, <1>6, <1>7, <1>8, <1>9 DEF ReactorNext, ReactorStep

LEMMA ReadyStays == UNCHANGED <<counter, othersReady>> => Ready' = Ready
BY DEF Ready

(* The eventfd becomes readable when it is written, and stops being so     *)
(* when it is read.                                                        *)
LEMMA CounterIsReadiness ==
  ASSUME counter \in Nat, counter' \in Nat, UNCHANGED <<othersReady, pollVars>>
  PROVE  Poll!ReadinessChanges
<1>1. PICK r \in Readiness : r = IF counter' > 0 THEN {"IN"} ELSE {}
  BY ReactorAssumption
<1>2. Ready' = [Ready EXCEPT ![Wake] = r]
  BY <1>1, ReactorAssumption DEF Ready
<1>3. Wake \in Channel
  BY ReactorAssumption
<1> QED
  BY <1>1, <1>2, <1>3 DEF Poll!ReadinessChanges, Poll!channelVars, Poll!dispatchVars, pollVars

LEMMA OthersAreReady ==
  ASSUME Coupled, OthersReadinessChanges
  PROVE  Poll!ReadinessChanges
<1>1. PICK c \in Others, r \in Readiness : othersReady' = [othersReady EXCEPT ![c] = r]
  BY DEF OthersReadinessChanges
<1>2. counter' = counter /\ UNCHANGED pollVars
  BY DEF OthersReadinessChanges, vars
<1>3. c \in Channel /\ c # Wake
  BY DEF Others
<1>4. othersReady'[c] = r /\ \A d \in Others : d # c => othersReady'[d] = othersReady[d]
  BY <1>1 DEF Coupled
<1>5. Ready' = [Ready EXCEPT ![c] = r]
  <2>1. \A d \in Channel : Ready'[d] = IF d = c THEN r ELSE Ready[d]
    BY <1>2, <1>3, <1>4 DEF Ready, Others
  <2>2. DOMAIN Ready = Channel /\ DOMAIN Ready' = Channel /\ Ready' = [d \in Channel |-> Ready'[d]]
    BY DEF Ready
  <2> HIDE DEF Ready
  <2> QED
    BY <2>1, <2>2
<1> QED
  BY <1>2, <1>3, <1>5 DEF Poll!ReadinessChanges, Poll!channelVars, Poll!dispatchVars, pollVars

LEMMA WakeKind == {"IN", "HUP"} \in Poll!Kinds
BY DEF Poll!Kinds

(* Whatever the tasks, a step is one of Poller.                            *)
LEMMA ChannelsStep ==
  TypeOK /\ TypeOK' /\ Coupled /\ ReactorNext => Poll!Next \/ UNCHANGED Poll!vars
<1> SUFFICES ASSUME TypeOK, TypeOK', Coupled, ReactorNext
             PROVE  Poll!Next \/ UNCHANGED Poll!vars
  OBVIOUS
<1>1. counter \in Nat /\ counter' \in Nat
  BY PendingTasksAssumption DEF TypeOK
<1>2. Wake \in Channel /\ Others \subseteq Channel
  BY ReactorAssumption DEF Others
<1>3. UNCHANGED <<pollVars, counter, othersReady>> => UNCHANGED Poll!vars
  BY ReadyStays DEF Poll!vars, Poll!channelVars, Poll!dispatchVars, pollVars
<1>4. CASE ConstructWake
  BY <1>2, <1>4 DEF ConstructWake, Poll!Next, Poll!UserStep
<1>5. CASE EnableWake
  BY <1>2, <1>5, WakeKind DEF EnableWake, Poll!Next, Poll!UserStep
<1>6. CASE HandleEvent
  BY <1>6 DEF HandleEvent, Poll!Next, Poll!LoopStep
<1>7. CASE CallbacksReturn
  BY <1>7 DEF CallbacksReturn, Poll!Next, Poll!LoopStep
<1>8. CASE EnterLoop
  BY <1>8 DEF EnterLoop, Poll!Next, Poll!LoopStep
<1>9. CASE Wait
  BY <1>9 DEF Wait, Poll!Next, Poll!LoopStep
<1>10. CASE HandleRead
  BY <1>1, <1>10, CounterIsReadiness DEF HandleRead, Poll!Next
<1>11. CASE AllHandled
  BY <1>11 DEF AllHandled, Poll!Next, Poll!LoopStep
<1>12. CASE AfterDispatch
  <2>1. UNCHANGED <<counter, othersReady>>
    BY <1>12 DEF AfterDispatch, TimersDone, CheckPending, TryPop, RunTask
  <2> QED
    BY <1>3, <1>12, <2>1 DEF AfterDispatch, Poll!Next, Poll!LoopStep
<1>13. CASE RunHere
  BY <1>3, <1>13 DEF RunHere, RunInline
<1>14. CASE ChangeChannel
  BY <1>2, <1>14, UserKindsAssumption DEF ChangeChannel, Poll!Next, Poll!UserStep
<1>15. CASE OthersReadinessChanges
  BY <1>15, OthersAreReady DEF Poll!Next
<1>16. ASSUME NEW p \in Posters, Post(p) PROVE UNCHANGED Poll!vars
  BY <1>3, <1>16 DEF Post, QueueInLoopThread
<1>17. ASSUME NEW p \in Posters, WriteSignal(p) PROVE Poll!Next
  BY <1>1, <1>17, CounterIsReadiness DEF WriteSignal, Poll!Next
<1> QED
  BY <1>4, <1>5, <1>6, <1>7, <1>8, <1>9, <1>10, <1>11, <1>12, <1>13, <1>14, <1>15, <1>16,
     <1>17 DEF ReactorNext, ReactorStep

-----------------------------------------------------------------------------
(* Coupled is kept.                                                        *)

LEMMA CoupledInit == ReactorInit => Coupled
BY ReactorAssumption DEF ReactorInit, Init, Poll!Init, Coupled, Constructed

(* Only the constructor changes what the wake channel is enabled for.      *)
LEMMA WakeStays ==
  ASSUME Coupled, NEW c \in Others,
         \/ Poll!Construct(c)
         \/ Poll!Destroy(c)
         \/ \E kind \in UserKinds : Poll!Enable(c, kind) \/ Poll!Disable(c, kind)
  PROVE  /\ event'[Wake] = event[Wake] /\ DOMAIN event' = Channel
         /\ Wake \in channels => Wake \in channels'
         /\ pollAt' = pollAt
<1>1. c # Wake /\ Wake \in Channel /\ DOMAIN event = Channel
  BY ReactorAssumption DEF Others, Coupled
<1>2. CASE Poll!Construct(c)
  BY <1>1, <1>2 DEF Poll!Construct, Poll!dispatchVars
<1>3. CASE Poll!Destroy(c)
  BY <1>1, <1>3 DEF Poll!Destroy, Poll!RemoveChannel, Poll!dispatchVars
<1>4. CASE \E kind \in UserKinds : Poll!Enable(c, kind) \/ Poll!Disable(c, kind)
  BY <1>1, <1>4 DEF Poll!Enable, Poll!Disable, Poll!Update, Poll!dispatchVars
<1> QED
  BY <1>2, <1>3, <1>4

LEMMA CoupledNext == Coupled /\ [ReactorNext]_reactorVars => Coupled'
<1> SUFFICES ASSUME Coupled, [ReactorNext]_reactorVars PROVE Coupled'
  OBVIOUS
<1> USE DEF Coupled, Constructed
<1>1. CASE UNCHANGED reactorVars
  BY <1>1 DEF reactorVars, vars, pollVars
<1>2. CASE ConstructWake
  BY <1>2 DEF ConstructWake, Poll!Construct, Poll!dispatchVars, vars
<1>3. CASE EnableWake
  BY <1>3, ReactorAssumption
  DEF EnableWake, Poll!Enable, Poll!Update, Poll!dispatchVars, vars
<1>4. CASE EnterLoop
  BY <1>4 DEF EnterLoop, StartLoop, Poll!StartAgain, Poll!channelVars
<1>5. CASE Wait
  BY <1>5 DEF Wait, Poll!Wait, Poll!FillActivatedChannels
<1>6. CASE HandleEvent
  BY <1>6 DEF HandleEvent, Poll!HandleEvent, Poll!channelVars, vars
<1>7. CASE HandleRead
  BY <1>7 DEF HandleRead, HandleEvents, pollVars
<1>8. CASE CallbacksReturn
  BY <1>8 DEF CallbacksReturn, Poll!CallbacksReturn, Poll!channelVars, vars
<1>9. CASE AllHandled
  BY <1>9 DEF AllHandled, HandleEvents, Poll!AllHandled, Poll!channelVars, vars
<1>10. CASE AfterDispatch
  BY <1>10 DEF AfterDispatch, TimersDone, CheckPending, TryPop, RunTask, Poll!StartAgain,
               Poll!channelVars, pollVars
<1>11. CASE RunHere
  BY <1>11 DEF RunHere, RunInline, pollVars
<1>12. CASE ChangeChannel
  BY <1>12, WakeStays DEF ChangeChannel, vars
<1>13. CASE OthersReadinessChanges
  BY <1>13 DEF OthersReadinessChanges, vars, pollVars
<1>14. ASSUME NEW p \in Posters, Post(p) \/ WriteSignal(p) PROVE Coupled'
  BY <1>14 DEF Post, QueueInLoopThread, WriteSignal, Signal, pollVars
<1> QED
  BY <1>1, <1>2, <1>3, <1>4, <1>5, <1>6, <1>7, <1>8, <1>9, <1>10, <1>11, <1>12, <1>13, <1>14
     DEF ReactorNext, ReactorStep

LEMMA CoupledInvariant == ReactorSafeSpec => []Coupled
BY CoupledInit, CoupledNext, PTL DEF ReactorSafeSpec

-----------------------------------------------------------------------------
(* Epoll as it is does to the tasks what PendingTasks takes for granted:   *)
(* what is proved of SafeSpec holds of the reactor, the promise of         *)
(* Executor and the order of the tasks included.                           *)
THEOREM KeepsTasks == ReactorSafeSpec => SafeSpec
<1>1. ReactorInit => Init
  BY DEF ReactorInit
<1>2. Coupled /\ [ReactorNext]_reactorVars => [Next]_vars
  BY TasksStep DEF reactorVars
<1> QED
  BY <1>1, <1>2, CoupledInvariant, PTL DEF ReactorSafeSpec, SafeSpec

(* What tasks and posters do to the channels is what Poller lets the users *)
(* of channels and the descriptors do: what is proved of Poller holds of   *)
(* the reactor.                                                            *)
THEOREM KeepsChannels == ReactorSafeSpec => Poll!SafeSpec
<1>1. ReactorInit => Poll!Init
  BY DEF ReactorInit
<1>2. TypeOK /\ TypeOK' /\ Coupled /\ [ReactorNext]_reactorVars => [Poll!Next]_(Poll!vars)
  <2> SUFFICES ASSUME TypeOK, TypeOK', Coupled, [ReactorNext]_reactorVars
               PROVE  [Poll!Next]_(Poll!vars)
    OBVIOUS
  <2>1. CASE UNCHANGED reactorVars
    BY <2>1, ReadyStays
    DEF reactorVars, vars, pollVars, Poll!vars, Poll!channelVars, Poll!dispatchVars
  <2> QED
    BY <2>1, ChannelsStep
<1> QED
  BY <1>1, <1>2, CoupledInvariant, KeepsTasks, TypeCorrect, PTL
     DEF ReactorSafeSpec, Poll!SafeSpec

-----------------------------------------------------------------------------
(* The definitions that Reactor takes from Poller and those that the       *)
(* proofs of Poller are about are the same.                                *)

LEMMA SameSizes ==
  /\ IsFiniteSet(Channel) => PP!IsFiniteSet(Channel)
  /\ \A S : Poll!Cardinality(S) = PP!Cardinality(S)
BY DEF IsFiniteSet, PP!IsFiniteSet, Poll!Cardinality, PP!Cardinality

LEMMA SameChannelInit == Poll!Init => PP!Init
BY DEF Poll!Init, PP!Init, Poll!NotAdded, PP!NotAdded

LEMMA SameChannelSteps == Poll!Next => PP!Next
<1> SUFFICES ASSUME Poll!Next PROVE PP!Next
  OBVIOUS
<1> USE DEF Poll!channelVars, PP!channelVars, Poll!dispatchVars, PP!dispatchVars,
            Poll!UserRuns, PP!UserRuns, Poll!NotAdded, PP!NotAdded
<1>1. CASE Poll!Wait
  BY <1>1, SameSizes
  DEF Poll!Wait, PP!Wait, Poll!Reported, PP!Reported, Poll!Reportable, PP!Reportable,
      Poll!Reports, PP!Reports, Poll!FillActivatedChannels, PP!FillActivatedChannels,
      PP!Next, PP!LoopStep
<1>2. CASE Poll!HandleEvent
  BY <1>2
  DEF Poll!HandleEvent, PP!HandleEvent, Poll!Calls, PP!Calls, PP!Next, PP!LoopStep
<1>3. CASE Poll!CallbacksReturn \/ Poll!AllHandled \/ Poll!StartAgain
  BY <1>3
  DEF Poll!CallbacksReturn, PP!CallbacksReturn, Poll!AllHandled, PP!AllHandled,
      Poll!StartAgain, PP!StartAgain, PP!Next, PP!LoopStep
<1>4. ASSUME NEW c \in Channel, Poll!Construct(c) PROVE PP!Next
  BY <1>4 DEF Poll!Construct, PP!Construct, PP!Next, PP!UserStep
<1>5. ASSUME NEW c \in Channel, Poll!Destroy(c) PROVE PP!Next
  BY <1>5 DEF Poll!Destroy, PP!Destroy, Poll!RemoveChannel, PP!RemoveChannel,
              PP!Next, PP!UserStep
<1>6. ASSUME NEW c \in Channel, NEW kind \in Poll!Kinds,
             Poll!Enable(c, kind) \/ Poll!Disable(c, kind)
      PROVE  PP!Next
  BY <1>6 DEF Poll!Enable, PP!Enable, Poll!Disable, PP!Disable, Poll!Update, PP!Update,
              Poll!Add, PP!Add, Poll!Modify, PP!Modify, Poll!Kinds, PP!Kinds, PP!Next, PP!UserStep
<1>7. CASE Poll!ReadinessChanges
  BY <1>7 DEF Poll!ReadinessChanges, PP!ReadinessChanges, PP!Next
<1> QED
  BY <1>1, <1>2, <1>3, <1>4, <1>5, <1>6, <1>7 DEF Poll!Next, Poll!LoopStep, Poll!UserStep

LEMMA ChannelsKept == Poll!SafeSpec => []PP!PollerInv
<1>1. Poll!Init => PP!PollerInv
  BY ReactorAssumption, SameSizes, SameChannelInit, PP!PollerInit DEF PP!CallbackKinds, PP!Flag
<1>2. PP!PollerInv /\ [Poll!Next]_(Poll!vars) => PP!PollerInv'
  BY ReactorAssumption, SameSizes, SameChannelSteps, PP!PollerNext
  DEF Poll!vars, Poll!channelVars, Poll!dispatchVars, PP!vars, PP!channelVars,
      PP!dispatchVars, PP!CallbackKinds, PP!Flag
<1> QED
  BY <1>1, <1>2, PTL DEF Poll!SafeSpec

(* A counter above 0 is reported, whatever else is.                        *)
LEMMA CounterIsReported ==
  ASSUME Coupled, PP!PollerInv, loopAt # "setup", counter > 0
  PROVE  Wake \in Poll!Reportable
<1>1. Wake \in Channel /\ Ready[Wake] = {"IN"}
  BY ReactorAssumption DEF Ready
<1>2. event[Wake] = {"IN", "HUP"} /\ Wake \in channels
  BY DEF Coupled, Constructed
<1>3. interest[Wake] = {"IN", "HUP"}
  <2>1. Wake \notin refused
    BY ReactorAssumption DEF PP!PollerInv, PP!TypeOK
  <2> QED
    BY <1>2, <2>1 DEF PP!PollerInv, PP!InterestCurrent
<1>4. interest[Wake] # Poll!NotAdded /\ "IN" \in Poll!Reports(Wake)
  BY <1>1, <1>3 DEF Poll!NotAdded, Poll!Reports
<1> QED
  BY <1>1, <1>4 DEF Poll!Reportable

(* While a task is queued and the loop waits, epoll has the eventfd to     *)
(* report or a poster is about to write it, for any other channels and     *)
(* whatever their callbacks, the timers and the tasks do to them.          *)
THEOREM WakeHeardHolds == ReactorSafeSpec => []WakeHeard
<1>1. Coupled /\ PP!PollerInv /\ TypeOK /\ NoLostWakeup => WakeHeard
  <2> SUFFICES ASSUME Coupled, PP!PollerInv, TypeOK, NoLostWakeup,
                      pollAt = "wait", pendingTasks # <<>>,
                      ~ \E p \in Posters : posterAt[p] = "signal"
               PROVE  Wake \in Poll!Reportable
    BY DEF WakeHeard
  <2>1. loopAt = "wait" /\ counter > 0
    BY DEF Coupled, NoLostWakeup
  <2> QED
    BY <2>1, CounterIsReported
<1> QED
  BY <1>1, CoupledInvariant, KeepsTasks, KeepsChannels, ChannelsKept, TypeCorrect,
     NoLostWakeupHolds, PTL

(* The types and the safety of the tasks and their wake-up, with epoll and *)
(* the channels as they are.                                               *)
THEOREM ReactorTasksSafe ==
  ReactorSafeSpec =>
    [](TypeOK /\ NoLostWakeup /\ WakeReadNeverSpins /\ PopFindsTask /\ InOrderOnce)
BY KeepsTasks, TypeCorrect, NoLostWakeupHolds, WakeReadNeverSpinsHolds, PopFindsTaskHolds,
   InOrderOnceHolds, PTL

(* The channels keep what is proved of Poller while tasks and posters      *)
(* change them, whatever callbacks destroy: the kernel has for each what   *)
(* its event_ says unless it was refused, what epoll returns is in         *)
(* channels_, and only what a callback of the batch destroyed is called    *)
(* through a pointer to no channel.                                        *)
THEOREM ReactorChannelsSafe ==
  ReactorSafeSpec => [](PP!InterestCurrent /\ PP!ReportedIsRegistered /\ PP!DispatchedIsAlive)
<1>1. PP!PollerInv => PP!InterestCurrent /\ PP!ReportedIsRegistered /\ PP!DispatchedIsAlive
  BY DEF PP!PollerInv
<1> QED
  BY <1>1, KeepsChannels, ChannelsKept, PTL

(* What is proved of ReactorSafeSpec holds when callbacks keep the batch.  *)
THEOREM KeepingIsSafe == ReactorSpec => ReactorSafeSpec
<1>1. [ReactorNext /\ BatchKept']_reactorVars => [ReactorNext]_reactorVars
  OBVIOUS
<1> QED
  BY <1>1, PTL DEF ReactorSpec, ReactorSafeSpec

(* The reactor keeps the safety part of the promise of Executor.           *)
THEOREM ReactorImplementsExecutor == ReactorSafeSpec => Exec!SafeSpec
BY KeepsTasks, ImplementsExecutor, PTL

=============================================================================
