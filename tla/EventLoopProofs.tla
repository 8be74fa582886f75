--------------------------- MODULE EventLoopProofs ---------------------------
(***************************************************************************)
(* Proofs about EventLoop: each step of the composition is a step of       *)
(* PendingTasks or a stutter, and one of TimerQueue or a stutter, so what  *)
(* is proved of either holds for the loop as a whole.  And with the clock  *)
(* of ClockSteps, which may be set forward and back: any loop keeps the    *)
(* intervals of its repeating timers, and a wait ends late by no more than *)
(* the clock went on unseen, unless the loop was slow before it.           *)
(***************************************************************************)
EXTENDS ClockSteps, SequenceTheorems, WellFoundedInduction, TLAPS

TQP == INSTANCE TimerQueueProofs

-----------------------------------------------------------------------------
(* The components.                                                         *)

LEMMA TasksStep == Next => PT!Next \/ UNCHANGED taskVars
<1> SUFFICES ASSUME Next PROVE PT!Next \/ UNCHANGED taskVars
  OBVIOUS
<1>1. CASE Tick
  BY <1>1 DEF Tick
<1>2. CASE Post
  BY <1>2 DEF Post, PT!Next
<1>3. CASE LookAtClock \/ EnterWait
  BY <1>3 DEF LookAtClock, EnterWait
<1>4. CASE PollWake
  BY <1>4 DEF PollWake, PT!Next, PT!LoopStep
<1>5. CASE PollTimeout \/ PollOther
  BY <1>5 DEF PollTimeout, PollOther, PT!Next
<1>6. CASE ExecExpiredTimesTask
  BY <1>6 DEF ExecExpiredTimesTask, PT!Next, PT!LoopStep
<1>7. CASE RunTask
  BY <1>7 DEF RunTask, PT!Next, PT!LoopStep
<1>8. CASE OtherStep
  BY <1>8 DEF OtherStep, PT!Next, PT!LoopStep
<1>9. CASE RequestInline
  BY <1>9 DEF RequestInline, PT!Next
<1> QED
  BY <1>1, <1>2, <1>3, <1>4, <1>5, <1>6, <1>7, <1>8, <1>9 DEF Next, LoopStep

LEMMA TimersStep == Next => TQ!Next \/ UNCHANGED timerVars
<1> SUFFICES ASSUME Next PROVE TQ!Next \/ UNCHANGED timerVars
  OBVIOUS
<1>1. CASE Tick
  BY <1>1 DEF Tick, TQ!Next
<1>2. CASE Post
  BY <1>2 DEF Post
<1>3. CASE LookAtClock \/ EnterWait
  BY <1>3 DEF LookAtClock, EnterWait
<1>4. CASE PollWake \/ PollTimeout \/ PollOther
  BY <1>4 DEF PollWake, PollTimeout, PollOther, ReturnFromWait
<1>5. CASE ExecExpiredTimesTask
  BY <1>5 DEF ExecExpiredTimesTask, TQ!Next
<1>6. CASE RunTask
  BY <1>6 DEF RunTask, TQ!Next
<1>7. CASE OtherStep
  BY <1>7 DEF OtherStep
<1>8. CASE RequestInline
  BY <1>8 DEF RequestInline, TQ!Next
<1> QED
  BY <1>1, <1>2, <1>3, <1>4, <1>5, <1>6, <1>7, <1>8 DEF Next, LoopStep

(* What is proved of the components alone is true of those of the loop.    *)
THEOREM KeepsComponents == SafeSpec => PT!SafeSpec /\ TQ!SafeSpec
<1>1. Init => PT!Init /\ TQ!Init
  BY DEF Init
<1>2. [Next]_vars => [PT!Next]_(PT!vars)
  BY TasksStep DEF vars, taskVars, PT!vars
<1>3. [Next]_vars => [TQ!Next]_(TQ!timerVars)
  BY TimersStep DEF vars, timerVars, TQ!timerVars, TQ!queueVars, TQ!historyVars
<1> QED
  BY <1>1, <1>2, <1>3, PTL DEF SafeSpec, PT!SafeSpec, TQ!SafeSpec

-----------------------------------------------------------------------------
(* The types of the tasks.                                                 *)

LEMMA TasksTypeInit == PT!Init => PT!TypeOK
<1> SUFFICES ASSUME PT!Init PROVE PT!TypeOK
  OBVIOUS
<1>1. asked \in [PT!Threads -> 0 .. MaxTasks] /\ ran \in [PT!Threads -> Seq(Nat)]
  BY EventLoopAssumption DEF PT!Init
<1>2. pendingTasks \in Seq(PT!Task) /\ counter \in 0 .. MaxCounter
  BY EventLoopAssumption DEF PT!Init
<1>3. posterAt \in [Posters -> {"idle", "signal"}]
  BY DEF PT!Init
<1> QED
  BY <1>1, <1>2, <1>3 DEF PT!Init, PT!TypeOK, PT!Phases

LEMMA TasksTypeNext == PT!TypeOK /\ [PT!Next]_(PT!vars) => PT!TypeOK'
<1> SUFFICES ASSUME PT!TypeOK, [PT!Next]_(PT!vars) PROVE PT!TypeOK'
  OBVIOUS
<1> USE EventLoopAssumption DEF PT!TypeOK
<1>1. ASSUME NEW p \in Posters, PT!QueueInLoopThread(p) PROVE PT!TypeOK'
  <2>1. p \in PT!Threads
    BY DEF PT!Threads
  <2>2. [by |-> p, n |-> asked[p] + 1] \in PT!Task
    BY <2>1 DEF PT!Task
  <2>3. pendingTasks' \in Seq(PT!Task)
    BY <1>1, <2>2 DEF PT!QueueInLoopThread
  <2>4. asked' \in [PT!Threads -> 0 .. MaxTasks]
    BY <1>1, <2>1 DEF PT!QueueInLoopThread
  <2> QED
    BY <1>1, <2>3, <2>4 DEF PT!QueueInLoopThread
<1>2. ASSUME NEW p \in Posters, PT!Signal(p) PROVE PT!TypeOK'
  BY <1>2 DEF PT!Signal
<1>3. CASE PT!RunInline
  <2>1. Loop \in PT!Threads
    BY DEF PT!Threads
  <2>2. asked' \in [PT!Threads -> 0 .. MaxTasks] /\ ran' \in [PT!Threads -> Seq(Nat)]
    BY <1>3, <2>1 DEF PT!RunInline
  <2> QED
    BY <1>3, <2>2 DEF PT!RunInline
<1>4. CASE PT!PollWake
  BY <1>4 DEF PT!PollWake, PT!Phases
<1>5. CASE PT!PollOther
  BY <1>5 DEF PT!PollOther, PT!Phases
<1>6. CASE PT!HandleEvents
  BY <1>6 DEF PT!HandleEvents, PT!Phases
<1>7. CASE PT!TimersDone
  BY <1>7 DEF PT!TimersDone, PT!Phases
<1>8. CASE PT!CheckPending
  BY <1>8 DEF PT!CheckPending, PT!Phases
<1>9. CASE PT!TryPop
  <2>1. pendingTasks' \in Seq(PT!Task) /\ task' \in PT!Task \cup {PT!NoTask}
    BY <1>9, HeadTailProperties DEF PT!TryPop
  <2> QED
    BY <1>9, <2>1 DEF PT!TryPop, PT!Phases
<1>10. CASE PT!RunTask
  <2>1. task.by \in PT!Threads /\ task.n \in Nat
    BY DEF PT!Task, PT!NoTask, PT!Threads
  <2>2. ran' \in [PT!Threads -> Seq(Nat)]
    BY <1>10, <2>1 DEF PT!RunTask
  <2> QED
    BY <1>10, <2>2 DEF PT!RunTask, PT!Phases
<1>11. CASE PT!StartLoop
  BY <1>11 DEF PT!StartLoop, PT!Phases
<1>12. CASE UNCHANGED PT!vars
  BY <1>12 DEF PT!vars
<1> QED
  BY <1>1, <1>2, <1>3, <1>4, <1>5, <1>6, <1>7, <1>8, <1>9, <1>10, <1>11, <1>12
     DEF PT!Next, PT!LoopStep

LEMMA TasksTyped == PT!SafeSpec => []PT!TypeOK
BY TasksTypeInit, TasksTypeNext, PTL DEF PT!SafeSpec

-----------------------------------------------------------------------------
(* The definitions of TimerQueue and those that its proofs are about are   *)
(* the same.                                                               *)

LEMMA SameTimerTypes ==
  /\ TQ!Init => TQP!Init
  /\ TQP!TypeOK <=> TQ!TypeOK
BY DEF TQ!Init, TQP!Init, TQ!TypeOK, TQP!TypeOK, TQ!Ids, TQP!Ids, TQ!Timer, TQP!Timer,
       TQ!NoTimer, TQP!NoTimer

LEMMA SameTimerSteps == TQ!Next => TQP!Next
<1> SUFFICES ASSUME TQ!Next PROVE TQP!Next
  OBVIOUS
<1> USE DEF TQ!queueVars, TQP!queueVars, TQ!historyVars, TQP!historyVars
<1>1. CASE TQ!Tick
  BY <1>1 DEF TQ!Tick, TQP!Tick, TQP!Next
<1>2. CASE TQ!Request
  BY <1>2 DEF TQ!Request, TQP!Request, TQP!Next, TQ!RunUntil, TQP!RunUntil, TQ!RunAfter,
              TQP!RunAfter, TQ!RunEvery, TQP!RunEvery, TQ!Insert, TQP!Insert
<1>3. CASE TQ!GetExpiredTimes
  BY <1>3 DEF TQ!GetExpiredTimes, TQP!GetExpiredTimes, TQ!Expired, TQP!Expired, TQP!Next
<1>4. CASE TQ!StartRun
  BY <1>4 DEF TQ!StartRun, TQP!StartRun, TQ!IsFirst, TQP!IsFirst, TQ!Before, TQP!Before,
              TQP!Next
<1>5. CASE TQ!FinishRun
  BY <1>5 DEF TQ!FinishRun, TQP!FinishRun, TQ!IsRepeat, TQP!IsRepeat, TQ!Reset, TQP!Reset,
              TQ!NoTimer, TQP!NoTimer, TQP!Next
<1>6. CASE TQ!FinishBatch
  BY <1>6 DEF TQ!FinishBatch, TQP!FinishBatch, TQP!Next
<1> QED
  BY <1>1, <1>2, <1>3, <1>4, <1>5, <1>6 DEF TQ!Next

LEMMA SameTypesNext == TQP!TypeOK' => TQ!TypeOK'
BY DEF TQ!TypeOK, TQP!TypeOK, TQ!Ids, TQP!Ids, TQ!Timer, TQP!Timer, TQ!NoTimer, TQP!NoTimer

LEMMA TimerInvNext ==
  ASSUME TQP!TimerInv, TQ!Next \/ UNCHANGED timerVars
  PROVE  TQP!TimerInv'
<1>1. CASE TQ!Next
  BY EventLoopAssumption, <1>1, SameTimerSteps, TQP!InvNext
<1>2. CASE UNCHANGED timerVars
  BY EventLoopAssumption, <1>2, TQP!InvNext
     DEF timerVars, TQP!timerVars, TQP!queueVars, TQP!historyVars
<1> QED
  BY <1>1, <1>2

LEMMA TimersTyped == TQ!SafeSpec => []TQP!TimerInv
<1>1. TQ!Init => TQP!TimerInv
  BY EventLoopAssumption, SameTimerTypes, TQP!InvInit
<1>2. TQP!TimerInv /\ [TQ!Next]_(TQ!timerVars) => TQP!TimerInv'
  BY TimerInvNext DEF timerVars, TQ!timerVars, TQ!queueVars, TQ!historyVars
<1> QED
  BY <1>1, <1>2, PTL DEF TQ!SafeSpec

-----------------------------------------------------------------------------
(* The first timer.                                                        *)

LEMMA HasSmallest ==
  ASSUME NEW S, S \subseteq Nat, S # {}
  PROVE  \E n \in S : \A m \in S : n <= m
<1>1. \E R : IsWellFoundedOn(R, Nat) /\ \A m, n \in Nat : m < n => <<m, n>> \in R
  BY NatLessThanWellFounded DEF OpToRel
<1>2. PICK R : IsWellFoundedOn(R, Nat) /\ \A m, n \in Nat : m < n => <<m, n>> \in R
  BY <1>1
<1>3. \E n \in S : \A m \in S : ~(<<m, n>> \in R)
  <2>1. IsWellFoundedOn(R, Nat)
    BY <1>2
  <2> QED
    BY <2>1, WFMin
<1>4. PICK n \in S : \A m \in S : ~(<<m, n>> \in R)
  BY <1>3
<1>5. \A m \in S : m \in Nat /\ ~(m < n)
  BY <1>2, <1>4
<1> QED
  BY <1>4, <1>5

LEMMA FirstIsFirst ==
  ASSUME NEW S, S \subseteq TQ!Timer, S # {}
  PROVE  TQ!First(S) \in S /\ \A t \in S : TQ!First(S).exp <= t.exp
<1>1. \A t \in S : t.exp \in Nat /\ t.id \in Nat
  BY EventLoopAssumption DEF TQ!Timer, TQ!Ids
<1> DEFINE Exps == {t.exp : t \in S}
<1>2. PICK e \in Exps : \A f \in Exps : e <= f
  <2>1. Exps \subseteq Nat /\ Exps # {}
    BY <1>1
  <2> HIDE DEF Exps
  <2> QED
    BY <2>1, HasSmallest
<1> DEFINE SameExp == {t.id : t \in {u \in S : u.exp = e}}
<1>3. PICK i \in SameExp : \A j \in SameExp : i <= j
  <2>1. SameExp \subseteq Nat /\ SameExp # {}
    BY <1>1, <1>2
  <2> HIDE DEF SameExp
  <2> QED
    BY <2>1, HasSmallest
<1>4. PICK t \in S : t.exp = e /\ t.id = i
  BY <1>3
<1>5. TQ!IsFirst(t, S)
  BY <1>1, <1>2, <1>3, <1>4 DEF TQ!IsFirst, TQ!Before
<1>6. TQ!IsFirst(TQ!First(S), S)
  BY <1>5 DEF TQ!First
<1> QED
  BY <1>1, <1>6 DEF TQ!IsFirst, TQ!Before

-----------------------------------------------------------------------------
(* The timeout.                                                            *)

Half == 2 ^ (TimeoutBits - 1)

LEMMA Quotient ==
  ASSUME NEW a \in Nat, NEW k \in Nat \ {0}
  PROVE  /\ a \div k \in Nat
         /\ (a \div k) * k <= a
         /\ a < k => a \div k = 0
         /\ \A h \in Nat : a < h * k => a \div k < h
OBVIOUS

LEMMA TimeoutType ==
  ASSUME NEW e \in Nat, now \in Nat
  PROVE  Narrow(TQ!GetMillsecondsFromNow(e)) \in Int
<1>1. TQ!GetMillsecondsFromNow(e) \in Int
  BY EventLoopAssumption, Quotient DEF TQ!GetMillsecondsFromNow
<1> QED
  BY <1>1, EventLoopAssumption DEF Narrow

LEMMA NarrowSmall ==
  ASSUME NEW ms \in Nat, ms < Half
  PROVE  Narrow(ms) = ms
BY EventLoopAssumption DEF Narrow, Half

-----------------------------------------------------------------------------
(* Type correctness.                                                       *)

WaitTyped ==
  /\ timeout \in {NotLooked, Never} \cup Nat
  /\ deadline \in {NotWaiting, Never} \cup Nat
  /\ timeout # NotLooked => loopAt = "wait" /\ ~Waiting
  /\ Waiting => loopAt = "wait"

LEMMA TimeoutIsTyped ==
  ASSUME TQ!TypeOK, LookAtClock
  PROVE  timeout' \in {Never} \cup Nat
<1>1. TQ!GetNextExpiredTime \in Nat
  <2>1. CASE timers = {}
    BY <2>1 DEF TQ!GetNextExpiredTime, TQ!Epoch
  <2>2. CASE timers # {}
    BY <2>2, FirstIsFirst DEF TQ!GetNextExpiredTime, TQ!TypeOK, TQ!Timer
  <2> QED
    BY <2>1, <2>2
<1> DEFINE ms == IF TQ!GetNextExpiredTime = TQ!Epoch THEN -1
                 ELSE Narrow(TQ!GetMillsecondsFromNow(TQ!GetNextExpiredTime))
<1>2. ms \in Int
  BY <1>1, TimeoutType DEF TQ!TypeOK
<1>3. timeout' = IF ms < 0 THEN Never ELSE ms
  BY DEF LookAtClock
<1> HIDE DEF ms
<1> QED
  BY <1>2, <1>3

LEMMA DeadlineIsTyped ==
  ASSUME TQ!TypeOK, WaitTyped, EnterWait
  PROVE  /\ deadline' \in {Never} \cup Nat
         /\ timeout \in Nat => deadline' = now + timeout * TicksPerMs
<1>1. now \in Nat /\ TicksPerMs \in Nat
  BY EventLoopAssumption DEF TQ!TypeOK
<1>2. \A ms \in Nat : now + ms * TicksPerMs \in Nat
  BY <1>1
<1> QED
  BY <1>2 DEF EnterWait, WaitTyped, NotLooked, Never

LEMMA WaitTypedNext == TQ!TypeOK /\ WaitTyped /\ [Next]_vars => WaitTyped'
<1> SUFFICES ASSUME TQ!TypeOK, WaitTyped, [Next]_vars PROVE WaitTyped'
  OBVIOUS
<1> USE EventLoopAssumption DEF WaitTyped, Waiting
<1>1. CASE Tick
  BY <1>1 DEF Tick, taskVars
<1>2. CASE Post
  BY <1>2 DEF Post, PT!QueueInLoopThread, PT!Signal
<1>3. CASE LookAtClock
  BY <1>3, TimeoutIsTyped DEF LookAtClock, taskVars
<1>4. CASE EnterWait
  BY <1>4, DeadlineIsTyped DEF EnterWait, taskVars
<1>5. CASE PollWake \/ PollTimeout \/ PollOther
  BY <1>5 DEF PollWake, PollTimeout, PollOther, ReturnFromWait
<1>6. CASE ExecExpiredTimesTask
  BY <1>6 DEF ExecExpiredTimesTask, PT!TimersDone, taskVars
<1>7. CASE RunTask
  BY <1>7 DEF RunTask, PT!RunTask
<1>8. CASE OtherStep
  BY <1>8 DEF OtherStep, PT!StartLoop, PT!HandleEvents, PT!CheckPending, PT!TryPop
<1>9. CASE RequestInline
  BY <1>9 DEF RequestInline, PT!RunInline
<1>10. CASE UNCHANGED vars
  BY <1>10 DEF vars, taskVars
<1> QED
  BY <1>1, <1>2, <1>3, <1>4, <1>5, <1>6, <1>7, <1>8, <1>9, <1>10 DEF Next, LoopStep

(* A timeout is known only from the look at the clock to the call, a       *)
(* deadline only while the loop waits, and neither is negative unless the  *)
(* wait has no end.                                                        *)
THEOREM TypeCorrect == SafeSpec => []TypeOK
<1>1. Init => WaitTyped
  BY DEF Init, PT!Init, WaitTyped, Waiting
<1>2. TQP!TimerInv => TQ!TypeOK
  BY SameTimerTypes DEF TQP!TimerInv
<1>3. PT!TypeOK /\ TQ!TypeOK /\ WaitTyped => TypeOK
  BY DEF TypeOK, WaitTyped
<1> QED
  BY <1>1, <1>2, <1>3, KeepsComponents, TasksTyped, TimersTyped, WaitTypedNext, PTL
     DEF SafeSpec

(* The timers of the loop keep the promise of AlarmClock, though the loop  *)
(* decides when they are looked at, and tasks set them too.                *)
THEOREM LoopImplementsAlarmClock == SafeSpec => TQP!AlarmClockSpec
<1>1. TQ!Init => TQP!Init
  BY SameTimerTypes
<1>2. [TQ!Next]_(TQ!timerVars) => [TQP!Next]_(TQP!timerVars)
  BY SameTimerSteps
     DEF TQ!timerVars, TQP!timerVars, TQ!queueVars, TQP!queueVars, TQ!historyVars,
         TQP!historyVars
<1>3. TQ!SafeSpec => TQP!SafeSpec
  BY <1>1, <1>2, PTL DEF TQ!SafeSpec, TQP!SafeSpec
<1>4. TQP!SafeSpec => TQP!AlarmClockSpec
  BY EventLoopAssumption, TQP!ImplementsAlarmClock
<1> QED
  BY <1>3, <1>4, KeepsComponents, PTL

-----------------------------------------------------------------------------
(* Intervals, whatever is done to the clock.                               *)

(* Each timer is in one place, and as long as it is queued the clock that  *)
(* is never set back has gone at least as far since its last run as the    *)
(* other one will have gone when it is due.                                *)
Apart ==
  /\ TQ!TypeOK /\ ahead \in Nat /\ now <= ahead
  /\ ranAt \in [TQ!Ids -> Nat] /\ \A i \in TQ!Ids : ranAt[i] <= ahead
  /\ \A t, u \in TQ!Held : t.id = u.id => t = u
  /\ timers \cap expirationTimers = {}
  /\ timerAt = "callback" =>
       current \in TQ!Timer /\ \A t \in timers \cup expirationTimers : t.id # current.id
  /\ \A t \in TQ!Held : t.id < gId /\ t.interval = alarm[t.id].interval
  /\ \A i \in TQ!Ids : i >= gId => fired[i] = 0
  /\ \A t \in timers : fired[t.id] > 0 => ranAt[t.id] + t.interval + now <= t.exp + ahead
  /\ \A t \in expirationTimers : fired[t.id] > 0 => ranAt[t.id] + t.interval <= ahead

(* What a step of a steady clock does to the readings of ahead.            *)
Follows ==
  /\ ahead' = ahead + (now' - now)
  /\ ranAt' = [i \in TQ!Ids |-> IF fired'[i] # fired[i] THEN ahead ELSE ranAt[i]]

LEMMA NoRun ==
  ASSUME Apart, Follows, UNCHANGED fired
  PROVE  ranAt' = ranAt
BY DEF Apart, Follows

LEMMA TimerFields ==
  ASSUME TQ!TypeOK, NEW t \in timers \cup expirationTimers
  PROVE  t \in TQ!Timer /\ t.id \in TQ!Ids /\ t.id \in Nat /\ t.exp \in Nat /\ t.interval \in Nat
BY EventLoopAssumption DEF TQ!TypeOK, TQ!Timer, TQ!Ids

(* The clock goes on by any step, and ahead with it, or is set back.       *)
LEMMA ApartClock ==
  ASSUME Apart, NEW d \in Int, now' = now + d, now' \in Nat,
         ahead' = IF d > 0 THEN ahead + d ELSE ahead,
         UNCHANGED <<timers, expirationTimers, timerAt, current, gId>>,
         UNCHANGED <<alarm, fired, last, sampledId, ranAt>>
  PROVE  Apart'
<1>1. now \in Nat /\ ahead \in Nat /\ now <= ahead
  BY DEF Apart, TQ!TypeOK
<1>2. /\ ahead' \in Nat /\ ahead <= ahead' /\ now' <= ahead'
      /\ ahead + now' <= ahead' + now
  BY <1>1
<1>3. TQ!TypeOK' /\ TQ!Held' = TQ!Held
  BY DEF Apart, TQ!TypeOK, TQ!Held, TQ!Running
<1>4. ASSUME NEW i \in TQ!Ids PROVE ranAt[i] <= ahead'
  <2>1. ranAt[i] \in Nat /\ ranAt[i] <= ahead
    BY DEF Apart
  <2> QED
    BY <1>1, <1>2, <2>1
<1>5. ASSUME NEW t \in timers, fired[t.id] > 0
      PROVE  ranAt[t.id] + t.interval + now' <= t.exp + ahead'
  <2>1. t.id \in TQ!Ids /\ t.exp \in Nat /\ t.interval \in Nat
    BY TimerFields DEF Apart
  <2>2. ranAt[t.id] \in Nat /\ ranAt[t.id] + t.interval + now <= t.exp + ahead
    BY <1>5, <2>1 DEF Apart
  <2> QED
    BY <1>1, <1>2, <2>1, <2>2
<1>6. ASSUME NEW t \in expirationTimers, fired[t.id] > 0
      PROVE  ranAt[t.id] + t.interval <= ahead'
  <2>1. t.id \in TQ!Ids /\ t.interval \in Nat
    BY TimerFields DEF Apart
  <2>2. ranAt[t.id] \in Nat /\ ranAt[t.id] + t.interval <= ahead
    BY <1>6, <2>1 DEF Apart
  <2> QED
    BY <1>1, <1>2, <2>1, <2>2
<1> QED
  BY <1>2, <1>3, <1>4, <1>5, <1>6 DEF Apart

LEMMA ApartRequest ==
  ASSUME Apart, Follows, TQ!Request
  PROVE  Apart'
<1> USE EventLoopAssumption
<1>1. PICK exp \in Nat : \E interval \in Nat : TQ!Insert(exp, interval)
  <2>1. now \in Nat /\ TicksPerMs \in Nat
    BY DEF Apart, TQ!TypeOK
  <2>2. \A ms \in Nat : now + ms * TicksPerMs \in Nat /\ ms * TicksPerMs \in Nat
    BY <2>1
  <2> QED
    BY <2>2 DEF TQ!Request, TQ!RunUntil, TQ!RunAfter, TQ!RunEvery
<1>2. PICK interval \in Nat : TQ!Insert(exp, interval)
  BY <1>1
<1>3. PICK new : new = [id |-> gId, exp |-> exp, interval |-> interval]
  OBVIOUS
<1>4. /\ timerAt # "batch" /\ gId < MaxTimers /\ gId' = gId + 1
      /\ timers' = timers \cup {new}
      /\ alarm' = [alarm EXCEPT ![gId] = [due |-> exp, interval |-> interval]]
      /\ UNCHANGED <<now, expirationTimers, timerAt, current, fired, last, sampledId>>
  BY <1>2, <1>3 DEF TQ!Insert
<1>5. /\ gId \in TQ!Ids /\ gId \in Nat /\ gId' \in 0 .. MaxTimers /\ new \in TQ!Timer
      /\ new.id = gId /\ new.interval = interval
  <2>1. gId \in 0 .. MaxTimers /\ MaxTimers \in Nat
    BY DEF Apart, TQ!TypeOK
  <2>2. gId \in TQ!Ids /\ gId \in Nat /\ gId' \in 0 .. MaxTimers
    BY <1>4, <2>1 DEF TQ!Ids
  <2> QED
    BY <1>3, <2>2 DEF TQ!Timer
<1>6. /\ alarm'[gId].interval = interval
      /\ \A i \in TQ!Ids : i # gId => alarm'[i] = alarm[i]
      /\ alarm' \in [TQ!Ids -> [due : Nat, interval : Nat]]
  BY <1>4, <1>5 DEF Apart, TQ!TypeOK
<1>7. TQ!TypeOK'
  BY <1>4, <1>5, <1>6 DEF Apart, TQ!TypeOK
<1>8. TQ!Held' = TQ!Held \cup {new}
  BY <1>4 DEF TQ!Held, TQ!Running
<1>9. \A t \in TQ!Held : t \in TQ!Timer /\ t.id \in TQ!Ids /\ t.id \in Nat /\ t.id < gId
  BY DEF Apart, TQ!TypeOK, TQ!Held, TQ!Running, TQ!Timer, TQ!Ids
<1>10. \A t \in TQ!Held : t.id # gId
  BY <1>5, <1>9
<1>11. ahead' = ahead /\ ranAt' = ranAt /\ fired[gId] = 0
  <2>1. now \in Nat /\ ahead \in Nat /\ fired[gId] = 0
    BY <1>5 DEF Apart, TQ!TypeOK
  <2> QED
    BY <1>4, <2>1, NoRun DEF Follows
<1>12. \A t, u \in TQ!Held' : t.id = u.id => t = u
  BY <1>5, <1>8, <1>10 DEF Apart
<1>13. \A t \in TQ!Held' : t.id < gId' /\ t.interval = alarm'[t.id].interval
  <2>1. ASSUME NEW t \in TQ!Held PROVE t.id < gId' /\ t.interval = alarm'[t.id].interval
    BY <1>4, <1>5, <1>6, <1>9, <1>10 DEF Apart
  <2> QED
    BY <1>4, <1>5, <1>6, <1>8, <2>1
<1>14. /\ timers' \cap expirationTimers' = {}
       /\ timerAt' = "callback" =>
            current' \in TQ!Timer
            /\ \A t \in timers' \cup expirationTimers' : t.id # current'.id
  <2>1. new \notin expirationTimers
    BY <1>5, <1>10 DEF TQ!Held
  <2>2. timerAt = "callback" => current \in TQ!Held
    BY DEF TQ!Held, TQ!Running
  <2> QED
    BY <1>4, <1>5, <1>10, <2>1, <2>2 DEF Apart
<1>15. \A i \in TQ!Ids : i >= gId' => fired'[i] = 0
  BY <1>4, <1>5 DEF Apart, TQ!Ids
<1>16. \A t \in timers' : fired'[t.id] > 0 =>
         ranAt'[t.id] + t.interval + now' <= t.exp + ahead'
  BY <1>4, <1>5, <1>11 DEF Apart
<1> QED
  BY <1>4, <1>7, <1>11, <1>12, <1>13, <1>14, <1>15, <1>16 DEF Apart

LEMMA ApartGetExpired ==
  ASSUME Apart, Follows, TQ!GetExpiredTimes
  PROVE  Apart'
<1>1. /\ timerAt = "idle" /\ timerAt' = "batch"
      /\ expirationTimers' = TQ!Expired /\ timers' = timers \ TQ!Expired
      /\ TQ!Expired \subseteq timers /\ \A t \in TQ!Expired : t.exp <= now
      /\ sampledId' = gId
      /\ UNCHANGED <<now, current, gId, alarm, fired, last>>
  BY DEF TQ!GetExpiredTimes, TQ!Expired
<1>2. now \in Nat /\ ahead \in Nat /\ ahead' = ahead /\ ranAt' = ranAt
  BY <1>1, NoRun DEF Apart, TQ!TypeOK, Follows
<1>3. TQ!TypeOK'
  BY <1>1 DEF Apart, TQ!TypeOK
<1>4. TQ!Held' \subseteq TQ!Held
  BY <1>1 DEF TQ!Held, TQ!Running
<1>5. ASSUME NEW t \in TQ!Expired, fired[t.id] > 0
      PROVE  ranAt[t.id] + t.interval <= ahead
  <2>1. t.id \in TQ!Ids /\ t.exp \in Nat /\ t.interval \in Nat /\ t.exp <= now
    BY <1>1, TimerFields DEF Apart
  <2>2. ranAt[t.id] \in Nat /\ ranAt[t.id] + t.interval + now <= t.exp + ahead
    BY <1>1, <1>5, <2>1 DEF Apart
  <2> QED
    BY <1>2, <2>1, <2>2
<1> QED
  BY <1>1, <1>2, <1>3, <1>4, <1>5 DEF Apart

(* The run of a timer that ran before comes an interval later at least.    *)
LEMMA ApartStartRun ==
  ASSUME Apart, Follows, TQ!StartRun
  PROVE  /\ Apart'
         /\ \A i \in TQ!Ids : fired'[i] > fired[i] /\ fired[i] > 0 =>
              ahead - ranAt[i] >= alarm[i].interval
<1>1. PICK r \in expirationTimers :
        /\ current' = r
        /\ expirationTimers' = expirationTimers \ {r}
        /\ fired' = [fired EXCEPT ![r.id] = fired[r.id] + 1]
        /\ last' = [last EXCEPT ![r.id] = now]
  BY DEF TQ!StartRun
<1>2. /\ timerAt = "batch" /\ timerAt' = "callback"
      /\ UNCHANGED <<now, timers, gId, alarm, sampledId>>
  BY DEF TQ!StartRun
<1>3. /\ r \in TQ!Timer /\ r.id \in TQ!Ids /\ r.id \in Nat /\ r.interval \in Nat
      /\ r \in TQ!Held /\ r.id < gId /\ r.interval = alarm[r.id].interval
  BY <1>1, TimerFields DEF Apart, TQ!Held
<1>4. now \in Nat /\ ahead \in Nat /\ ahead' = ahead /\ gId \in Nat /\ fired \in [TQ!Ids -> Nat]
  BY <1>2 DEF Apart, TQ!TypeOK, Follows
<1>5. /\ fired'[r.id] = fired[r.id] + 1 /\ ranAt'[r.id] = ahead
      /\ \A i \in TQ!Ids : i # r.id => fired'[i] = fired[i] /\ ranAt'[i] = ranAt[i]
  BY <1>1, <1>3, <1>4 DEF Follows
<1>6. TQ!TypeOK'
  BY <1>1, <1>2, <1>3, <1>4 DEF Apart, TQ!TypeOK
<1>7. TQ!Held' = TQ!Held
  BY <1>1, <1>2 DEF TQ!Held, TQ!Running
<1>8. /\ ranAt' \in [TQ!Ids -> Nat]
      /\ \A i \in TQ!Ids : ranAt'[i] <= ahead'
  <2>1. \A i \in TQ!Ids : ranAt'[i] \in Nat /\ ranAt'[i] <= ahead
    BY <1>4, <1>5 DEF Apart
  <2> QED
    BY <1>4, <2>1 DEF Follows
<1>9. \A t \in timers \cup expirationTimers' : t \in TQ!Held /\ t.id \in TQ!Ids /\ t.id # r.id
  BY <1>1, <1>3, TimerFields DEF Apart, TQ!Held
<1>10. \A i \in TQ!Ids : i >= gId' => fired'[i] = 0
  BY <1>2, <1>3, <1>4, <1>5 DEF Apart
<1>11. ASSUME NEW t \in timers', fired'[t.id] > 0
       PROVE  ranAt'[t.id] + t.interval + now' <= t.exp + ahead'
  BY <1>2, <1>4, <1>5, <1>9, <1>11 DEF Apart
<1>12. ASSUME NEW t \in expirationTimers', fired'[t.id] > 0
       PROVE  ranAt'[t.id] + t.interval <= ahead'
  BY <1>1, <1>4, <1>5, <1>9, <1>12 DEF Apart
<1>13. Apart'
  BY <1>1, <1>2, <1>3, <1>4, <1>6, <1>7, <1>8, <1>9, <1>10, <1>11, <1>12 DEF Apart
<1>14. ASSUME NEW i \in TQ!Ids, fired'[i] > fired[i], fired[i] > 0
       PROVE  ahead - ranAt[i] >= alarm[i].interval
  <2>1. i = r.id
    BY <1>4, <1>5, <1>14
  <2>2. ranAt[i] \in Nat /\ ranAt[i] + r.interval <= ahead
    BY <1>1, <1>14, <2>1 DEF Apart
  <2> QED
    BY <1>3, <1>4, <2>1, <2>2
<1> QED
  BY <1>13, <1>14

LEMMA ApartFinishRun ==
  ASSUME Apart, Follows, TQ!FinishRun
  PROVE  Apart'
<1>0. PICK back : back = TQ!Reset(current)
  OBVIOUS
<1>1. /\ timerAt = "callback" /\ timerAt' = "batch" /\ current' = TQ!NoTimer
      /\ timers' = IF TQ!IsRepeat(current) THEN timers \cup {back} ELSE timers
      /\ UNCHANGED <<now, expirationTimers, gId, alarm, fired, last, sampledId>>
  BY <1>0 DEF TQ!FinishRun, TQ!historyVars
<1>2. /\ current \in TQ!Timer /\ current \in TQ!Held /\ current.id \in TQ!Ids
      /\ current.interval \in Nat /\ current.id < gId
      /\ current.interval = alarm[current.id].interval
      /\ now \in Nat /\ ahead \in Nat /\ ahead' = ahead /\ ranAt' = ranAt
  BY <1>1, NoRun DEF Apart, TQ!TypeOK, TQ!Held, TQ!Running, TQ!Timer, Follows
<1>3. /\ back \in TQ!Timer /\ back.id = current.id /\ back.interval = current.interval
      /\ back.exp = now + current.interval
  BY <1>0, <1>2 DEF TQ!Reset, TQ!Timer
<1>4. TQ!TypeOK'
  BY <1>1, <1>3 DEF Apart, TQ!TypeOK
<1>5. TQ!Held' \subseteq timers \cup expirationTimers \cup {back}
      /\ timers \cup expirationTimers \subseteq TQ!Held
  BY <1>1 DEF TQ!Held, TQ!Running
<1>6. \A t \in timers \cup expirationTimers : t.id # back.id
  BY <1>1, <1>3 DEF Apart
<1>7. \A t, u \in TQ!Held' : t.id = u.id => t = u
  BY <1>5, <1>6 DEF Apart
<1>8. timers' \cap expirationTimers' = {}
  BY <1>1, <1>6 DEF Apart
<1>9. \A t \in TQ!Held' : t.id < gId' /\ t.interval = alarm'[t.id].interval
  BY <1>1, <1>2, <1>3, <1>5 DEF Apart
<1>10. ranAt[back.id] + back.interval + now <= back.exp + ahead
  <2>1. ranAt[current.id] \in Nat /\ ranAt[current.id] <= ahead
    BY <1>2 DEF Apart
  <2> QED
    BY <1>2, <1>3, <2>1
<1> QED
  BY <1>1, <1>2, <1>4, <1>7, <1>8, <1>9, <1>10 DEF Apart

LEMMA ApartFinishBatch ==
  ASSUME Apart, Follows, TQ!FinishBatch \/ UNCHANGED timerVars
  PROVE  Apart'
<1>1. /\ UNCHANGED <<now, timers, expirationTimers, current, gId>>
      /\ UNCHANGED <<alarm, fired, last, sampledId>>
      /\ timerAt' = timerAt \/ (timerAt = "batch" /\ timerAt' = "idle")
  BY DEF TQ!FinishBatch, TQ!historyVars, timerVars
<1>2. now \in Nat /\ ahead \in Nat /\ ahead' = ahead /\ ranAt' = ranAt
  BY <1>1, NoRun DEF Apart, TQ!TypeOK, Follows
<1>3. TQ!Held' = TQ!Held /\ TQ!TypeOK'
  BY <1>1 DEF Apart, TQ!Held, TQ!Running, TQ!TypeOK
<1> QED
  BY <1>1, <1>2, <1>3 DEF Apart

(* Only StartRun runs a timer.                                             *)
LEMMA OnlyStartRuns == TQ!Next /\ ~TQ!StartRun => UNCHANGED fired
BY DEF TQ!Next, TQ!Tick, TQ!Request, TQ!RunUntil, TQ!RunAfter, TQ!RunEvery, TQ!Insert,
       TQ!GetExpiredTimes, TQ!FinishRun, TQ!FinishBatch, TQ!historyVars

LEMMA ApartNext ==
  ASSUME Apart, [StepsNext]_allVars
  PROVE  /\ Apart'
         /\ \A i \in TQ!Ids : fired'[i] > fired[i] /\ fired[i] > 0 =>
              ahead - ranAt[i] >= alarm[i].interval
<1>0. \A i \in TQ!Ids : fired[i] \in Nat
  BY DEF Apart, TQ!TypeOK
<1>1. CASE SteadyStep
  <2>1. (TQ!Next \/ UNCHANGED timerVars) /\ Follows
    BY <1>1, TimersStep DEF SteadyStep, Follows
  <2>2. CASE TQ!StartRun
    BY <2>1, <2>2, ApartStartRun
  <2>3. CASE ~TQ!StartRun
    <3>1. UNCHANGED fired
      BY <2>1, <2>3, OnlyStartRuns DEF timerVars
    <3>2. Apart'
      <4>1. CASE TQ!Tick
        <5>1. now \in Nat /\ ahead \in Nat /\ now' = now + 1 /\ ahead' = ahead + 1
          BY <2>1, <4>1 DEF TQ!Tick, Apart, TQ!TypeOK, Follows
        <5>2. ranAt' = ranAt
          BY <2>1, <3>1, NoRun
        <5> QED
          BY <4>1, <5>1, <5>2, ApartClock DEF TQ!Tick, TQ!queueVars, TQ!historyVars
      <4> QED
        BY <2>1, <2>3, <4>1, ApartRequest, ApartGetExpired, ApartFinishRun, ApartFinishBatch
           DEF TQ!Next
    <3> QED
      BY <1>0, <3>1, <3>2
  <2> QED
    BY <2>2, <2>3
<1>2. CASE \E d \in Steps : SetClock(d)
  <2>1. PICK d \in Int : SetClock(d)
    BY <1>2, ClockStepsAssumption
  <2>2. now' \in Nat /\ UNCHANGED fired
    BY <2>1 DEF SetClock
  <2>3. ahead' = IF d > 0 THEN ahead + d ELSE ahead
    BY <2>1 DEF SetClock
  <2> QED
    BY <1>0, <2>1, <2>2, <2>3, ApartClock DEF SetClock
<1>3. CASE UNCHANGED allVars
  <2>1. UNCHANGED timerVars /\ UNCHANGED <<ahead, ranAt>>
    BY <1>3 DEF allVars, stepVars, vars
  <2>2. Apart'
    BY <2>1 DEF timerVars, Apart, TQ!TypeOK, TQ!Held, TQ!Running
  <2> QED
    BY <1>0, <2>1, <2>2 DEF timerVars
<1> QED
  BY <1>1, <1>2, <1>3 DEF StepsNext

LEMMA ApartInit == StepsInit => Apart
<1> SUFFICES ASSUME StepsInit PROVE Apart
  OBVIOUS
<1>1. TQP!TimerInv
  BY EventLoopAssumption, SameTimerTypes, TQP!InvInit DEF StepsInit, Init
<1>2. TQ!TypeOK
  BY <1>1, SameTimerTypes DEF TQP!TimerInv
<1>3. /\ timers = {} /\ expirationTimers = {} /\ TQ!Held = {} /\ timerAt = "idle"
      /\ fired = [i \in TQ!Ids |-> 0] /\ ahead = now
      /\ ranAt = [i \in TQ!Ids |-> 0]
  BY DEF StepsInit, Init, TQ!Init, TQ!Held, TQ!Running
<1> QED
  BY <1>2, <1>3 DEF Apart, TQ!TypeOK

LEMMA ApartInvariant == StepsSafeSpec => []Apart
BY ApartInit, ApartNext, PTL DEF StepsSafeSpec

(* However often the clock is set, by whatever steps and in either         *)
(* direction, and however slow the loop is: a repeating timer does not run *)
(* again before its interval has passed on a clock that is never set back. *)
THEOREM IntervalsKeptHolds == StepsSafeSpec => IntervalsKept
<1>1. Apart /\ [StepsNext]_allVars =>
        [\A i \in TQ!Ids : fired'[i] > fired[i] /\ fired[i] > 0 =>
           ahead - ranAt[i] >= alarm[i].interval]_allVars
  BY ApartNext
<1> QED
  BY <1>1, ApartInvariant, PTL DEF StepsSafeSpec, IntervalsKept

(* Neither the types nor the tasks depend on what is done to the clock:    *)
(* what is proved of PendingTasks is true of the loop when the clock is    *)
(* set, by any steps.                                                      *)
LEMMA SetWaitTyped ==
  ASSUME NEW d \in Int, SetClock(d), TQ!TypeOK, WaitTyped
  PROVE  WaitTyped'
<1>1. /\ now \in Nat /\ now' = now + d /\ now' \in Nat
      /\ UNCHANGED <<loopAt, timeout>>
      /\ deadline' = (IF ~Waiting \/ deadline = Never THEN deadline
                      ELSE IF TimedOut THEN TQ!Epoch ELSE deadline + d)
  BY EventLoopAssumption DEF SetClock, taskVars, TQ!TypeOK
<1>2. deadline' \in {NotWaiting, Never} \cup Nat
  BY <1>1 DEF WaitTyped, Waiting, TimedOut, TQ!Epoch, Never
<1>3. Waiting' <=> Waiting
  BY <1>1, <1>2 DEF WaitTyped, Waiting, TimedOut, TQ!Epoch, Never, NotWaiting
<1> QED
  BY <1>1, <1>2, <1>3 DEF WaitTyped

THEOREM KeepsTasksWhenSet == StepsSafeSpec => PT!SafeSpec /\ []TypeOK
<1>1. StepsInit => PT!Init /\ WaitTyped
  BY DEF StepsInit, Init, PT!Init, WaitTyped, Waiting
<1>2. [StepsNext]_allVars => [PT!Next]_(PT!vars)
  BY TasksStep
     DEF StepsNext, SteadyStep, SetClock, allVars, vars, taskVars, PT!vars
<1>3. Apart /\ WaitTyped /\ [StepsNext]_allVars => WaitTyped'
  <2> SUFFICES ASSUME Apart, WaitTyped, [StepsNext]_allVars PROVE WaitTyped'
    OBVIOUS
  <2>1. TQ!TypeOK
    BY DEF Apart
  <2>2. CASE SteadyStep \/ UNCHANGED allVars
    BY <2>1, <2>2, WaitTypedNext DEF SteadyStep, allVars
  <2>3. CASE \E d \in Steps : SetClock(d)
    BY <2>1, <2>3, SetWaitTyped, ClockStepsAssumption
  <2> QED
    BY <2>2, <2>3 DEF StepsNext
<1>4. Apart /\ PT!TypeOK /\ WaitTyped => TypeOK
  BY DEF Apart, TypeOK, WaitTyped
<1>5. StepsSafeSpec => PT!SafeSpec
  BY <1>1, <1>2, PTL DEF StepsSafeSpec, PT!SafeSpec
<1> QED
  BY <1>1, <1>3, <1>4, <1>5, ApartInvariant, TasksTyped, PTL DEF StepsSafeSpec

-----------------------------------------------------------------------------
(* The wait.                                                               *)

(* What a timeout of epoll_wait can hold.                                  *)
Horizon == Half * TicksPerMs

(* No step of the clock is longer than b backwards, and every delay, with  *)
(* all that the clock may be set back in the mean time, fits the timeout.  *)
FitsWith(b) ==
  /\ \A d \in Steps : -b <= d
  /\ \A ms \in Delays \cup Intervals : ms * TicksPerMs + MaxSteps * b < Horizon

(* What the theorem needs of an instance: the clock is past the Epoch, no  *)
(* time is given that can be in the past, and the timeouts fit.            *)
Fits ==
  /\ 0 \notin StartTimes /\ Timestamps = {}
  /\ \E b \in Nat : FitsWith(b)

Back == CHOOSE b \in Nat : FitsWith(b)

(* By how much the clock may still be set back.                            *)
Room == (MaxSteps - stepped) * Back

(* Every timer is within the reach of a timeout, and not at the Epoch, and *)
(* will be, however the clock is set.                                      *)
Soon(t) ==
  t.exp > 0 /\ t.exp + Room < now + Horizon /\ t.interval + MaxSteps * Back < Horizon
AllSoon == now > 0 /\ stepped \in 0 .. MaxSteps /\ \A t \in TQ!Held : Soon(t)

(* From the sample of the clock to the look before the wait, and before    *)
(* the first round, no timer is overdue by more than the lag.              *)
Sampled ==
  \/ loopAt \in {"setup", "check", "pop", "task"}
  \/ loopAt = "wait" /\ ~Looked /\ ~Waiting
  \/ loopAt = "timers" /\ timerAt # "idle"
Fresh ==
  /\ timerAt # "idle" => loopAt = "timers"
  /\ Sampled /\ lag < TicksPerMs => \A t \in timers : now <= t.exp + lag

(* Between the look and the call the timeout is that of the first timer.   *)
TimeoutIsSoon ==
  Looked /\ timers # {} /\ lag < TicksPerMs =>
    /\ timeout \in Nat
    /\ timeout = 0 \/ now + timeout * TicksPerMs <= TQ!GetNextExpiredTime + late

Counted == lag \in 0 .. TicksPerMs /\ late \in Nat

LoopInv ==
  /\ TQ!TypeOK /\ WaitTyped /\ Counted /\ AllSoon
  /\ Fresh /\ TimeoutIsSoon /\ LateByTheStep

(* What a step that is not the clock's leaves of the timers' lateness.     *)
Stands == /\ UNCHANGED <<stepped, lag, late>>
          /\ TQ!TypeOK' /\ WaitTyped'

LEMMA BackFits == Fits => Back \in Nat /\ FitsWith(Back)
BY DEF Fits, Back

(* There is room left, and a step takes no more than its share of it.      *)
LEMMA RoomLeft ==
  ASSUME Fits, NEW n \in 0 .. MaxSteps
  PROVE  /\ (MaxSteps - n) * Back \in Nat
         /\ (MaxSteps - n) * Back <= MaxSteps * Back
         /\ MaxSteps * Back \in Nat
         /\ (MaxSteps - (n + 1)) * Back = (MaxSteps - n) * Back - Back
<1>1. Back \in Nat /\ MaxSteps \in Nat
  BY BackFits, ClockStepsAssumption
<1>2. PICK left \in Nat : left = MaxSteps - n
  BY <1>1
<1>3. MaxSteps * Back = left * Back + n * Back /\ left * Back \in Nat /\ n * Back \in Nat
  BY <1>1, <1>2
<1>4. (left - 1) * Back = left * Back - Back
  BY <1>1
<1>5. MaxSteps - (n + 1) = left - 1
  BY <1>1, <1>2
<1> QED
  BY <1>2, <1>3, <1>4, <1>5

LEMMA RoomTyped ==
  ASSUME Fits, stepped \in 0 .. MaxSteps
  PROVE  Room \in Nat /\ Room <= MaxSteps * Back /\ MaxSteps * Back \in Nat
BY RoomLeft DEF Room

LEMMA RoomStays == UNCHANGED stepped => Room' = Room
BY DEF Room

LEMMA HorizonTyped == Horizon \in Nat
BY EventLoopAssumption DEF Horizon, Half

LEMMA OnlyTickMoves == Next /\ ~Tick => UNCHANGED now
<1> SUFFICES ASSUME Next, ~Tick PROVE UNCHANGED now
  OBVIOUS
<1> USE DEF timerVars, TQ!Request, TQ!RunUntil, TQ!RunAfter, TQ!RunEvery, TQ!Insert
<1>1. CASE Post \/ LookAtClock \/ EnterWait \/ OtherStep
  BY <1>1 DEF Post, LookAtClock, EnterWait, OtherStep
<1>2. CASE PollWake \/ PollTimeout \/ PollOther
  BY <1>2 DEF PollWake, PollTimeout, PollOther, ReturnFromWait
<1>3. CASE ExecExpiredTimesTask
  BY <1>3 DEF ExecExpiredTimesTask, TQ!GetExpiredTimes, TQ!StartRun, TQ!FinishRun,
              TQ!FinishBatch
<1>4. CASE RunTask \/ RequestInline
  BY <1>4 DEF RunTask, RequestInline
<1> QED
  BY <1>1, <1>2, <1>3, <1>4 DEF Next, LoopStep

LEMMA NothingLater ==
  ASSUME Counted, Later(0)
  PROVE  UNCHANGED <<lag, late>>
BY EventLoopAssumption DEF Counted, Later

LEMMA NextExpirationTyped ==
  ASSUME TQ!TypeOK, timers # {}
  PROVE  TQ!GetNextExpiredTime \in Nat /\ \E t \in timers : TQ!GetNextExpiredTime = t.exp
BY FirstIsFirst DEF TQ!GetNextExpiredTime, TQ!TypeOK, TQ!Timer

LEMMA TimeoutSoon ==
  ASSUME NEW e \in Nat, now \in Nat, e < now + Horizon, now < e + TicksPerMs
  PROVE  LET ms == Narrow(TQ!GetMillsecondsFromNow(e))
         IN  ms \in Nat /\ (ms = 0 \/ now + ms * TicksPerMs <= e)
<1> USE EventLoopAssumption
<1>1. CASE e >= now
  <2>1. e - now \in Nat /\ e - now < Half * TicksPerMs
    BY <1>1 DEF Horizon, Half
  <2> DEFINE ms == (e - now) \div TicksPerMs
  <2>2. ms \in Nat /\ ms < Half /\ ms * TicksPerMs <= e - now
    BY <2>1, Quotient DEF Half
  <2>3. Narrow(TQ!GetMillsecondsFromNow(e)) = ms
    BY <1>1, <2>2, NarrowSmall DEF TQ!GetMillsecondsFromNow
  <2> HIDE DEF ms
  <2> QED
    BY <2>1, <2>2, <2>3
<1>2. CASE e < now
  <2>1. now - e \in Nat /\ now - e < TicksPerMs
    BY <1>2
  <2>2. TQ!GetMillsecondsFromNow(e) = 0
    BY <1>2, <2>1, Quotient DEF TQ!GetMillsecondsFromNow
  <2>3. Narrow(TQ!GetMillsecondsFromNow(e)) = 0
    BY <2>2, NarrowSmall DEF Half
  <2> QED
    BY <2>3
<1> QED
  BY <1>1, <1>2

(* The timeout that the loop finds at its look at the clock.               *)
LEMMA LookSoon ==
  ASSUME Fits, LoopInv, LookAtClock, UNCHANGED <<lag, late>>
  PROVE  TimeoutIsSoon'
<1> USE EventLoopAssumption
<1>1. loopAt = "wait" /\ ~Looked /\ ~Waiting /\ UNCHANGED <<now, timers>>
  BY DEF LookAtClock, timerVars, Looked
<1> SUFFICES ASSUME timers # {}, lag < TicksPerMs
             PROVE  /\ timeout' \in Nat
                    /\ \/ timeout' = 0
                       \/ now + timeout' * TicksPerMs <= TQ!GetNextExpiredTime + late
  BY <1>1 DEF TimeoutIsSoon, TQ!GetNextExpiredTime
<1>2. PICK e \in Nat : e = TQ!GetNextExpiredTime /\ \E t \in timers : e = t.exp
  BY NextExpirationTyped DEF LoopInv
<1>3. e > 0 /\ e < now + Horizon
  <2>1. e + Room < now + Horizon /\ e > 0
    BY <1>2 DEF LoopInv, AllSoon, TQ!Held, Soon
  <2>2. Room \in Nat /\ now \in Nat /\ Horizon \in Nat
    BY RoomTyped, HorizonTyped DEF LoopInv, AllSoon, TQ!TypeOK
  <2> QED
    BY <1>2, <2>1, <2>2
<1>4. now < e + TicksPerMs
  <2>1. now <= e + lag /\ now \in Nat /\ lag \in Nat
    <3>1. Sampled
      BY <1>1 DEF Sampled
    <3>2. \A t \in timers : now <= t.exp + lag
      BY <3>1 DEF LoopInv, Fresh
    <3>3. now \in Nat /\ lag \in Nat
      BY DEF LoopInv, Counted, TQ!TypeOK
    <3> QED
      BY <1>2, <3>2, <3>3
  <2> QED
    BY <2>1
<1>5. PICK ms : ms = Narrow(TQ!GetMillsecondsFromNow(e))
  OBVIOUS
<1>6. ms \in Nat /\ (ms = 0 \/ now + ms * TicksPerMs <= e)
  BY <1>3, <1>4, <1>5, TimeoutSoon DEF LoopInv, TQ!TypeOK
<1>7. timeout' = ms
  BY <1>2, <1>3, <1>5, <1>6 DEF LookAtClock, TQ!Epoch
<1>8. \A a : a \in Nat /\ a <= e => a <= e + late
  BY DEF LoopInv, Counted
<1>9. now + ms * TicksPerMs \in Nat
  BY <1>6 DEF LoopInv, TQ!TypeOK
<1> QED
  BY <1>2, <1>6, <1>7, <1>8, <1>9

(* The deadline that the call makes of it.                                 *)
LEMMA EnterWaitSoon ==
  ASSUME LoopInv, EnterWait, UNCHANGED <<lag, late>>
  PROVE  LateByTheStep'
<1> USE EventLoopAssumption
<1>1. Looked /\ UNCHANGED <<now, timers>>
  BY DEF EnterWait, timerVars, Looked
<1> SUFFICES ASSUME timers # {}, lag < TicksPerMs
             PROVE  /\ deadline' # Never
                    /\ deadline' <= TQ!GetNextExpiredTime + late \/ TimedOut'
  BY <1>1 DEF LateByTheStep, TQ!GetNextExpiredTime
<1>2. /\ timeout \in Nat
      /\ timeout = 0 \/ now + timeout * TicksPerMs <= TQ!GetNextExpiredTime + late
  BY <1>1 DEF LoopInv, TimeoutIsSoon
<1>3. deadline' = now + timeout * TicksPerMs /\ now \in Nat
  BY <1>2, DeadlineIsTyped DEF LoopInv, TQ!TypeOK
<1>4. deadline' \in Nat
  BY <1>2, <1>3
<1>5. deadline' # Never /\ deadline' # NotWaiting
  BY <1>4 DEF Never, NotWaiting
<1>6. CASE timeout = 0
  BY <1>1, <1>3, <1>4, <1>5, <1>6 DEF TimedOut, Waiting
<1> QED
  BY <1>2, <1>3, <1>5, <1>6

(* A timer that is set under Fits is   in reach and not yet due.           *)
LEMMA RequestSoon ==
  ASSUME Fits, TQ!TypeOK, AllSoon, TQ!Request
  PROVE  /\ \E new : timers' = timers \cup {new} /\ Soon(new) /\ now <= new.exp
         /\ UNCHANGED <<now, expirationTimers, timerAt, current>>
<1> USE EventLoopAssumption DEF Fits
<1>1. PICK ms \in Delays \cup Intervals :
         \E interval \in {0, ms * TicksPerMs} : TQ!Insert(now + ms * TicksPerMs, interval)
  BY DEF TQ!Request, TQ!RunUntil, TQ!RunAfter, TQ!RunEvery
<1> PICK interval \in {0, ms * TicksPerMs} : TQ!Insert(now + ms * TicksPerMs, interval)
  BY <1>1
<1>2. ms * TicksPerMs \in Nat /\ ms * TicksPerMs + MaxSteps * Back < Horizon
  <2>1. ms \in Nat /\ TicksPerMs \in Nat
    OBVIOUS
  <2> QED
    BY <2>1, BackFits DEF FitsWith
<1>3. /\ Room \in Nat /\ Room <= MaxSteps * Back /\ MaxSteps * Back \in Nat
      /\ Horizon \in Nat
  BY RoomTyped, HorizonTyped DEF AllSoon
<1>4. now \in Nat /\ now > 0
  BY DEF TQ!TypeOK, AllSoon
<1> DEFINE new == [id |-> gId, exp |-> now + ms * TicksPerMs, interval |-> interval]
<1>5. Soon(new) /\ now <= new.exp
  BY <1>2, <1>3, <1>4 DEF Soon
<1>6. timers' = timers \cup {new} /\ UNCHANGED <<now, expirationTimers, timerAt, current>>
  BY <1>1 DEF TQ!Insert
<1> QED
  BY <1>5, <1>6

(* What the loop does with the timers.                                     *)
LEMMA InvRequest ==
  ASSUME Fits, LoopInv, TQ!Request, Stands, ~Waiting, ~Waiting', ~Looked, ~Looked',
         Sampled' => Sampled, timerAt # "idle" => loopAt' = "timers"
  PROVE  LoopInv'
<1>1. PICK new : /\ timers' = timers \cup {new} /\ Soon(new) /\ now <= new.exp
                 /\ UNCHANGED <<now, expirationTimers, timerAt, current>>
  BY RequestSoon DEF LoopInv
<1>2. AllSoon'
  BY <1>1, RoomStays DEF Stands, LoopInv, AllSoon, Soon, TQ!Held, TQ!Running
<1>3. new \in TQ!Timer /\ new.exp \in Nat /\ now \in Nat /\ lag \in Nat
  BY <1>1, EventLoopAssumption DEF Stands, LoopInv, Counted, TQ!TypeOK, TQ!Timer
<1>4. now <= new.exp + lag
  BY <1>1, <1>3
<1>5. Fresh'
  BY <1>1, <1>4 DEF Stands, LoopInv, Fresh
<1> QED
  BY <1>2, <1>5 DEF Stands, LoopInv, Counted, TimeoutIsSoon, LateByTheStep

LEMMA InvExpired ==
  ASSUME Fits, LoopInv, ExecExpiredTimesTask, Stands
  PROVE  LoopInv'
<1> USE EventLoopAssumption DEF LoopInv
<1>1. /\ loopAt = "timers" /\ loopAt' \in {"timers", "check"}
      /\ loopAt' = "check" => TQ!FinishBatch
      /\ UNCHANGED <<timeout, deadline, stepped, lag, late>>
  BY DEF ExecExpiredTimesTask, taskVars, PT!TimersDone, Stands
<1>2. TimeoutIsSoon' /\ LateByTheStep' /\ Counted' /\ TQ!TypeOK' /\ WaitTyped'
  BY <1>1 DEF Stands, WaitTyped, Counted, TimeoutIsSoon, LateByTheStep, Looked, Waiting
<1>3. now \in Nat /\ lag \in Nat /\ \A t \in timers \cup timers' : t.exp \in Nat
  BY <1>2 DEF Counted, TQ!TypeOK, TQ!Timer
<1> SUFFICES AllSoon' /\ Fresh'
  BY <1>2
<1>4. CASE TQ!GetExpiredTimes
  <2>1. AllSoon'
    BY <1>1, <1>4, RoomStays
       DEF TQ!GetExpiredTimes, TQ!Expired, AllSoon, Soon, TQ!Held, TQ!Running
  <2>2. timerAt' = "batch" /\ now' = now /\ loopAt' = "timers"
    BY <1>1, <1>4 DEF TQ!GetExpiredTimes, TQ!FinishBatch
  <2>3. \A t \in timers' : now <= t.exp + lag
    BY <1>3, <1>4 DEF TQ!GetExpiredTimes, TQ!Expired
  <2> QED
    BY <1>1, <2>1, <2>2, <2>3 DEF Fresh
<1>5. CASE TQ!StartRun
  <2>1. AllSoon'
    BY <1>1, <1>5, RoomStays DEF TQ!StartRun, AllSoon, Soon, TQ!Held, TQ!Running
  <2>2. timerAt = "batch" /\ timerAt' = "callback" /\ UNCHANGED <<now, timers>>
    BY <1>5 DEF TQ!StartRun
  <2> QED
    BY <1>1, <1>5, <2>1, <2>2 DEF Fresh, Sampled, TQ!FinishBatch
<1>6. CASE TQ!FinishRun
  <2>1. timerAt = "callback" /\ timerAt' = "batch" /\ UNCHANGED <<now, expirationTimers>>
    BY <1>6 DEF TQ!FinishRun
  <2>2. Soon(current) /\ current.exp \in Nat /\ current.interval \in Nat
        /\ DOMAIN current = {"id", "exp", "interval"}
    BY <2>1 DEF AllSoon, TQ!Held, TQ!Running, TQ!TypeOK, TQ!Timer, TQ!NoTimer
  <2>3. ASSUME NEW t \in timers' \ timers
        PROVE  t.exp = now + current.interval /\ t.interval = current.interval
    BY <1>6, <2>2, <2>3 DEF TQ!FinishRun, TQ!Reset
  <2>4. /\ Room \in Nat /\ Room <= MaxSteps * Back /\ MaxSteps * Back \in Nat
        /\ Horizon \in Nat
    BY RoomTyped, HorizonTyped DEF AllSoon
  <2>5. \A t \in timers' \ timers : Soon(t) /\ now <= t.exp
    BY <1>3, <2>2, <2>3, <2>4 DEF Soon, AllSoon
  <2>6. AllSoon'
    BY <1>1, <2>1, <2>5, RoomStays DEF AllSoon, Soon, TQ!Held, TQ!Running
  <2>7. lag < TicksPerMs => \A t \in timers' : now <= t.exp + lag
    BY <1>1, <1>3, <2>1, <2>5 DEF Fresh, Sampled
  <2> QED
    BY <1>1, <2>1, <2>6, <2>7 DEF Fresh, TQ!FinishBatch
<1>7. CASE TQ!FinishBatch
  <2>1. timerAt = "batch" /\ timerAt' = "idle" /\ UNCHANGED <<now, timers, expirationTimers>>
    BY <1>7 DEF TQ!FinishBatch
  <2>2. AllSoon'
    BY <1>1, <2>1, RoomStays DEF AllSoon, Soon, TQ!Held, TQ!Running
  <2> QED
    BY <1>1, <2>1, <2>2 DEF Fresh, Sampled
<1> QED
  BY <1>4, <1>5, <1>6, <1>7 DEF ExecExpiredTimesTask

(* No timer is touched, and none looked for.                               *)
LEMMA InvElsewhere ==
  ASSUME Fits, LoopInv, Stands, UNCHANGED timerVars, ~Waiting', ~Looked',
         Sampled' => Sampled, timerAt # "idle" => loopAt' = "timers"
  PROVE  LoopInv'
<1>1. AllSoon'
  BY RoomStays DEF timerVars, Stands, LoopInv, AllSoon, Soon, TQ!Held, TQ!Running
<1>2. Fresh'
  BY DEF timerVars, Stands, LoopInv, Fresh
<1> QED
  BY <1>1, <1>2 DEF Stands, LoopInv, Counted, TimeoutIsSoon, LateByTheStep

LEMMA Forward ==
  \A d \in Int, k, l \in Nat : (d > 0 => l = k + d) /\ (d <= 0 => k <= l) => d <= l - k
OBVIOUS

LEMMA Carried ==
  /\ \A d \in Int, m, n, w, e, k, l \in Nat :
       n = m + d /\ m + w <= e + k /\ d <= l - k => n + w <= e + l
  /\ \A m, n, e, k, l \in Nat : m <= e + k /\ n - m <= l - k => n <= e + l
OBVIOUS

(* Time passes, or the clock is set: only lag and late tell which.         *)
LEMMA InvClock ==
  ASSUME Fits, LoopInv, NEW d \in Int, now' = now + d, now' > 0,
         TQ!TypeOK', WaitTyped', AllSoon', Counted',
         UNCHANGED <<timers, timerAt, loopAt, timeout>>,
         d > 0 /\ ~Waiting => Later(d),
         d <= 0 => lag' = lag /\ late <= late',
         Waiting' <=> Waiting,
         Waiting =>
           /\ lag' = lag
           /\ deadline = Never => deadline' = Never
           /\ deadline # Never =>
                \/ TimedOut'
                \/ ~TimedOut /\ deadline' \in Nat /\ deadline' - deadline <= late' - late
  PROVE  LoopInv'
<1> USE EventLoopAssumption
<1>1. /\ now \in Nat /\ now' \in Nat /\ lag \in Nat /\ lag' \in Nat
      /\ late \in Nat /\ late' \in Nat /\ TicksPerMs \in Nat
      /\ \A t \in timers : t.exp \in Nat
  BY DEF LoopInv, Counted, TQ!TypeOK, TQ!Timer
<1>2. /\ Looked' = Looked /\ (Looked => ~Waiting /\ loopAt = "wait")
      /\ deadline \in {NotWaiting, Never} \cup Nat
  BY DEF LoopInv, WaitTyped, Looked
<1>3. Fresh'
  <2>1. timerAt' # "idle" => loopAt' = "timers"
    BY DEF LoopInv, Fresh
  <2> SUFFICES ASSUME Sampled', lag' < TicksPerMs, NEW t \in timers
               PROVE  now' <= t.exp + lag'
    BY <2>1 DEF Fresh
  <2>2. Sampled /\ ~Looked /\ ~Waiting
    BY <1>2 DEF LoopInv, WaitTyped, Sampled, Looked, Waiting, NotLooked
  <2>3. Working
    BY <2>2 DEF Working, Sampled
  <2>4. d > 0 => lag' = lag + d
    <3> SUFFICES ASSUME d > 0 PROVE lag' = lag + d
      OBVIOUS
    <3>1. lag' = IF lag + d < TicksPerMs THEN lag + d ELSE TicksPerMs
      BY <2>2, <2>3 DEF Later
    <3> QED
      BY <1>1, <3>1
  <2>5. lag < TicksPerMs
    BY <1>1, <2>4
  <2>6. now <= t.exp + lag
    BY <2>2, <2>5 DEF LoopInv, Fresh
  <2> QED
    BY <1>1, <2>4, <2>6
<1>4. TQ!GetNextExpiredTime' = TQ!GetNextExpiredTime
  BY DEF TQ!GetNextExpiredTime
<1>5. TimeoutIsSoon'
  <2> SUFFICES ASSUME Looked, timers # {}, lag' < TicksPerMs
               PROVE  /\ timeout \in Nat
                      /\ \/ timeout = 0
                         \/ now' + timeout * TicksPerMs <= TQ!GetNextExpiredTime + late'
    BY <1>2, <1>4 DEF TimeoutIsSoon
  <2>1. lag' = lag
    BY <1>2 DEF Later, Working
  <2>2. /\ timeout \in Nat
        /\ timeout = 0 \/ now + timeout * TicksPerMs <= TQ!GetNextExpiredTime + late
    BY <2>1 DEF LoopInv, TimeoutIsSoon
  <2>3. d <= late' - late
    <3>1. d > 0 => late' = late + d
      BY <1>2, <2>2 DEF Later
    <3> QED
      BY <1>1, <3>1, Forward
  <2>4. PICK e \in Nat : e = TQ!GetNextExpiredTime
    BY NextExpirationTyped DEF LoopInv
  <2>5. PICK w \in Nat : w = timeout * TicksPerMs
    BY <2>2
  <2>6. CASE timeout # 0
    <3>1. now + w <= e + late
      BY <2>2, <2>4, <2>5, <2>6
    <3>2. now' + w <= e + late'
      BY <1>1, <2>3, <3>1, Carried
    <3> QED
      BY <2>2, <2>4, <2>5, <3>2
  <2> QED
    BY <2>2, <2>6
<1>6. LateByTheStep'
  <2> SUFFICES ASSUME Waiting, timers # {}, lag' < TicksPerMs
               PROVE  /\ deadline' # Never
                      /\ deadline' <= TQ!GetNextExpiredTime + late' \/ TimedOut'
    BY <1>4 DEF LateByTheStep
  <2>1. deadline # Never /\ (deadline <= TQ!GetNextExpiredTime + late \/ TimedOut)
    BY DEF LoopInv, LateByTheStep
  <2>2. CASE TimedOut'
    BY <2>2 DEF TimedOut
  <2>3. CASE ~TimedOut'
    <3>1. ~TimedOut /\ deadline' \in Nat /\ deadline' - deadline <= late' - late
      BY <2>1, <2>3
    <3>2. deadline \in Nat
      BY <1>2, <2>1 DEF Waiting
    <3>3. PICK e \in Nat : e = TQ!GetNextExpiredTime
      BY NextExpirationTyped DEF LoopInv
    <3>4. deadline <= e + late
      BY <2>1, <3>1, <3>3
    <3>5. deadline' <= e + late'
      BY <1>1, <3>1, <3>2, <3>3, <3>4, Carried
    <3> QED
      BY <3>1, <3>3, <3>5 DEF Never
  <2> QED
    BY <2>2, <2>3
<1> QED
  BY <1>3, <1>5, <1>6 DEF LoopInv

(* A step under a steady clock.                                            *)
LEMMA SteadyInv ==
  ASSUME Fits, LoopInv, SteadyStep, TQ!TypeOK'
  PROVE  LoopInv'
<1> USE EventLoopAssumption
<1>1. /\ Next /\ stepped' = stepped /\ Room' = Room
      /\ (Waiting /\ ~Waiting') => lag' = 0 /\ late' = 0
      /\ (Waiting /\ Waiting') => UNCHANGED <<lag, late>>
      /\ ~Waiting => Later(now' - now)
  BY RoomStays DEF SteadyStep
<1>2. WaitTyped' /\ now \in Nat
  BY <1>1, WaitTypedNext DEF LoopInv, TQ!TypeOK
<1>3. CASE Tick
  <2>1. /\ now' = now + 1 /\ now' - now = 1
        /\ UNCHANGED <<timers, expirationTimers, timerAt, current, loopAt, timeout, deadline>>
    BY <1>2, <1>3 DEF Tick, TQ!Tick, TQ!queueVars, taskVars
  <2>2. AllSoon'
    <3>1. TQ!Held' = TQ!Held
      BY <2>1 DEF TQ!Held, TQ!Running
    <3>2. \A t \in TQ!Held : t.exp \in Nat
      BY DEF LoopInv, TQ!TypeOK, TQ!Held, TQ!Running, TQ!Timer, TQ!NoTimer
    <3> QED
      BY <1>1, <1>2, <2>1, <3>1, <3>2, RoomTyped, HorizonTyped DEF LoopInv, AllSoon, Soon
  <2>3. Waiting' = Waiting
    BY <2>1 DEF Waiting
  <2>4. Counted' /\ late <= late'
    BY <1>1, <2>1, <2>3 DEF LoopInv, Counted, Later
  <2>5. Waiting /\ deadline # Never => deadline \in Nat /\ (TimedOut => TimedOut')
    BY <1>2, <2>1 DEF LoopInv, WaitTyped, Waiting, TimedOut
  <2>6. Waiting /\ deadline # Never =>
          TimedOut' \/ (~TimedOut /\ deadline' \in Nat /\ deadline' - deadline <= late' - late)
    BY <2>1, <2>4, <2>5 DEF LoopInv, Counted
  <2> QED
    BY <1>1, <1>2, <2>1, <2>2, <2>3, <2>4, <2>6, InvClock
<1>4. CASE ~Tick
  <2>1. now' = now /\ now' - now = 0
    BY <1>1, <1>2, <1>4, OnlyTickMoves
  <2>2. ~Waiting \/ Waiting' => Stands
    BY <1>1, <1>2, <2>1, NothingLater DEF LoopInv, Stands
  <2>3. CASE Post
    <3>1. UNCHANGED <<timerVars, loopAt, timeout, deadline>>
      BY <2>3 DEF Post, PT!QueueInLoopThread, PT!Signal
    <3>2. Stands
      BY <2>2, <3>1 DEF Waiting
    <3> QED
      BY <1>1, <3>1, <3>2 DEF Stands, LoopInv, timerVars, Counted, AllSoon, Soon, TQ!Held,
         TQ!Running, Fresh, Sampled, Looked, Waiting, TimeoutIsSoon, LateByTheStep,
         TimedOut, TQ!GetNextExpiredTime
  <2>4. CASE LookAtClock
    <3>1. /\ UNCHANGED <<timerVars, loopAt, deadline>> /\ ~Waiting /\ ~Waiting'
          /\ loopAt = "wait" /\ Looked'
      BY <2>4, TimeoutIsTyped DEF LookAtClock, taskVars, Waiting, Looked, LoopInv, NotLooked,
                                  Never
    <3>2. Stands
      BY <2>2, <3>1
    <3>3. Fresh' /\ LateByTheStep'
      BY <3>1 DEF timerVars, LoopInv, Fresh, Sampled, LateByTheStep
    <3>4. AllSoon'
      BY <1>1, <3>1 DEF timerVars, LoopInv, AllSoon, Soon, TQ!Held, TQ!Running
    <3> QED
      BY <2>4, <3>2, <3>3, <3>4, LookSoon DEF Stands, LoopInv, Counted
  <2>5. CASE EnterWait
    <3>1. /\ UNCHANGED <<timerVars, loopAt>> /\ ~Waiting /\ Waiting' /\ ~Looked'
          /\ loopAt = "wait"
      BY <2>5, DeadlineIsTyped DEF EnterWait, taskVars, Waiting, Looked, LoopInv, WaitTyped,
                                   NotWaiting, NotLooked, Never
    <3>2. Stands
      BY <2>2, <3>1
    <3>3. Fresh' /\ TimeoutIsSoon'
      BY <3>1 DEF timerVars, LoopInv, Fresh, Sampled, TimeoutIsSoon
    <3>4. AllSoon'
      BY <1>1, <3>1 DEF timerVars, LoopInv, AllSoon, Soon, TQ!Held, TQ!Running
    <3> QED
      BY <2>5, <3>2, <3>3, <3>4, EnterWaitSoon DEF Stands, LoopInv, Counted
  <2>6. CASE PollWake \/ PollTimeout \/ PollOther
    <3>1. /\ loopAt = "wait" /\ loopAt' = "dispatch" /\ UNCHANGED <<timerVars, timeout>>
          /\ Waiting /\ ~Waiting'
      BY <2>6 DEF PollWake, PollTimeout, PollOther, ReturnFromWait, PT!PollWake, PT!PollOther,
                  Waiting
    <3>2. ~Looked' /\ Counted'
      BY <1>1, <3>1, EventLoopAssumption DEF LoopInv, WaitTyped, Looked, Counted
    <3>3. Fresh' /\ TimeoutIsSoon' /\ LateByTheStep'
      BY <3>1, <3>2 DEF timerVars, LoopInv, Fresh, Sampled, TimeoutIsSoon, LateByTheStep
    <3>4. AllSoon'
      BY <1>1, <3>1 DEF timerVars, LoopInv, AllSoon, Soon, TQ!Held, TQ!Running
    <3> QED
      BY <1>2, <3>2, <3>3, <3>4 DEF LoopInv
  <2>7. ASSUME loopAt # "wait", UNCHANGED <<timeout, deadline>>
        PROVE  ~Waiting /\ ~Waiting' /\ ~Looked /\ ~Looked' /\ Stands
    BY <2>2, <2>7 DEF LoopInv, WaitTyped, Waiting, Looked
  <2>8. CASE ExecExpiredTimesTask
    BY <2>7, <2>8, InvExpired DEF ExecExpiredTimesTask
  <2>9. CASE RunTask
    <3>1. loopAt = "task" /\ loopAt' = "check" /\ UNCHANGED <<timeout, deadline>>
      BY <2>9 DEF RunTask, PT!RunTask
    <3>2. timerAt = "idle" /\ Sampled
      BY <3>1 DEF LoopInv, Fresh, Sampled
    <3> QED
      BY <2>7, <2>9, <3>1, <3>2, InvRequest, InvElsewhere DEF RunTask
  <2>10. CASE OtherStep
    <3>1. /\ UNCHANGED timerVars /\ UNCHANGED <<timeout, deadline>>
          /\ loopAt \in {"setup", "dispatch", "check", "pop"}
          /\ loopAt = "setup" => loopAt' = "wait"
          /\ loopAt = "dispatch" => loopAt' = "timers"
          /\ loopAt = "check" => loopAt' \in {"wait", "pop"}
          /\ loopAt = "pop" => loopAt' \in {"wait", "task"}
      BY <2>10 DEF OtherStep, PT!StartLoop, PT!HandleEvents, PT!CheckPending, PT!TryPop
    <3>2. timerAt = "idle" /\ timerAt' = "idle"
      BY <3>1 DEF LoopInv, Fresh, timerVars
    <3>3. Sampled' => Sampled
      BY <3>1, <3>2 DEF Sampled
    <3> QED
      BY <2>7, <3>1, <3>2, <3>3, InvElsewhere
  <2>11. CASE RequestInline
    <3>1. /\ loopAt \in {"setup", "dispatch", "timers", "task"}
          /\ UNCHANGED <<loopAt, timeout, deadline>>
          /\ TQ!Request /\ (loopAt = "timers" => timerAt = "callback")
      BY <2>11 DEF RequestInline, PT!RunInline
    <3>2. timerAt' = timerAt
      BY <3>1, RequestSoon DEF LoopInv
    <3>3. (Sampled' => Sampled) /\ (timerAt # "idle" => loopAt' = "timers")
      BY <3>1, <3>2 DEF Sampled, LoopInv, Fresh
    <3> QED
      BY <2>7, <3>1, <3>3, InvRequest
  <2> QED
    BY <1>1, <1>4, <2>3, <2>4, <2>5, <2>6, <2>8, <2>9, <2>10, <2>11 DEF Next, LoopStep
<1> QED
  BY <1>3, <1>4

(* The clock is set, forward or back.                                      *)
LEMMA ClockIsSet ==
  ASSUME Fits, NEW d \in Int, -Back <= d, SetClock(d), LoopInv, TQ!TypeOK'
  PROVE  LoopInv'
<1> USE EventLoopAssumption
<1>1. /\ now \in Nat /\ now' = now + d /\ now' \in Nat /\ now' > 0
      /\ stepped < MaxSteps /\ stepped' = stepped + 1
      /\ UNCHANGED <<timers, expirationTimers, timerAt, current, loopAt, timeout>>
      /\ d > 0 => Later(d)
      /\ d <= 0 => UNCHANGED <<lag, late>>
      /\ deadline' = (IF ~Waiting \/ deadline = Never THEN deadline
                      ELSE IF TimedOut THEN TQ!Epoch ELSE deadline + d)
  BY DEF SetClock, taskVars, LoopInv, TQ!TypeOK
<1>2. /\ lag \in 0 .. TicksPerMs /\ late \in Nat
      /\ deadline \in {NotWaiting, Never} \cup Nat
      /\ Waiting => ~Looked
  BY DEF LoopInv, WaitTyped, Counted, Looked
<1>3. WaitTyped'
  BY SetWaitTyped DEF LoopInv
<1>4. AllSoon'
  <2>1. TQ!Held' = TQ!Held
    BY <1>1 DEF TQ!Held, TQ!Running
  <2>2. \A t \in TQ!Held : t.exp \in Nat
    BY DEF LoopInv, TQ!TypeOK, TQ!Held, TQ!Running, TQ!Timer, TQ!NoTimer
  <2>3. stepped \in 0 .. MaxSteps /\ stepped' \in 0 .. MaxSteps
    BY <1>1, ClockStepsAssumption DEF LoopInv, AllSoon
  <2>4. Room' = Room - Back
    BY <1>1, <2>3, RoomLeft DEF Room
  <2>5. Room \in Nat /\ Back \in Nat /\ Horizon \in Nat
    BY <2>3, RoomTyped, BackFits, HorizonTyped
  <2>6. ASSUME NEW t \in TQ!Held PROVE Soon(t)'
    <3>1. t.exp \in Nat /\ t.exp + Room < now + Horizon
      BY <2>2 DEF LoopInv, AllSoon, Soon
    <3>2. t.exp + (Room - Back) < now + d + Horizon
      BY <1>1, <2>5, <3>1
    <3> QED
      BY <1>1, <2>4, <3>2 DEF LoopInv, AllSoon, Soon
  <2> QED
    BY <1>1, <2>1, <2>3, <2>6 DEF AllSoon
<1>5. Waiting' <=> Waiting
  BY <1>1, <1>2, <1>3 DEF Waiting, TimedOut, TQ!Epoch, NotWaiting, Never
<1>6. Counted' /\ (d <= 0 => late <= late')
  BY <1>1, <1>2 DEF Counted, Later
<1>7. Waiting => lag' = lag
  BY <1>1 DEF Later, Working
<1>8. ASSUME Waiting, deadline # Never, ~TimedOut'
      PROVE  ~TimedOut /\ deadline' \in Nat /\ deadline' - deadline <= late' - late
  <2>1. deadline \in Nat
    BY <1>2, <1>8 DEF Waiting
  <2>2. ~TimedOut
    BY <1>1, <1>8, <2>1 DEF TimedOut, Waiting, TQ!Epoch, Never, NotWaiting
  <2>3. deadline' = deadline + d
    BY <1>1, <1>8, <2>2
  <2>4. deadline' \in Nat
    BY <1>1, <1>8, <2>1, <2>2, <2>3 DEF TimedOut
  <2>5. d <= late' - late
    BY <1>1, <1>2, <2>1 DEF Later
  <2> QED
    BY <1>2, <2>1, <2>2, <2>3, <2>4, <2>5
<1> QED
  BY <1>1, <1>3, <1>4, <1>5, <1>6, <1>7, <1>8, InvClock

LEMMA LoopInvInit == ASSUME Fits, StepsInit, TQ!TypeOK PROVE LoopInv
<1>1. WaitTyped /\ ~Waiting /\ ~Looked /\ Counted
  BY EventLoopAssumption
     DEF StepsInit, Init, PT!Init, WaitTyped, Waiting, Looked, Counted
<1>2. /\ timers = {} /\ TQ!Held = {} /\ timerAt = "idle" /\ now > 0 /\ loopAt = "setup"
      /\ stepped \in 0 .. MaxSteps
  BY EventLoopAssumption, ClockStepsAssumption
     DEF StepsInit, Init, PT!Init, TQ!Init, TQ!Held, TQ!Running, Fits
<1> QED
  BY <1>1, <1>2 DEF LoopInv, AllSoon, Fresh, TimeoutIsSoon, LateByTheStep

LEMMA LoopInvNext ==
  ASSUME Fits, LoopInv, TQ!TypeOK', [StepsNext]_allVars
  PROVE  LoopInv'
<1>1. CASE SteadyStep
  BY <1>1, SteadyInv
<1>2. CASE \E d \in Steps : SetClock(d)
  <2>1. PICK d \in Steps : SetClock(d)
    BY <1>2
  <2>2. d \in Int /\ -Back <= d
    BY ClockStepsAssumption, BackFits DEF FitsWith
  <2> QED
    BY <2>1, <2>2, ClockIsSet
<1>3. CASE UNCHANGED allVars
  <2>1. UNCHANGED timerVars /\ UNCHANGED <<loopAt, timeout, deadline, lag, late, stepped>>
    BY <1>3 DEF allVars, stepVars, vars, taskVars
  <2>2. WaitTyped' /\ Counted'
    BY <2>1 DEF LoopInv, WaitTyped, Waiting, Counted
  <2>3. AllSoon' /\ Fresh' /\ TimeoutIsSoon' /\ LateByTheStep'
    BY <2>1, RoomStays
       DEF timerVars, LoopInv, AllSoon, Soon, TQ!Held, TQ!Running, Fresh, Sampled, Looked,
           TimeoutIsSoon, LateByTheStep, Waiting, TimedOut, TQ!GetNextExpiredTime
  <2> QED
    BY <2>2, <2>3 DEF LoopInv
<1> QED
  BY <1>1, <1>2, <1>3 DEF StepsNext

(* However slow the loop is, and however the clock is set: forward by any  *)
(* steps, and back by those for which the timeouts still fit the int.  A   *)
(* wait that begins less than a millisecond after the due timers were      *)
(* taken has a timeout, and ends no later than the first timer is due, put *)
(* off by what the clock went on between the look at it and the call, or   *)
(* was set forward since; in particular not at all if neither happened.    *)
THEOREM LateByTheStepHolds ==
  ASSUME Fits
  PROVE  StepsSafeSpec => []LateByTheStep
<1>1. StepsInit /\ Apart => LoopInv
  BY LoopInvInit DEF Apart
<1>2. LoopInv /\ Apart' /\ [StepsNext]_allVars => LoopInv'
  BY LoopInvNext DEF Apart
<1>3. LoopInv => LateByTheStep
  BY DEF LoopInv
<1> QED
  BY <1>1, <1>2, <1>3, ApartInvariant, PTL DEF StepsSafeSpec

=============================================================================
