----------------------------- MODULE TimerQueue -----------------------------
(***************************************************************************)
(* The timers of one loop: TimerQueue, Timer and the part of EventLoop     *)
(* that runs what has expired (execExpiredTimesTask).  Only the thread of  *)
(* the loop touches any of it, in these steps: it samples the clock and    *)
(* takes every due timer out of the queue, it starts the callback of one,  *)
(* and when that callback returns it puts a repeating timer back.  Between *)
(* the steps the clock moves and the running callback sets other timers.   *)
(*                                                                         *)
(* Time is in ticks of the system clock since the Epoch; the interface and *)
(* the poller count milliseconds, of TicksPerMs ticks each.                *)
(***************************************************************************)
EXTENDS Integers, FiniteSets

CONSTANTS
  TicksPerMs,   \* ticks of the clock in a millisecond
  StartTimes,   \* readings of the clock when the program starts
  MaxTime,      \* bound: the largest reading of the clock
  MaxTimers,    \* bound: how many timers are ever made
  Delays,       \* milliseconds given to runAfter
  Intervals,    \* milliseconds given to runEvery
  Timestamps    \* absolute times given to runUntil

ASSUME TimerQueueAssumption ==
  /\ TicksPerMs \in Nat \ {0}
  /\ StartTimes \subseteq Nat
  /\ MaxTime \in Nat
  /\ MaxTimers \in Nat
  /\ Delays \subseteq Nat
  /\ Intervals \subseteq Nat \ {0}
  /\ Timestamps \subseteq Nat

VARIABLES
  now,               \* what Now() returns
  timers,            \* timers_, ordered by Before
  expirationTimers,  \* expirationTimers_, in the same order
  timerAt,           \* where execExpiredTimesTask stands
  current,           \* the timer whose callback is running
  gId,               \* TimerId::gId_
  alarm, fired, last,\* what was asked and what ran, as in AlarmClock
  sampledId          \* gId when the batch in expirationTimers was taken

queueVars == <<timers, expirationTimers, timerAt, current, gId>>
historyVars == <<alarm, fired, last, sampledId>>
timerVars == <<now, queueVars, historyVars>>

Ids == 0 .. MaxTimers - 1
Timer == [id : Ids, exp : Nat, interval : Nat]
NoTimer == [id |-> -1, exp |-> 0, interval |-> 0]

(* A timer with interval 0 does not repeat.                                *)
IsRepeat(t) == t.interval > 0

(* operator< of Timer: no two timers share an id, so this order is total   *)
(* and the multiset never holds two equivalent timers.                     *)
Before(t, u) == t.exp < u.exp \/ (t.exp = u.exp /\ t.id < u.id)

IsFirst(t, S) == t \in S /\ \A u \in S : ~Before(u, t)
First(S) == CHOOSE t \in S : IsFirst(t, S)

Init ==
  /\ now \in StartTimes
  /\ timers = {}
  /\ expirationTimers = {}
  /\ timerAt = "idle"
  /\ current = NoTimer
  /\ gId = 0
  /\ alarm = [i \in Ids |-> [due |-> 0, interval |-> 0]]
  /\ fired = [i \in Ids |-> 0]
  /\ last = [i \in Ids |-> 0]
  /\ sampledId = 0

Tick ==
  /\ now < MaxTime
  /\ now' = now + 1
  /\ UNCHANGED <<queueVars, historyVars>>

-----------------------------------------------------------------------------
(* Setting timers.  A request runs in the thread of the loop, outside of   *)
(* execExpiredTimesTask or in the callback of a timer.                     *)

(* Variant: gId_ never moves.                                              *)
InsertWithSameId(exp, interval) ==
  /\ timerAt # "batch"
  /\ gId < MaxTimers
  /\ Cardinality(timers) < MaxTimers
  /\ timers' = timers \cup {[id |-> gId, exp |-> exp, interval |-> interval]}
  /\ alarm' = [alarm EXCEPT ![gId] = [due |-> exp, interval |-> interval]]
  /\ UNCHANGED <<now, expirationTimers, timerAt, current, gId, fired, last, sampledId>>

Insert(exp, interval) ==
  /\ timerAt # "batch"
  /\ gId < MaxTimers
  /\ timers' = timers \cup {[id |-> gId, exp |-> exp, interval |-> interval]}
  /\ gId' = gId + 1
  /\ alarm' = [alarm EXCEPT ![gId] = [due |-> exp, interval |-> interval]]
  /\ UNCHANGED <<now, expirationTimers, timerAt, current, fired, last, sampledId>>

(* The expiration may be in the past.                                      *)
RunUntil(exp) == Insert(exp, 0)

(* A delay in seconds is cut to whole milliseconds first, possibly to 0.   *)
RunAfter(ms) == RunUntil(now + ms * TicksPerMs)

(* The constructor of Timer asserts a positive interval.                   *)
RunEvery(ms) == Insert(now + ms * TicksPerMs, ms * TicksPerMs)

Request ==
  \/ \E exp \in Timestamps : RunUntil(exp)
  \/ \E ms \in Delays : RunAfter(ms)
  \/ \E ms \in Intervals : RunEvery(ms)

-----------------------------------------------------------------------------
(* execExpiredTimesTask.                                                   *)

(* Variant: what is due within a millisecond counts as expired.            *)
ExpiredSoon == {t \in timers : t.exp <= now + TicksPerMs}

Expired == {t \in timers : t.exp <= now}

(* Variants: the expired timers are copied, not extracted; all are         *)
(* extracted and only one is handed to the batch.                          *)
GetExpiredTimesByCopy ==
  /\ timerAt = "idle"
  /\ expirationTimers' = Expired
  /\ timerAt' = "batch"
  /\ sampledId' = gId
  /\ UNCHANGED <<now, timers, current, gId, alarm, fired, last>>

GetExpiredTimesOne ==
  /\ timerAt = "idle"
  /\ expirationTimers' = {t \in Expired : IsFirst(t, Expired)}
  /\ timers' = timers \ Expired
  /\ timerAt' = "batch"
  /\ sampledId' = gId
  /\ UNCHANGED <<now, current, gId, alarm, fired, last>>

GetExpiredTimes ==
  /\ timerAt = "idle"
  /\ expirationTimers' = Expired
  /\ timers' = timers \ Expired
  /\ timerAt' = "batch"
  /\ sampledId' = gId
  /\ UNCHANGED <<now, current, gId, alarm, fired, last>>

(* timer_->run() is entered.                                               *)
StartRun ==
  /\ timerAt = "batch"
  /\ \E t \in expirationTimers :
       /\ IsFirst(t, expirationTimers)
       /\ current' = t
       /\ expirationTimers' = expirationTimers \ {t}
       /\ fired' = [fired EXCEPT ![t.id] = @ + 1]
       /\ last' = [last EXCEPT ![t.id] = now]
  /\ timerAt' = "callback"
  /\ UNCHANGED <<now, timers, gId, alarm, sampledId>>

(* Variant: the interval counts from the last expiration.                  *)
ResetFromExpiration(t) == [t EXCEPT !.exp = t.exp + t.interval]

(* Timer::reset counts the interval from when the callback returned.       *)
Reset(t) == [t EXCEPT !.exp = now + t.interval]

(* timer_->run() has returned: a repeating timer is reset and added again, *)
(* any other one is dropped with the batch.                                *)
FinishRun ==
  /\ timerAt = "callback"
  /\ timers' = IF IsRepeat(current) THEN timers \cup {Reset(current)} ELSE timers
  /\ current' = NoTimer
  /\ timerAt' = "batch"
  /\ UNCHANGED <<now, expirationTimers, gId, historyVars>>

FinishBatch ==
  /\ timerAt = "batch"
  /\ expirationTimers = {}
  /\ timerAt' = "idle"
  /\ UNCHANGED <<now, timers, expirationTimers, current, gId, historyVars>>

Next ==
  \/ Tick
  \/ Request
  \/ GetExpiredTimes \/ StartRun \/ FinishRun \/ FinishBatch

SafeSpec == Init /\ [][Next]_timerVars

-----------------------------------------------------------------------------
(* What Epoller::wait makes of the queue.                                  *)

Epoch == 0

(* With no timer the answer is the Epoch, which also is a time that        *)
(* runUntil accepts.                                                       *)
GetNextExpiredTime == IF timers = {} THEN Epoch ELSE First(timers).exp

(* Variant: the rest of a millisecond is rounded up.                       *)
GetMillsecondsRoundedUp(exp) == ((exp - now) \div TicksPerMs) + 1

(* duration_cast cuts towards 0.                                           *)
GetMillsecondsFromNow(exp) ==
  IF exp >= now THEN (exp - now) \div TicksPerMs ELSE -((now - exp) \div TicksPerMs)

-----------------------------------------------------------------------------
Running == IF timerAt = "callback" THEN {current} ELSE {}

Held == timers \cup expirationTimers \cup Running

TypeOK ==
  /\ now \in Nat
  /\ timers \subseteq Timer
  /\ expirationTimers \subseteq Timer
  /\ timerAt \in {"idle", "batch", "callback"}
  /\ current \in Timer \cup {NoTimer}
  /\ gId \in 0 .. MaxTimers
  /\ alarm \in [Ids -> [due : Nat, interval : Nat]]
  /\ fired \in [Ids -> Nat]
  /\ last \in [Ids -> Nat]
  /\ sampledId \in 0 .. MaxTimers

(* No timer is lost and none is held twice, wherever it is being moved to: *)
(* a timer that still has to run is in exactly one place, and only a       *)
(* one-shot timer that has run is gone.                                    *)
EachHeldOnce ==
  /\ \A t, u \in Held : t.id = u.id => t = u
  /\ timers \cap expirationTimers = {}
  /\ Running \cap (timers \cup expirationTimers) = {}
  /\ \A i \in 0 .. gId - 1 :
       (alarm[i].interval > 0 \/ fired[i] = 0) => \E t \in Held : t.id = i

(* The assertion of addTimer: the timer that is put back after its         *)
(* callback has returned has no equal in timers_.                          *)
AddTimerAssertion ==
  timerAt = "callback" /\ IsRepeat(current) =>
    \A t \in timers : Before(t, Reset(current)) \/ Before(Reset(current), t)

(* A callback starts only when nothing that was set before the clock was   *)
(* sampled should have started first, in this batch or left in the queue.  *)
EarliestFirst ==
  [][timerAt' = "callback" /\ timerAt = "batch" =>
       \A t \in timers \cup expirationTimers :
         t.id < sampledId => t = current' \/ Before(current', t)]_timerVars

(* The queue, the batch and the reset together keep the promise of         *)
(* AlarmClock.                                                             *)
Clock == INSTANCE AlarmClock WITH set <- 0 .. gId - 1
AlarmClockSpec == Clock!Spec

=============================================================================
