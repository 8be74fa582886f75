-------------------------- MODULE TimerQueueProofs --------------------------
(***************************************************************************)
(* Proofs about TimerQueue, for any clock, any number of timers and any    *)
(* delays, intervals and times that clients ask for.                       *)
(***************************************************************************)
EXTENDS TimerQueue, TLAPS

(* Where timers can be, in each phase.                                     *)
Placed ==
  /\ timerAt = "idle" => expirationTimers = {}
  /\ timerAt = "callback" => current \in Timer
  /\ \A t \in Held : t.id < gId
  /\ sampledId <= gId

(* How the expiration of a timer relates to what was asked and what ran.   *)
OnTime(t) ==
  /\ t.interval = alarm[t.id].interval
  /\ fired[t.id] = 0 => t.exp = alarm[t.id].due
  /\ fired[t.id] > 0 => t.interval > 0 /\ last[t.id] + t.interval <= t.exp

Promise ==
  /\ \A t \in timers \cup expirationTimers : OnTime(t)
  /\ \A t \in expirationTimers : t.exp <= now
  /\ timerAt = "callback" =>
       current.interval = alarm[current.id].interval /\ fired[current.id] > 0
  /\ \A i \in Ids : last[i] <= now
  /\ \A i \in Ids : i >= gId => fired[i] = 0

(* What was left in the queue when the clock was sampled expires after     *)
(* everything in the batch, and so does what is put back.                  *)
BatchFirst ==
  \A t \in timers, u \in expirationTimers : t.id < sampledId => u.exp < t.exp

TimerInv == TypeOK /\ EachHeldOnce /\ Placed /\ Promise /\ BatchFirst

-----------------------------------------------------------------------------
LEMMA InvInit == Init => TimerInv
<1> SUFFICES ASSUME Init PROVE TimerInv
  OBVIOUS
<1>1. TypeOK
  BY TimerQueueAssumption DEF Init, TypeOK
<1>2. Held = {}
  BY DEF Init, Held, Running
<1>3. 0 .. gId - 1 = {}
  BY DEF Init
<1>4. EachHeldOnce
  BY <1>2, <1>3 DEF EachHeldOnce, Held
<1>5. Placed /\ Promise /\ BatchFirst
  BY <1>2, TimerQueueAssumption DEF Init, Placed, Promise, BatchFirst, Ids
<1> QED
  BY <1>1, <1>4, <1>5 DEF TimerInv

(* The clock moves on, by any step.                                        *)
LEMMA InvForward ==
  ASSUME TimerInv, now' \in Nat, now <= now',
         UNCHANGED <<timers, expirationTimers, timerAt, current, gId>>,
         UNCHANGED <<alarm, fired, last, sampledId>>
  PROVE  TimerInv'
<1>1. TypeOK' /\ EachHeldOnce' /\ Placed' /\ BatchFirst'
  BY DEF TimerInv, TypeOK, EachHeldOnce, Placed, BatchFirst, Held, Running
<1>2. now \in Nat
  BY DEF TimerInv, TypeOK
<1>3. \A t \in expirationTimers : t.exp <= now'
  <2>1. \A t \in expirationTimers : t.exp \in Nat /\ t.exp <= now
    BY DEF TimerInv, TypeOK, Timer, Promise
  <2> QED
    BY <1>2, <2>1
<1>4. \A i \in Ids : last[i] <= now'
  <2>1. \A i \in Ids : last[i] \in Nat /\ last[i] <= now
    BY DEF TimerInv, TypeOK, Promise
  <2> QED
    BY <1>2, <2>1
<1>5. Promise'
  BY <1>3, <1>4 DEF TimerInv, Promise, OnTime
<1> QED
  BY <1>1, <1>5 DEF TimerInv

LEMMA InvTick == TimerInv /\ Tick => TimerInv' /\ Clock!Advance
<1> SUFFICES ASSUME TimerInv, Tick PROVE TimerInv' /\ Clock!Advance
  OBVIOUS
<1>1. /\ now \in Nat /\ now' = now + 1
      /\ UNCHANGED <<timers, expirationTimers, timerAt, current, gId>>
      /\ UNCHANGED <<alarm, fired, last, sampledId>>
  BY DEF TimerInv, TypeOK, Tick, queueVars, historyVars
<1>2. TimerInv'
  BY <1>1, InvForward
<1> QED
  BY <1>1, <1>2 DEF Clock!Advance

(* A request puts a new timer into the queue.                              *)
LEMMA InvInsert ==
  ASSUME TimerInv, NEW exp \in Nat, NEW interval \in Nat, Insert(exp, interval)
  PROVE  TimerInv' /\ Clock!Set(gId)
<1>0. PICK new : new = [id |-> gId, exp |-> exp, interval |-> interval]
  OBVIOUS
<1>1. /\ timerAt # "batch" /\ gId \in Ids /\ gId' = gId + 1
      /\ timers' = timers \cup {new}
      /\ alarm' = [alarm EXCEPT ![gId] = [due |-> exp, interval |-> interval]]
      /\ UNCHANGED <<now, expirationTimers, timerAt, current, fired, last, sampledId>>
  BY <1>0, TimerQueueAssumption DEF TimerInv, TypeOK, Insert, Ids
<1>2. new \in Timer /\ new.id = gId /\ gId \in Nat /\ gId < MaxTimers /\ MaxTimers \in Nat
  BY <1>0, <1>1, TimerQueueAssumption DEF Timer, Ids
<1>3. TypeOK'
  <2>1. alarm' \in [Ids -> [due : Nat, interval : Nat]] /\ timers' \subseteq Timer
    BY <1>1, <1>2 DEF TimerInv, TypeOK
  <2>2. gId' \in 0 .. MaxTimers
    BY <1>1, <1>2
  <2> QED
    BY <1>1, <2>1, <2>2 DEF TimerInv, TypeOK
<1>4. Held' = Held \cup {new}
  BY <1>1 DEF Held, Running
<1>5. \A t \in Held : t \in Timer /\ t.id \in Ids /\ t.id < gId
  BY DEF TimerInv, TypeOK, Placed, Held, Running, Timer
<1>6. new \notin Held /\ \A t \in Held : t.id # new.id
  BY <1>2, <1>5 DEF Ids
<1>7. EachHeldOnce'
  <2>1. \A t, u \in Held' : t.id = u.id => t = u
    BY <1>4, <1>6 DEF TimerInv, EachHeldOnce
  <2>2. /\ (timers \cap expirationTimers = {})'
        /\ (Running \cap (timers \cup expirationTimers) = {})'
    BY <1>1, <1>6 DEF TimerInv, EachHeldOnce, Running, Held
  <2>3. ASSUME NEW i \in 0 .. gId' - 1, alarm'[i].interval > 0 \/ fired'[i] = 0
        PROVE  \E t \in Held' : t.id = i
    <3>1. CASE i = gId
      BY <1>2, <1>4, <3>1
    <3>2. CASE i # gId
      <4>1. i \in 0 .. gId - 1 /\ i \in Ids
        BY <1>1, <1>2, <2>3, <3>2 DEF Ids
      <4>2. alarm'[i] = alarm[i] /\ fired'[i] = fired[i]
        BY <1>1, <3>2, <4>1 DEF TimerInv, TypeOK
      <4> QED
        BY <1>4, <2>3, <4>1, <4>2 DEF TimerInv, EachHeldOnce
    <3> QED
      BY <3>1, <3>2
  <2> QED
    BY <2>1, <2>2, <2>3 DEF EachHeldOnce
<1>8. Placed'
  <2>1. \A t \in Held' : t.id < gId'
    BY <1>1, <1>2, <1>4, <1>5 DEF Ids
  <2>2. sampledId' <= gId'
    BY <1>1 DEF TimerInv, TypeOK, Placed
  <2> QED
    BY <1>1, <2>1, <2>2 DEF TimerInv, Placed
<1>9. \A i \in Ids : i < gId => alarm'[i] = alarm[i]
  BY <1>1 DEF TimerInv, TypeOK, Ids
<1>10. Promise'
  <2>1. \A t \in timers \cup expirationTimers : OnTime(t)'
    BY <1>1, <1>5, <1>9 DEF TimerInv, Promise, OnTime, Held
  <2>2. OnTime(new)'
    <3>1. fired[gId] = 0 /\ alarm'[gId] = [due |-> exp, interval |-> interval]
      BY <1>1 DEF TimerInv, TypeOK, Promise, Ids
    <3> QED
      BY <1>0, <1>1, <3>1 DEF OnTime
  <2>3. timerAt = "callback" => alarm'[current.id] = alarm[current.id]
    BY <1>5, <1>9 DEF Held, Running
  <2>4. \A i \in Ids : i >= gId' => fired'[i] = 0
    BY <1>1 DEF TimerInv, TypeOK, Promise, Ids
  <2> QED
    BY <1>1, <2>1, <2>2, <2>3, <2>4 DEF TimerInv, Promise
<1>11. BatchFirst'
  <2>1. ~(new.id < sampledId)
    BY <1>2 DEF TimerInv, TypeOK, Placed, Ids
  <2> QED
    BY <1>1, <2>1 DEF TimerInv, BatchFirst
<1>12. Clock!Set(gId)
  <2>1. gId \notin 0 .. gId - 1 /\ (0 .. gId - 1)' = (0 .. gId - 1) \cup {gId}
    BY <1>1, <1>2
  <2>2. alarm'[gId] = [due |-> exp, interval |-> interval]
    BY <1>1 DEF TimerInv, TypeOK
  <2>3. alarm'[gId] \in Clock!Alarm
    BY <2>2 DEF Clock!Alarm
  <2>4. alarm' = [alarm EXCEPT ![gId] = alarm'[gId]]
    BY <1>1, <2>2
  <2> QED
    BY <1>1, <2>1, <2>3, <2>4 DEF Clock!Set
<1> QED
  BY <1>3, <1>7, <1>8, <1>10, <1>11, <1>12 DEF TimerInv

LEMMA InvRequest == TimerInv /\ Request => TimerInv' /\ \E i \in Ids : Clock!Set(i)
<1> SUFFICES ASSUME TimerInv, Request PROVE TimerInv' /\ \E i \in Ids : Clock!Set(i)
  OBVIOUS
<1>1. \E exp, interval \in Nat : Insert(exp, interval)
  <2>1. now \in Nat /\ TicksPerMs \in Nat
    BY TimerQueueAssumption DEF TimerInv, TypeOK
  <2>2. \A ms \in Nat : now + ms * TicksPerMs \in Nat /\ ms * TicksPerMs \in Nat
    BY <2>1
  <2> QED
    BY <2>2, TimerQueueAssumption DEF Request, RunUntil, RunAfter, RunEvery
<1>2. gId \in Ids
  BY <1>1, TimerQueueAssumption DEF Insert, TimerInv, TypeOK, Ids
<1> QED
  BY <1>1, <1>2, InvInsert

(* The due timers move from the queue to the batch.                        *)
LEMMA InvGetExpiredTimes == TimerInv /\ GetExpiredTimes => TimerInv'
<1> SUFFICES ASSUME TimerInv, GetExpiredTimes PROVE TimerInv'
  OBVIOUS
<1>1. /\ timerAt = "idle" /\ timerAt' = "batch" /\ expirationTimers = {}
      /\ expirationTimers' = Expired /\ timers' = timers \ Expired
      /\ sampledId' = gId
      /\ UNCHANGED <<now, current, gId, alarm, fired, last>>
  BY DEF TimerInv, Placed, GetExpiredTimes
<1>2. Expired \subseteq timers
  BY DEF Expired
<1>3. TypeOK'
  BY <1>1, <1>2 DEF TimerInv, TypeOK
<1>4. Held' = Held /\ Running = {} /\ Running' = {}
  BY <1>1, <1>2 DEF Held, Running
<1>5. EachHeldOnce'
  BY <1>1, <1>4 DEF TimerInv, EachHeldOnce
<1>6. Placed'
  BY <1>1, <1>4 DEF TimerInv, TypeOK, Placed
<1>7. Promise'
  BY <1>1, <1>2 DEF TimerInv, Promise, OnTime, Expired
<1>8. BatchFirst'
  <2>1. \A t \in timers' : t.exp \in Nat /\ ~(t.exp <= now)
    BY <1>1 DEF Expired, TimerInv, TypeOK, Timer
  <2>2. \A u \in expirationTimers' : u.exp \in Nat /\ u.exp <= now
    BY <1>1 DEF Expired, TimerInv, TypeOK, Timer
  <2>3. now \in Nat
    BY DEF TimerInv, TypeOK
  <2>4. \A t \in timers', u \in expirationTimers' : u.exp < t.exp
    BY <2>1, <2>2, <2>3
  <2> QED
    BY <2>4 DEF BatchFirst
<1> QED
  BY <1>3, <1>5, <1>6, <1>7, <1>8 DEF TimerInv

(* The first timer of the batch starts.                                    *)
LEMMA InvStartRun ==
  TimerInv /\ StartRun => /\ TimerInv'
                          /\ \E i \in Ids : Clock!Fire(i)
                          /\ \A t \in timers \cup expirationTimers :
                               t.id < sampledId => t = current' \/ Before(current', t)
<1> SUFFICES ASSUME TimerInv, StartRun
             PROVE  /\ TimerInv'
                    /\ \E i \in Ids : Clock!Fire(i)
                    /\ \A t \in timers \cup expirationTimers :
                         t.id < sampledId => t = current' \/ Before(current', t)
  OBVIOUS
<1>1. PICK r \in expirationTimers :
        /\ IsFirst(r, expirationTimers)
        /\ current' = r
        /\ expirationTimers' = expirationTimers \ {r}
        /\ fired' = [fired EXCEPT ![r.id] = fired[r.id] + 1]
        /\ last' = [last EXCEPT ![r.id] = now]
  BY DEF StartRun
<1>2. /\ timerAt = "batch" /\ timerAt' = "callback"
      /\ UNCHANGED <<now, timers, gId, alarm, sampledId>>
  BY DEF StartRun
<1>3. r \in Timer /\ r.id \in Ids /\ r.exp \in Nat /\ r.interval \in Nat /\ r \in Held
  BY <1>1 DEF TimerInv, TypeOK, Timer, Held
<1>4. now \in Nat /\ fired[r.id] \in Nat /\ r.id < gId /\ gId \in Nat /\ r.id \in Nat
  BY <1>3 DEF TimerInv, TypeOK, Placed, Ids
<1>5. /\ fired'[r.id] = fired[r.id] + 1 /\ last'[r.id] = now
      /\ \A i \in Ids : i # r.id => fired'[i] = fired[i] /\ last'[i] = last[i]
  BY <1>1, <1>3 DEF TimerInv, TypeOK
<1>6. TypeOK'
  BY <1>1, <1>2, <1>3, <1>4 DEF TimerInv, TypeOK
<1>7. Held' = Held /\ Running = {} /\ Running' = {r} /\ r \notin timers
  BY <1>1, <1>2 DEF Held, Running, TimerInv, EachHeldOnce
<1>8. \A t \in timers \cup expirationTimers' : t \in Held /\ t.id \in Ids /\ t.id # r.id
  BY <1>1, <1>3, <1>7 DEF TimerInv, EachHeldOnce, TypeOK, Timer, Held
<1>9. EachHeldOnce'
  <2>1. ASSUME NEW i \in 0 .. gId - 1, alarm[i].interval > 0 \/ fired'[i] = 0
        PROVE  \E t \in Held : t.id = i
    <3>1. CASE i = r.id
      BY <1>3, <3>1
    <3>2. CASE i # r.id
      <4>1. i \in Ids
        BY <2>1, TimerQueueAssumption DEF TimerInv, TypeOK, Ids
      <4> QED
        BY <1>5, <2>1, <3>2, <4>1 DEF TimerInv, EachHeldOnce
    <3> QED
      BY <3>1, <3>2
  <2>2. \A t, u \in Held' : t.id = u.id => t = u
    BY <1>7 DEF TimerInv, EachHeldOnce
  <2>3. /\ (timers \cap expirationTimers = {})'
        /\ (Running \cap (timers \cup expirationTimers) = {})'
    BY <1>1, <1>2, <1>7 DEF TimerInv, EachHeldOnce
  <2> QED
    BY <1>2, <1>7, <2>1, <2>2, <2>3 DEF EachHeldOnce
<1>10. Placed'
  BY <1>1, <1>2, <1>3, <1>7 DEF TimerInv, Placed
<1>11. Promise'
  <2>1. ASSUME NEW t \in timers \cup expirationTimers'
        PROVE  OnTime(t)'
    BY <1>1, <1>2, <1>5, <1>8 DEF TimerInv, Promise, OnTime
  <2>2. r.interval = alarm[r.id].interval /\ fired'[r.id] > 0
    BY <1>1, <1>4, <1>5 DEF TimerInv, Promise, OnTime
  <2>3. ASSUME NEW i \in Ids PROVE last'[i] <= now /\ (i >= gId => fired'[i] = 0)
    <3>1. CASE i = r.id
      BY <1>4, <1>5, <3>1
    <3>2. CASE i # r.id
      BY <1>5, <3>2 DEF TimerInv, Promise
    <3> QED
      BY <3>1, <3>2
  <2> QED
    BY <1>1, <1>2, <2>1, <2>2, <2>3 DEF TimerInv, Promise
<1>12. BatchFirst'
  BY <1>1, <1>2 DEF TimerInv, BatchFirst
<1>13. Clock!Fire(r.id)
  <2>1. r.id \in 0 .. gId - 1
    BY <1>4
  <2>2. OnTime(r) /\ r.exp <= now
    BY <1>1 DEF TimerInv, Promise
  <2>3. alarm[r.id].interval \in Nat /\ last[r.id] \in Nat
    BY <1>3 DEF TimerInv, TypeOK
  <2>4. Clock!MayFire(r.id)
    BY <1>3, <1>4, <2>1, <2>2, <2>3 DEF Clock!MayFire, OnTime
  <2> QED
    BY <1>1, <1>2, <2>4 DEF Clock!Fire
<1>14. ASSUME NEW t \in timers \cup expirationTimers, t.id < sampledId, t # r
       PROVE  Before(r, t)
  <2>1. CASE t \in timers
    BY <1>1, <1>14, <2>1 DEF TimerInv, BatchFirst, Before
  <2>2. CASE t \in expirationTimers
    <3>1. ~Before(t, r)
      BY <1>1, <2>2 DEF IsFirst
    <3>2. t.id # r.id /\ t.id \in Int /\ t.exp \in Nat
      BY <1>3, <1>14, <2>2 DEF TimerInv, EachHeldOnce, Held, TypeOK, Timer, Ids
    <3>3. r.id \in Int /\ r.exp \in Nat
      BY <1>3, <1>4
    <3> QED
      BY <3>1, <3>2, <3>3 DEF Before
  <2> QED
    BY <2>1, <2>2
<1> QED
  BY <1>1, <1>3, <1>6, <1>9, <1>10, <1>11, <1>12, <1>13, <1>14 DEF TimerInv

(* A callback returns.                                                     *)
LEMMA InvFinishRun == TimerInv /\ FinishRun => TimerInv'
<1> SUFFICES ASSUME TimerInv, FinishRun PROVE TimerInv'
  OBVIOUS
<1>0. PICK back : back = Reset(current)
  OBVIOUS
<1>1. /\ timerAt = "callback" /\ timerAt' = "batch" /\ current' = NoTimer
      /\ timers' = IF IsRepeat(current) THEN timers \cup {back} ELSE timers
      /\ UNCHANGED <<now, expirationTimers, gId, alarm, fired, last, sampledId>>
  BY <1>0 DEF FinishRun, historyVars
<1>2. /\ current \in Timer /\ current.id \in Ids /\ current.interval \in Nat
      /\ current.exp \in Nat /\ now \in Nat /\ current \in Held /\ Running = {current}
  BY <1>1 DEF TimerInv, TypeOK, Placed, Timer, Held, Running
<1>3. /\ back = [id |-> current.id, exp |-> now + current.interval,
                 interval |-> current.interval]
      /\ back \in Timer
  BY <1>0, <1>2 DEF Reset, Timer
<1>4. TypeOK'
  BY <1>1, <1>3 DEF TimerInv, TypeOK
<1>5. \A t \in timers \cup expirationTimers : t.id # current.id
  BY <1>2 DEF TimerInv, EachHeldOnce, Held
<1>6. /\ Running' = {}
      /\ Held' = timers' \cup expirationTimers
      /\ Held = timers \cup expirationTimers \cup {current}
  BY <1>1, <1>2 DEF Held, Running
<1>7. EachHeldOnce'
  <2>1. \A t, u \in Held' : t.id = u.id => t = u
    BY <1>1, <1>3, <1>5, <1>6 DEF TimerInv, EachHeldOnce
  <2>2. (timers \cap expirationTimers = {})'
    BY <1>1, <1>3, <1>5 DEF TimerInv, EachHeldOnce
  <2>3. ASSUME NEW i \in 0 .. gId - 1, alarm[i].interval > 0 \/ fired[i] = 0
        PROVE  \E t \in Held' : t.id = i
    <3>1. PICK t \in Held : t.id = i
      BY <2>3 DEF TimerInv, EachHeldOnce
    <3>2. CASE t = current
      <4>1. IsRepeat(current)
        BY <1>1, <2>3, <3>1, <3>2 DEF TimerInv, Promise, IsRepeat
      <4> QED
        BY <1>1, <1>3, <1>6, <3>1, <3>2, <4>1
    <3>3. CASE t # current
      BY <1>1, <1>6, <3>1, <3>3
    <3> QED
      BY <3>2, <3>3
  <2> QED
    BY <1>1, <1>6, <2>1, <2>2, <2>3 DEF EachHeldOnce
<1>8. Placed'
  BY <1>1, <1>2, <1>3, <1>6 DEF TimerInv, Placed
<1>9. Promise'
  <2>1. ASSUME IsRepeat(current) PROVE OnTime(back)'
    <3>1. /\ current.interval = alarm[current.id].interval /\ fired[current.id] > 0
          /\ last[current.id] \in Nat /\ last[current.id] <= now
      BY <1>1, <1>2 DEF TimerInv, TypeOK, Promise
    <3>2. fired[current.id] \in Nat
      BY <1>2 DEF TimerInv, TypeOK
    <3>3. last[current.id] + current.interval <= now + current.interval
      BY <1>2, <3>1
    <3> QED
      BY <1>1, <1>3, <2>1, <3>1, <3>2, <3>3 DEF OnTime, IsRepeat
  <2> QED
    BY <1>1, <2>1 DEF TimerInv, Promise, OnTime
<1>10. BatchFirst'
  <2>1. ASSUME NEW u \in expirationTimers, IsRepeat(current) PROVE u.exp < back.exp
    <3>1. u.exp \in Nat /\ u.exp <= now
      BY DEF TimerInv, TypeOK, Timer, Promise
    <3> QED
      BY <1>2, <1>3, <2>1, <3>1 DEF IsRepeat
  <2> QED
    BY <1>1, <2>1 DEF TimerInv, BatchFirst
<1> QED
  BY <1>4, <1>7, <1>8, <1>9, <1>10 DEF TimerInv

LEMMA InvFinishBatch == TimerInv /\ FinishBatch => TimerInv'
<1> SUFFICES ASSUME TimerInv, FinishBatch PROVE TimerInv'
  OBVIOUS
<1>1. /\ timerAt = "batch" /\ timerAt' = "idle" /\ expirationTimers = {}
      /\ UNCHANGED <<now, timers, expirationTimers, current, gId>>
      /\ UNCHANGED <<alarm, fired, last, sampledId>>
  BY DEF FinishBatch, historyVars
<1>2. Held' = Held /\ Running' = Running
  BY <1>1 DEF Held, Running
<1> QED
  BY <1>1, <1>2 DEF TimerInv, TypeOK, EachHeldOnce, Placed, Promise, OnTime, BatchFirst

(* A step that leaves every timer and the history alone is a stutter of    *)
(* AlarmClock.                                                             *)
LEMMA InvNext == TimerInv /\ [Next]_timerVars => TimerInv' /\ [Clock!Next]_Clock!vars
<1> SUFFICES ASSUME TimerInv, [Next]_timerVars
             PROVE  TimerInv' /\ [Clock!Next]_Clock!vars
  OBVIOUS
<1>1. CASE Tick
  BY <1>1, InvTick DEF Clock!Next
<1>2. CASE Request
  BY <1>2, InvRequest DEF Clock!Next
<1>3. CASE GetExpiredTimes
  BY <1>3, InvGetExpiredTimes DEF GetExpiredTimes, Clock!vars
<1>4. CASE StartRun
  BY <1>4, InvStartRun DEF Clock!Next
<1>5. CASE FinishRun
  BY <1>5, InvFinishRun DEF FinishRun, historyVars, Clock!vars
<1>6. CASE FinishBatch
  BY <1>6, InvFinishBatch DEF FinishBatch, historyVars, Clock!vars
<1>7. CASE UNCHANGED timerVars
  <2>1. /\ UNCHANGED <<now, timers, expirationTimers, timerAt, current, gId>>
        /\ UNCHANGED <<alarm, fired, last, sampledId>>
    BY <1>7 DEF timerVars, queueVars, historyVars
  <2>2. Held' = Held /\ Running' = Running
    BY <2>1 DEF Held, Running
  <2> QED
    BY <2>1, <2>2 DEF TimerInv, TypeOK, EachHeldOnce, Placed, Promise, OnTime, BatchFirst,
                      Clock!vars
<1> QED
  BY <1>1, <1>2, <1>3, <1>4, <1>5, <1>6, <1>7 DEF Next

LEMMA Invariant == SafeSpec => []TimerInv
BY InvInit, InvNext, PTL DEF SafeSpec

-----------------------------------------------------------------------------
(* Every variable of the timers keeps to its type.                         *)
THEOREM TimerTypeCorrect == SafeSpec => []TypeOK
BY Invariant, PTL DEF TimerInv

(* No timer is lost on its way between timers_ and expirationTimers_, and  *)
(* none is in two places.                                                  *)
THEOREM EachHeldOnceHolds == SafeSpec => []EachHeldOnce
BY Invariant, PTL DEF TimerInv

(* The assertion of TimerQueue::addTimer never fails.                      *)
THEOREM AddTimerAssertionHolds == SafeSpec => []AddTimerAssertion
<1>1. TimerInv => AddTimerAssertion
  <2> SUFFICES ASSUME TimerInv, timerAt = "callback", NEW t \in timers
               PROVE  Before(t, Reset(current)) \/ Before(Reset(current), t)
    BY DEF AddTimerAssertion
  <2>1. t.id # current.id /\ t.id \in Int /\ t.exp \in Nat
    BY DEF TimerInv, EachHeldOnce, Held, Running, TypeOK, Timer, Ids
  <2>2. /\ current.id \in Int /\ now + current.interval \in Nat
        /\ Reset(current).id = current.id
        /\ Reset(current).exp = now + current.interval
    BY SMTT(30) DEF TimerInv, TypeOK, Placed, Timer, Ids, Reset
  <2> QED
    BY <2>1, <2>2 DEF Before
<1> QED
  BY <1>1, Invariant, PTL

(* Callbacks start in the order of expiration, with no timer of the batch  *)
(* or of the queue passed over.                                            *)
THEOREM EarliestFirstHolds == SafeSpec => EarliestFirst
<1>1. ASSUME TimerInv, [Next]_timerVars
      PROVE  [timerAt' = "callback" /\ timerAt = "batch" =>
                \A t \in timers \cup expirationTimers :
                  t.id < sampledId => t = current' \/ Before(current', t)]_timerVars
  <2>1. CASE StartRun
    BY <1>1, <2>1, InvStartRun
  <2>2. CASE Next /\ ~StartRun
    BY <2>2 DEF Next, Tick, Request, RunUntil, RunAfter, RunEvery, Insert, GetExpiredTimes,
                FinishRun, FinishBatch, queueVars
  <2>3. CASE UNCHANGED timerVars
    BY <2>3
  <2> QED
    BY <1>1, <2>1, <2>2, <2>3
<1> QED
  BY <1>1, Invariant, PTL DEF SafeSpec, EarliestFirst

(* The queue, the batch and the reset implement AlarmClock: no alarm goes  *)
(* off early, a one-shot alarm never twice, a repeating one never sooner   *)
(* than its interval after it went off last.                               *)
THEOREM ImplementsAlarmClock == SafeSpec => AlarmClockSpec
<1>1. Init => Clock!Init
  <2> SUFFICES ASSUME Init PROVE Clock!Init
    OBVIOUS
  <2>1. 0 .. gId - 1 = {} /\ now \in Nat
    BY TimerQueueAssumption DEF Init
  <2> QED
    BY <2>1 DEF Init, Clock!Init
<1> QED
  BY <1>1, InvNext, Invariant, PTL DEF SafeSpec, AlarmClockSpec, Clock!Spec

=============================================================================
