----------------------------- MODULE ClockSteps -----------------------------
(***************************************************************************)
(* The loop and its timers when the clock is set.  Timers are kept in the  *)
(* time of system_clock, which an administrator or NTP moves forward and   *)
(* back; the timeout of epoll_wait counts what really passes.              *)
(***************************************************************************)
EXTENDS EventLoop

CONSTANTS
  Steps,     \* by how many ticks the clock may be moved
  MaxSteps   \* bound: how often that happens

ASSUME ClockStepsAssumption == Steps \subseteq Int /\ MaxSteps \in Nat

VARIABLES
  stepped,   \* how often the clock was moved
  ahead,     \* a clock that follows now, except when it is set back
  ranAt,     \* the reading of ahead when each timer last ran
  lag,       \* how far the clock went on from the reading with which the due
             \* timers were taken to the look before the wait; a millisecond
             \* stands for any more
  late       \* how far it went on after that look without being counted by
             \* the timeout: by itself before the wait, and when it was set

stepVars == <<stepped, ahead, ranAt, lag, late>>
allVars == <<vars, stepVars>>

StepsInit ==
  /\ Init
  /\ stepped = 0
  /\ ahead = now
  /\ ranAt = [i \in TQ!Ids |-> 0]
  /\ lag = 0 /\ late = 0

Looked == timeout # NotLooked

(* From where the due timers are taken to the next look at the clock, with *)
(* timers left or set since.                                               *)
Working ==
  /\ ~Looked /\ ~Waiting /\ timers # {}
  /\ loopAt # "dispatch" /\ (loopAt = "timers" => timerAt # "idle")

(* What counts as lag and as late when the clock goes on by d.             *)
Later(d) ==
  /\ lag' = IF Working THEN (IF lag + d < TicksPerMs THEN lag + d ELSE TicksPerMs)
            ELSE lag
  /\ late' = IF timeout >= 0 \/ deadline >= 0 THEN late + d ELSE late

(* A step of EventLoop, under a clock that only ticks.                     *)
SteadyStep ==
  /\ Next
  /\ ahead' = ahead + (now' - now)
  /\ ranAt' = [i \in TQ!Ids |-> IF fired'[i] # fired[i] THEN ahead ELSE ranAt[i]]
  /\ IF Waiting /\ ~Waiting' THEN lag' = 0 /\ late' = 0
     ELSE IF Waiting THEN UNCHANGED <<lag, late>>
     ELSE Later(now' - now)
  /\ UNCHANGED stepped

(* What is left of the timeout stays as it is, so that the reading at      *)
(* which it ends moves with the clock.                                     *)
(* Bound: it is not moved past MaxTime, nor the end of the wait.           *)
SetClock(d) ==
  /\ stepped < MaxSteps
  /\ stepped' = stepped + 1
  /\ now' = now + d
  /\ now' \in 1 .. MaxTime
  /\ timeout > 0 /\ d > 0 => now' + timeout * TicksPerMs <= MaxTime
  /\ deadline' = IF ~Waiting \/ deadline = Never THEN deadline
                 ELSE IF TimedOut THEN TQ!Epoch ELSE deadline + d
  /\ Waiting /\ d > 0 => deadline' <= MaxTime
  /\ IF d > 0 THEN ahead' = ahead + d /\ Later(d) ELSE UNCHANGED <<ahead, lag, late>>
  /\ UNCHANGED <<taskVars, timers, expirationTimers, timerAt, current, gId,
                 alarm, fired, last, sampledId, timeout, ranAt>>

StepsNext == SteadyStep \/ \E d \in Steps : SetClock(d)

StepsSafeSpec == StepsInit /\ [][StepsNext]_allVars

(* The threads run and time passes, in the strong form because the bound   *)
(* stops the clock between the look and the call.  Nothing makes another   *)
(* descriptor ready: a wait ends by its timeout or by the eventfd.         *)
StepsSpec ==
  /\ StepsSafeSpec
  /\ WF_vars(LoopStep)
  /\ \A p \in Posters : WF_vars(PT!Signal(p) /\ UNCHANGED <<timerVars, timeout, deadline>>)
  /\ SF_vars(Tick)

-----------------------------------------------------------------------------
(* The wait has a timeout unless the clock had gone on by a millisecond or *)
(* more since the due timers were taken, in callbacks, timers and tasks or *)
(* because it was set.  With one, it ends by the first expiration or later *)
(* only by what the clock went on between the look and the call, or was    *)
(* set forward since.                                                      *)
LateByTheStep ==
  Waiting /\ timers # {} /\ lag < TicksPerMs =>
    deadline # Never /\ (deadline <= TQ!GetNextExpiredTime + late \/ TimedOut)

(* Setting the clock back makes no repeating timer run twice within its    *)
(* interval, and setting it forward takes off no more than the step.       *)
IntervalsKept ==
  [][\A i \in TQ!Ids :
       fired'[i] > fired[i] /\ fired[i] > 0 =>
         ahead - ranAt[i] >= alarm[i].interval]_allVars

(* A timer in the queue that is due within the horizon fires, for the      *)
(* first time and, when it repeats, again, though no descriptor ever ends  *)
(* a wait; or the loop waits without a timeout while it holds timers,      *)
(* which is where LateByTheStep excepts it.                                *)
Armed(i) == \E t \in timers : t.id = i /\ t.exp <= MaxTime

TimeoutLost == deadline = Never /\ timers # {} /\ lag = TicksPerMs

TimerFires ==
  \A i \in TQ!Ids, k \in 0 .. 1 :
    (Armed(i) /\ fired[i] = k) ~> (fired[i] > k \/ TimeoutLost)

=============================================================================
