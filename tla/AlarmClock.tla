----------------------------- MODULE AlarmClock -----------------------------
(***************************************************************************)
(* What runUntil, runAfter and runEvery promise, with no ordered set, no   *)
(* batch of expired timers and no loop in sight: an alarm never goes off   *)
(* before the time it was set for, a one-shot alarm goes off once, and two *)
(* runs of a repeating alarm are at least its interval apart.              *)
(*                                                                         *)
(* An interval of 0 stands for an alarm that does not repeat.              *)
(***************************************************************************)
EXTENDS Naturals

CONSTANT Ids

VARIABLES
  now,    \* the reading of the clock
  set,    \* the alarms that were ever set
  alarm,  \* alarm[i]: when alarm i is due first, and its interval
  fired,  \* fired[i]: how often alarm i went off
  last    \* last[i]: when alarm i last went off

vars == <<now, set, alarm, fired, last>>

Alarm == [due : Nat, interval : Nat]

Init ==
  /\ now \in Nat
  /\ set = {}
  /\ alarm = [i \in Ids |-> [due |-> 0, interval |-> 0]]
  /\ fired = [i \in Ids |-> 0]
  /\ last = [i \in Ids |-> 0]

Advance ==
  /\ now' \in Nat
  /\ now' > now
  /\ UNCHANGED <<set, alarm, fired, last>>

(* Any due time and any interval may be asked for.                         *)
Set(i) ==
  /\ i \notin set
  /\ set' = set \cup {i}
  /\ alarm'[i] \in Alarm
  /\ alarm' = [alarm EXCEPT ![i] = alarm'[i]]
  /\ UNCHANGED <<now, fired, last>>

(* The first run is due at a fixed time, a later one an interval after the *)
(* run before it; a one-shot alarm has no later run.                       *)
MayFire(i) ==
  /\ i \in set
  /\ fired[i] = 0 => alarm[i].due <= now
  /\ fired[i] > 0 => alarm[i].interval > 0 /\ last[i] + alarm[i].interval <= now

Fire(i) ==
  /\ MayFire(i)
  /\ fired' = [fired EXCEPT ![i] = @ + 1]
  /\ last' = [last EXCEPT ![i] = now]
  /\ UNCHANGED <<now, set, alarm>>

Next ==
  \/ Advance
  \/ \E i \in Ids : Set(i) \/ Fire(i)

Spec == Init /\ [][Next]_vars

=============================================================================
