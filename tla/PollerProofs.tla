---------------------------- MODULE PollerProofs ----------------------------
(***************************************************************************)
(* Proofs about Poller, for any finite set of channels, any callbacks and  *)
(* any initial size of the array.                                          *)
(***************************************************************************)
EXTENDS Poller, FiniteSetTheorems, TLAPS

(* Outside of the dispatch nothing is left to handle.                      *)
Between ==
  /\ loopAt \in {"wait", "after"} => toHandle = {}
  /\ loopAt # "callback" => current = NoChannel

(* What was refused is in channels_ all the same.                          *)
RefusedIsRegistered == refused \subseteq channels

PollerInv ==
  /\ TypeOK
  /\ InterestCurrent /\ ReportedIsRegistered /\ RefusedIsRegistered
  /\ DispatchedIsAlive /\ Between

LEMMA NotAddedIsNoInterest == NotAdded \notin SUBSET Flag
BY DEF NotAdded, Flag

LEMMA KindsAreFlags == \A kind \in Kinds : kind \subseteq Flag
BY DEF Kinds, Flag

LEMMA PollerInit == Init => PollerInv
<1> SUFFICES ASSUME Init PROVE PollerInv
  OBVIOUS
<1>1. TypeOK
  BY PollerAssumption DEF Init, TypeOK, CallbackKinds
<1>2. InterestCurrent /\ ReportedIsRegistered /\ RefusedIsRegistered /\ DispatchedIsAlive /\ Between
  BY PollerAssumption
  DEF Init, InterestCurrent, ReportedIsRegistered, RefusedIsRegistered, DispatchedIsAlive, Between
<1> QED
  BY <1>1, <1>2 DEF PollerInv

(* Telling epoll of a channel that exists keeps what the kernel has in     *)
(* line with what the channel wants.                                       *)
LEMMA UpdateStep ==
  ASSUME PollerInv, NEW c \in Channel, alive[c], NEW e \in SUBSET Flag,
         Update(c, e), UNCHANGED <<alive, revent, gone, dispatchVars, ready>>
  PROVE  PollerInv'
<1>1. \/ interest' = [interest EXCEPT ![c] = e] /\ c \notin refused /\ refused' = refused
      \/ interest' = interest /\ interest[c] = NotAdded
           /\ refused' = refused \union {c} /\ c \in Refusable
  <2>1. CASE c \in channels /\ c \in refused
    <3>1. interest[c] = NotAdded
      BY <2>1 DEF PollerInv, InterestCurrent
    <3>2. refused \union {c} = refused /\ c \in Refusable
      BY <2>1 DEF PollerInv, TypeOK
    <3> QED
      BY <2>1, <3>1, <3>2 DEF Update, Modify
  <2>2. CASE c \in channels /\ c \notin refused
    <3>1. interest[c] = event[c] /\ event[c] \in SUBSET Flag
      BY <2>2 DEF PollerInv, InterestCurrent, TypeOK
    <3>2. interest[c] # NotAdded
      BY <3>1, NotAddedIsNoInterest
    <3> QED
      BY <2>2, <3>2 DEF Update, Modify
  <2>3. CASE c \notin channels
    <3>1. interest[c] = NotAdded
      BY <2>3 DEF PollerInv, ReportedIsRegistered
    <3>2. c \notin refused
      BY <2>3 DEF PollerInv, RefusedIsRegistered
    <3> QED
      BY <2>3, <3>1, <3>2 DEF Update, Add
  <2> QED
    BY <2>1, <2>2, <2>3
<1>2. TypeOK'
  BY <1>1 DEF PollerInv, TypeOK, Update, dispatchVars
<1>3. InterestCurrent' /\ ReportedIsRegistered' /\ RefusedIsRegistered'
  BY <1>1 DEF PollerInv, TypeOK, InterestCurrent, ReportedIsRegistered,
              RefusedIsRegistered, Update, dispatchVars
<1>4. DispatchedIsAlive' /\ Between'
  BY DEF PollerInv, DispatchedIsAlive, Between, dispatchVars
<1> QED
  BY <1>2, <1>3, <1>4 DEF PollerInv

LEMMA ConstructStep ==
  ASSUME PollerInv, NEW c \in Channel, Construct(c)
  PROVE  PollerInv'
BY DEF PollerInv, TypeOK, InterestCurrent, ReportedIsRegistered, RefusedIsRegistered, DispatchedIsAlive, Between,
       Construct, dispatchVars

LEMMA DestroyStep ==
  ASSUME PollerInv, NEW c \in Channel, Destroy(c)
  PROVE  PollerInv'
<1>1. c \in toHandle \union {current} => c \in gone'
  BY PollerAssumption DEF Destroy, UserRuns, PollerInv, Between
<1>2. TypeOK'
  BY DEF PollerInv, TypeOK, Destroy, RemoveChannel, dispatchVars
<1>3. InterestCurrent' /\ ReportedIsRegistered' /\ RefusedIsRegistered'
  BY DEF PollerInv, TypeOK, InterestCurrent, ReportedIsRegistered, RefusedIsRegistered, Destroy, RemoveChannel
<1>4. DispatchedIsAlive' /\ Between'
  BY <1>1 DEF PollerInv, TypeOK, DispatchedIsAlive, Between, Destroy, dispatchVars
<1> QED
  BY <1>2, <1>3, <1>4 DEF PollerInv

(* The array doubles when as many channels were reported as it takes, and  *)
(* there are not more than all of them.                                    *)
LEMMA ListGrowth ==
  ASSUME NEW S \in SUBSET Channel, NEW n \in Nat \ {0}, Cardinality(S) = n
  PROVE  n * 2 \in Nat \ {0} /\ n * 2 <= 2 * Cardinality(Channel)
<1>1. Cardinality(S) <= Cardinality(Channel) /\ Cardinality(Channel) \in Nat
  BY PollerAssumption, FS_Subset, FS_CardinalityType
<1>2. ASSUME NEW m \in Nat, n <= m PROVE n * 2 \in Nat \ {0} /\ n * 2 <= 2 * m
  BY <1>2
<1> QED
  BY <1>1, <1>2

LEMMA WaitStep ==
  ASSUME PollerInv, Wait
  PROVE  PollerInv'
<1>1. PICK S \in SUBSET Channel :
        /\ Reported(S)
        /\ activated' = S
        /\ listSize' = IF Cardinality(S) = listSize THEN listSize * 2 ELSE listSize
        /\ FillActivatedChannels(S)
  BY DEF Wait
<1>2. \A c \in S : alive[c]
  BY <1>1 DEF Reported, Reportable, Reports, PollerInv, ReportedIsRegistered
<1>3. \A c \in Channel : Reports(c) \in SUBSET Flag
  BY DEF Reports, PollerInv, TypeOK
<1>4. revent' \in [Channel -> SUBSET Flag]
  BY <1>1, <1>3 DEF FillActivatedChannels, PollerInv, TypeOK
<1>5. /\ listSize' \in Nat \ {0}
      /\ listSize' <= InitListSize \/ listSize' <= 2 * Cardinality(Channel)
  <2>1. CASE Cardinality(S) = listSize
    <3>1. listSize' = listSize * 2 /\ listSize \in Nat \ {0}
      BY <1>1, <2>1 DEF PollerInv, TypeOK
    <3> QED
      BY <2>1, <3>1, ListGrowth
  <2>2. CASE Cardinality(S) # listSize
    BY <1>1, <2>2 DEF PollerInv, TypeOK
  <2> QED
    BY <2>1, <2>2
<1>6. TypeOK'
  BY <1>1, <1>4, <1>5 DEF FillActivatedChannels, PollerInv, TypeOK, Wait
<1>7. InterestCurrent' /\ ReportedIsRegistered' /\ RefusedIsRegistered'
  BY <1>1 DEF FillActivatedChannels, PollerInv, InterestCurrent, ReportedIsRegistered, RefusedIsRegistered
<1>8. DispatchedIsAlive' /\ Between'
  BY <1>1, <1>2, PollerAssumption
  DEF FillActivatedChannels, PollerInv, DispatchedIsAlive, Between, Wait
<1> QED
  BY <1>6, <1>7, <1>8 DEF PollerInv

LEMMA HandleEventStep ==
  ASSUME PollerInv, HandleEvent
  PROVE  PollerInv'
<1>1. PICK c \in toHandle :
        /\ toHandle' = toHandle \ {c}
        /\ calls' = IF c \in gone THEN {} ELSE Calls(c)
        /\ current' = IF calls' = {} THEN NoChannel ELSE c
        /\ loopAt' = IF c \in gone THEN "undefined"
                     ELSE IF calls' = {} THEN "handle" ELSE "callback"
  BY DEF HandleEvent
<1>2. c \in Channel /\ (c \in gone \/ alive[c])
  BY <1>1 DEF PollerInv, TypeOK, DispatchedIsAlive
<1>3. calls' \subseteq CallbackKinds
  BY <1>1, <1>2, PollerAssumption DEF Calls
<1>4. TypeOK'
  BY <1>1, <1>2, <1>3 DEF HandleEvent, channelVars, PollerInv, TypeOK
<1>5. InterestCurrent' /\ ReportedIsRegistered' /\ RefusedIsRegistered'
  BY DEF HandleEvent, channelVars, PollerInv, InterestCurrent, ReportedIsRegistered, RefusedIsRegistered
<1>6. DispatchedIsAlive' /\ Between'
  BY <1>1, <1>2, PollerAssumption
  DEF HandleEvent, channelVars, PollerInv, DispatchedIsAlive, Between
<1> QED
  BY <1>4, <1>5, <1>6 DEF PollerInv

LEMMA PollerNext == PollerInv /\ [Next]_vars => PollerInv'
<1> SUFFICES ASSUME PollerInv, [Next]_vars PROVE PollerInv'
  OBVIOUS
<1>1. CASE Wait
  BY <1>1, WaitStep
<1>2. CASE HandleEvent
  BY <1>2, HandleEventStep
<1>3. CASE CallbacksReturn
  BY <1>3, PollerAssumption
  DEF CallbacksReturn, channelVars, PollerInv, TypeOK, InterestCurrent,
      ReportedIsRegistered, RefusedIsRegistered, DispatchedIsAlive, Between
<1>4. CASE AllHandled
  BY <1>4 DEF AllHandled, channelVars, PollerInv, TypeOK, InterestCurrent,
      ReportedIsRegistered, RefusedIsRegistered, DispatchedIsAlive, Between
<1>5. CASE StartAgain
  BY <1>5 DEF StartAgain, channelVars, PollerInv, TypeOK, InterestCurrent,
      ReportedIsRegistered, RefusedIsRegistered, DispatchedIsAlive, Between
<1>6. ASSUME NEW c \in Channel, NEW kind \in Kinds, Enable(c, kind) \/ Disable(c, kind)
      PROVE  PollerInv'
  <2>1. event[c] \union kind \in SUBSET Flag /\ event[c] \ kind \in SUBSET Flag
    BY KindsAreFlags DEF PollerInv, TypeOK
  <2> QED
    BY <1>6, <2>1, UpdateStep DEF Enable, Disable
<1>7. CASE UserStep
  BY <1>6, <1>7, ConstructStep, DestroyStep DEF UserStep
<1>8. CASE ReadinessChanges
  BY <1>8, PollerAssumption
  DEF ReadinessChanges, channelVars, dispatchVars, PollerInv, TypeOK, InterestCurrent,
      ReportedIsRegistered, RefusedIsRegistered, DispatchedIsAlive, Between
<1>9. CASE UNCHANGED vars
  BY <1>9 DEF vars, channelVars, dispatchVars, PollerInv, TypeOK, InterestCurrent,
      ReportedIsRegistered, RefusedIsRegistered, DispatchedIsAlive, Between
<1> QED
  BY <1>1, <1>2, <1>3, <1>4, <1>5, <1>7, <1>8, <1>9 DEF Next, LoopStep

-----------------------------------------------------------------------------
(* PollerInv is inductive.                                                 *)
THEOREM PollerInvariant == SafeSpec => []PollerInv
BY PollerInit, PollerNext, PTL DEF SafeSpec

(* The state has its types, and the array of events its bound.             *)
THEOREM PollerTypeCorrect == SafeSpec => []TypeOK
<1>1. PollerInv => TypeOK
  BY DEF PollerInv
<1> QED
  BY <1>1, PollerInvariant, PTL

(* What the kernel watches for is what each registered channel wants; what *)
(* it refused to add it does not watch until the channel is destroyed.     *)
THEOREM InterestCurrentHolds == SafeSpec => []InterestCurrent
<1>1. PollerInv => InterestCurrent
  BY DEF PollerInv
<1> QED
  BY <1>1, PollerInvariant, PTL

(* The assertion of fillActivatedChannels never fails.                     *)
THEOREM ReportedIsRegisteredHolds == SafeSpec => []ReportedIsRegistered
<1>1. PollerInv => ReportedIsRegistered
  BY DEF PollerInv
<1> QED
  BY <1>1, PollerInvariant, PTL

(* A pointer of the batch leads to no channel only when a callback of this *)
(* very batch has destroyed the channel.                                   *)
THEOREM DispatchedIsAliveHolds == SafeSpec => []DispatchedIsAlive
<1>1. PollerInv => DispatchedIsAlive
  BY DEF PollerInv
<1> QED
  BY <1>1, PollerInvariant, PTL

=============================================================================
