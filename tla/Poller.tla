------------------------------- MODULE Poller -------------------------------
(***************************************************************************)
(* Epoller, Channel and the dispatch of the loop: channels tell epoll what *)
(* they want to hear of, the loop waits, and every channel that epoll      *)
(* reports has its callbacks called.                                       *)
(*                                                                         *)
(* Everything but the readiness of the descriptors belongs to the thread   *)
(* of the loop.  Callbacks, timers and tasks run there too: they make and  *)
(* destroy channels and change what channels want.  While a loop lives     *)
(* nothing under src closes a descriptor that has a channel (the wake-up   *)
(* does when the loop is destroyed, see Server), so a descriptor is        *)
(* identified with the one channel that there is for it at a time.         *)
(***************************************************************************)
EXTENDS Naturals, FiniteSets

CONSTANTS
  Channel,       \* descriptors, and the channel there may be for each
  NoChannel,
  CallbacksOf,   \* which callbacks the channel for a descriptor has
  Readiness,     \* what epoll may find a descriptor ready for
  Refusable,     \* descriptors that the kernel may refuse to add to epoll
  InitListSize   \* eventListSize, 64

Flag == {"IN", "OUT", "HUP", "ERR"}

(* Event::IN, Event::OUT and Event::ERROR.                                 *)
Kinds == {{"IN", "HUP"}, {"OUT"}, {"ERR"}}

(* setErrorCallback sets writecb_: no channel has an error callback.       *)
CallbackKinds == {"close", "read", "write"}

ASSUME PollerAssumption ==
  /\ IsFiniteSet(Channel)
  /\ NoChannel \notin Channel
  /\ CallbacksOf \in [Channel -> SUBSET CallbackKinds]
  /\ Readiness \subseteq SUBSET Flag
  /\ Refusable \subseteq Channel
  /\ InitListSize \in Nat \ {0}

(* What the kernel has for a descriptor that was not added.                *)
NotAdded == {"not added"}

VARIABLES
  alive,      \* whether there is a channel
  event,      \* event_ of each channel
  revent,     \* revent_ of each channel
  channels,   \* the descriptors in channels_
  interest,   \* what the kernel has for each descriptor
  ready,      \* what each descriptor is ready for
  activated,  \* activatedChannels_
  toHandle,   \* the part of it that the loop has still to go through
  loopAt,     \* "wait", "handle", "callback", "after": timers and tasks, or
              \* "undefined" once a pointer to no channel has been followed
  current,    \* the channel that handleEvent runs for
  calls,      \* the callbacks that it calls
  listSize,   \* activatedfds_.size()
  refused,    \* history: the channels that could not be added to epoll
  gone        \* history: those that callbacks destroyed since the last wait

channelVars == <<alive, event, revent, channels, interest, refused, gone>>
dispatchVars == <<activated, toHandle, loopAt, current, calls, listSize>>
vars == <<channelVars, dispatchVars, ready>>

Init ==
  /\ alive = [c \in Channel |-> FALSE]
  /\ event = [c \in Channel |-> {}]
  /\ revent = [c \in Channel |-> {}]
  /\ channels = {}
  /\ interest = [c \in Channel |-> NotAdded]
  /\ ready \in [Channel -> Readiness]
  /\ activated = {} /\ toHandle = {}
  /\ loopAt = "after"
  /\ current = NoChannel /\ calls = {}
  /\ listSize = InitListSize
  /\ refused = {} /\ gone = {}

-----------------------------------------------------------------------------
(* What the code in callbacks, timers and tasks does to channels.          *)

UserRuns == loopAt \in {"callback", "after"}

Construct(c) ==
  /\ UserRuns /\ ~alive[c]
  /\ alive' = [alive EXCEPT ![c] = TRUE]
  /\ UNCHANGED <<event, revent, channels, interest, refused, gone, dispatchVars, ready>>

(* EPOLL_CTL_ADD fails for what the kernel has already, and of itself: for *)
(* want of memory or of watches, or for a descriptor that has no poll.     *)
Add(c, e) ==
  \/ /\ interest' = IF interest[c] = NotAdded
                    THEN [interest EXCEPT ![c] = e] ELSE interest
     /\ UNCHANGED refused
  \/ /\ c \in Refusable
     /\ refused' = refused \union {c}
     /\ UNCHANGED interest

(* EPOLL_CTL_MOD fails for what the kernel has not, and for nothing else.  *)
Modify(c, e) ==
  /\ interest' = IF interest[c] = NotAdded
                 THEN interest ELSE [interest EXCEPT ![c] = e]
  /\ UNCHANGED refused

(* Variant: epoll is told to add what it already has.                      *)
UpdateByAdd(c, e) ==
  /\ event' = [event EXCEPT ![c] = e]
  /\ channels' = channels \union {c}
  /\ Add(c, e)

(* The channel is in channels_ before epoll is asked, and a failure is     *)
(* only logged: what was refused stays there and is changed from then on.  *)
Update(c, e) ==
  /\ event' = [event EXCEPT ![c] = e]
  /\ channels' = channels \union {c}
  /\ IF c \in channels THEN Modify(c, e) ELSE Add(c, e)

Enable(c, kind) ==
  /\ UserRuns /\ alive[c]
  /\ Update(c, event[c] \union kind)
  /\ UNCHANGED <<alive, revent, gone, dispatchVars, ready>>

Disable(c, kind) ==
  /\ UserRuns /\ alive[c]
  /\ Update(c, event[c] \ kind)
  /\ UNCHANGED <<alive, revent, gone, dispatchVars, ready>>

(* Variant: epoll is not told.                                             *)
ForgetChannel(c) ==
  /\ channels' = channels \ {c}
  /\ interest' = [interest EXCEPT ![c] = {}]
  /\ refused' = refused \ {c}

(* disableAll registers the channel if it was not, and remove follows.     *)
RemoveChannel(c) ==
  /\ channels' = channels \ {c}
  /\ interest' = [interest EXCEPT ![c] = NotAdded]
  /\ refused' = refused \ {c}

(* Nothing keeps a callback from destroying a channel that the loop has    *)
(* still to go through, or the one it was called by.                       *)
Destroy(c) ==
  /\ UserRuns /\ alive[c]
  /\ RemoveChannel(c)
  /\ gone' = IF loopAt = "callback" THEN gone \union {c} ELSE gone
  /\ alive' = [alive EXCEPT ![c] = FALSE]
  /\ event' = [event EXCEPT ![c] = {}]
  /\ revent' = [revent EXCEPT ![c] = {}]
  /\ UNCHANGED <<dispatchVars, ready>>

-----------------------------------------------------------------------------
(* The loop.                                                               *)

(* epoll reports errors and hang-ups whether they were asked for or not.   *)
Reports(c) ==
  IF interest[c] = NotAdded THEN {}
  ELSE ready[c] \intersect (interest[c] \union {"HUP", "ERR"})
Reportable == {c \in Channel : Reports(c) # {}}

(* It reports as many as the array takes, of its own choice.               *)
Reported(S) ==
  /\ S \subseteq Reportable
  /\ Cardinality(S) <= listSize
  /\ Cardinality(S) < listSize => S = Reportable

FillActivatedChannels(S) ==
  /\ revent' = [c \in Channel |-> IF c \in S THEN Reports(c) ELSE revent[c]]
  /\ toHandle' = activated'
  /\ loopAt' = "handle"
  /\ gone' = {}
  /\ UNCHANGED <<alive, event, channels, interest, refused, current, calls, ready>>

(* Variant: activatedChannels_ is not cleared.                             *)
WaitUncleared ==
  /\ loopAt = "wait"
  /\ \E S \in SUBSET Channel :
       /\ Reported(S)
       /\ activated' = activated \union S
       /\ listSize' = IF Cardinality(S) = listSize THEN listSize * 2 ELSE listSize
       /\ FillActivatedChannels(S)

(* Variant: the array keeps its size.                                      *)
WaitWithFixedList ==
  /\ loopAt = "wait"
  /\ \E S \in SUBSET Channel :
       Reported(S) /\ activated' = S /\ FillActivatedChannels(S)
  /\ UNCHANGED listSize

(* Variant: the array grows when it is not full, too.                      *)
WaitWithGrowingList ==
  /\ loopAt = "wait"
  /\ \E S \in SUBSET Channel :
       Reported(S) /\ activated' = S /\ FillActivatedChannels(S)
  /\ listSize' = listSize * 2

(* The wait returns when something is ready, at a timeout or a signal.     *)
Wait ==
  /\ loopAt = "wait"
  /\ \E S \in SUBSET Channel :
       /\ Reported(S)
       /\ activated' = S
       /\ listSize' = IF Cardinality(S) = listSize THEN listSize * 2 ELSE listSize
       /\ FillActivatedChannels(S)

Calls(c) ==
  {k \in CallbacksOf[c] :
     \/ k = "close" /\ "HUP" \in revent[c] /\ "IN" \notin revent[c]
     \/ k = "read" /\ "IN" \in revent[c]
     \/ k = "write" /\ "OUT" \in revent[c]}

(* The loop goes on to the next channel and calls what is set for what     *)
(* epoll reported, without looking at event_ again.  A channel that was    *)
(* destroyed since is called through what is left of it.                   *)
HandleEvent ==
  /\ loopAt = "handle"
  /\ \E c \in toHandle :
       LET called == IF c \in gone THEN {} ELSE Calls(c) IN
       /\ toHandle' = toHandle \ {c}
       /\ calls' = called
       /\ current' = IF called = {} THEN NoChannel ELSE c
       /\ loopAt' = IF c \in gone THEN "undefined"
                    ELSE IF called = {} THEN "handle" ELSE "callback"
  /\ UNCHANGED <<channelVars, activated, listSize, ready>>

(* handleEvent looks at revent_ again after each callback.                 *)
CallbacksReturn ==
  /\ loopAt = "callback"
  /\ loopAt' = IF current \in gone THEN "undefined" ELSE "handle"
  /\ current' = NoChannel
  /\ calls' = {}
  /\ UNCHANGED <<channelVars, activated, toHandle, listSize, ready>>

(* Timers and tasks run, and the loop starts again.                        *)
AllHandled ==
  /\ loopAt = "handle" /\ toHandle = {}
  /\ loopAt' = "after"
  /\ UNCHANGED <<channelVars, activated, toHandle, current, calls, listSize, ready>>

StartAgain ==
  /\ loopAt = "after"
  /\ loopAt' = "wait"
  /\ UNCHANGED <<channelVars, activated, toHandle, current, calls, listSize, ready>>

LoopStep == Wait \/ HandleEvent \/ CallbacksReturn \/ AllHandled \/ StartAgain

-----------------------------------------------------------------------------
(* The peers, and callbacks that read and write, change what is ready.     *)
ReadinessChanges ==
  /\ \E c \in Channel, r \in Readiness : ready' = [ready EXCEPT ![c] = r]
  /\ UNCHANGED <<channelVars, dispatchVars>>

UserStep ==
  \E c \in Channel :
    \/ Construct(c)
    \/ Destroy(c)
    \/ \E kind \in Kinds : Enable(c, kind) \/ Disable(c, kind)

Next == LoopStep \/ UserStep \/ ReadinessChanges

(* The loop goes on: callbacks, timers and tasks return.                   *)
Fairness == WF_vars(LoopStep)

SafeSpec == Init /\ [][Next]_vars
Spec == SafeSpec /\ Fairness

-----------------------------------------------------------------------------
(* The array grows only when it was full, so it has a bound.               *)
TypeOK ==
  /\ alive \in [Channel -> BOOLEAN]
  /\ event \in [Channel -> SUBSET Flag]
  /\ revent \in [Channel -> SUBSET Flag]
  /\ channels \subseteq Channel
  /\ interest \in [Channel -> (SUBSET Flag) \union {NotAdded}]
  /\ ready \in [Channel -> SUBSET Flag]
  /\ toHandle \subseteq activated /\ activated \subseteq Channel
  /\ loopAt \in {"wait", "handle", "callback", "after", "undefined"}
  /\ current \in Channel \union {NoChannel}
  /\ calls \subseteq CallbackKinds
  /\ (calls # {}) <=> (loopAt = "callback")
  /\ listSize \in Nat \ {0}
  /\ listSize <= InitListSize \/ listSize <= 2 * Cardinality(Channel)
  /\ refused \subseteq Refusable /\ gone \subseteq Channel

(* For every channel of channels_ the kernel has what its event_ says,     *)
(* after any failed, repeated or undone registration, with one exception:  *)
(* a channel that was refused when it was added is never in epoll again,   *)
(* whatever it is enabled for afterwards, until it is destroyed.           *)
InterestCurrent ==
  \A c \in channels :
    interest[c] = IF c \in refused THEN NotAdded ELSE event[c]

(* The pointer that epoll returns leads to a channel, and that channel is  *)
(* in channels_: the assertion of fillActivatedChannels.                   *)
ReportedIsRegistered ==
  \A c \in Channel : interest[c] # NotAdded => alive[c] /\ c \in channels

(* The channels that the loop has still to go through exist, and so does   *)
(* the one whose callbacks run, unless a callback of the same batch has    *)
(* destroyed it: what timers, tasks and earlier batches destroyed is not   *)
(* among them.                                                             *)
DispatchedIsAlive ==
  \A c \in Channel : c \in toHandle \union {current} => alive[c] \/ c \in gone

(* A channel that stays readable and wants to read has its callback called *)
(* again and again, whichever channels epoll prefers: the array grows      *)
(* until it takes them all.  It must not have been refused, and no         *)
(* callback have destroyed a channel of its own batch.                     *)
WantsRead(c) ==
  /\ alive[c] /\ "read" \in CallbacksOf[c]
  /\ "IN" \in event[c] \intersect ready[c]
ReadServed ==
  \A c \in Channel :
    []<>(\/ ~WantsRead(c) \/ c \in refused \/ loopAt = "undefined"
         \/ current = c /\ "read" \in calls)

=============================================================================
