------------------------------ MODULE Reactor -------------------------------
(***************************************************************************)
(* EventLoop, WakeUp and Epoller together: the eventfd of the wake-up is   *)
(* one descriptor among those of one epoll instance, so whether a poster   *)
(* is heard depends on what else is ready, on the array of epoll and on    *)
(* what callbacks do to the other channels.                                *)
(*                                                                         *)
(* PendingTasks has the tasks and the counter, Poller the channels.  In    *)
(* the former epoll reports the eventfd whenever it likes; here the wake   *)
(* channel has to be constructed, enabled, reported and dispatched.        *)
(***************************************************************************)
EXTENDS PendingTasks, FiniteSets

CONSTANTS
  Channel, NoChannel, CallbacksOf, Readiness, Refusable, InitListSize, \* of Poller
  Wake,         \* the channel of WakeUp, its channel_
  UserKinds,    \* what users enable and disable their channels for
  MaxInline     \* bound: how many tasks the loop's own thread hands over

(* Those of Poller, and what is particular to the wake channel: that epoll *)
(* takes it, which WakeUp does not find out.                               *)
ASSUME ReactorAssumption ==
  /\ IsFiniteSet(Channel) /\ NoChannel \notin Channel
  /\ CallbacksOf \in [Channel -> SUBSET {"close", "read", "write"}]
  /\ Readiness \subseteq SUBSET {"IN", "OUT", "HUP", "ERR"}
  /\ InitListSize \in Nat \ {0}
  /\ Refusable \subseteq Channel \ {Wake}
  /\ Wake \in Channel /\ CallbacksOf[Wake] = {"read"}
  /\ {{}, {"IN"}} \subseteq Readiness
  /\ MaxInline \in 0 .. MaxTasks

VARIABLES
  alive, event, revent, channels, interest, activated, toHandle, current,
  calls, listSize, refused, gone,
  pollAt,     \* where the loop is, as Poller sees it
  othersReady \* what the descriptors but the eventfd are ready for

pollVars == <<alive, event, revent, channels, interest, activated, toHandle,
              current, calls, listSize, refused, gone, pollAt>>
reactorVars == <<vars, pollVars, othersReady>>

Others == Channel \ {Wake}

(* An eventfd is readable while its counter is not 0.                      *)
Ready == [c \in Channel |->
            IF c # Wake THEN othersReady[c]
            ELSE IF counter > 0 THEN {"IN"} ELSE {}]

Poll == INSTANCE Poller WITH loopAt <- pollAt, ready <- Ready

ASSUME UserKindsAssumption == UserKinds \subseteq Poll!Kinds

ReactorInit ==
  /\ othersReady \in [Others -> Readiness]
  /\ Init
  /\ Poll!Init

(* Other threads get to know the loop when its constructor is through.     *)
Constructed == event[Wake] # {}

-----------------------------------------------------------------------------
(* The constructor of WakeUp: of its channel, then enableRead.             *)
ConstructWake ==
  /\ UNCHANGED <<vars, othersReady>>
  /\ loopAt = "setup"
  /\ Poll!Construct(Wake)

(* Variant: the constructor calls enableWrite.                             *)
EnableWakeForWrite ==
  /\ UNCHANGED <<vars, othersReady>>
  /\ loopAt = "setup" /\ event[Wake] = {}
  /\ Poll!Enable(Wake, {"OUT"})

EnableWake ==
  /\ UNCHANGED <<vars, othersReady>>
  /\ loopAt = "setup" /\ event[Wake] = {}
  /\ Poll!Enable(Wake, {"IN", "HUP"})

(* Other threads.                                                          *)
Post(p) ==
  /\ Constructed
  /\ QueueInLoopThread(p)
  /\ UNCHANGED <<pollVars, othersReady>>

WriteSignal(p) == Signal(p) /\ UNCHANGED <<pollVars, othersReady>>

-----------------------------------------------------------------------------
(* Callbacks of channels, of timers and tasks.  The wake channel is none   *)
(* of theirs, and its callback calls nobody.                               *)
UserRuns ==
  /\ Constructed
  /\ loopAt \in {"setup", "dispatch", "timers", "task"}
  /\ pollAt \in {"callback", "after"} /\ current # Wake

RunHere ==
  UserRuns /\ asked[Loop] < MaxInline /\ RunInline /\ UNCHANGED <<pollVars, othersReady>>

ChangeChannel ==
  /\ UserRuns
  /\ UNCHANGED <<vars, othersReady>>
  /\ \E c \in Others :
       \/ Poll!Construct(c)
       \/ Poll!Destroy(c)
       \/ \E kind \in UserKinds : Poll!Enable(c, kind) \/ Poll!Disable(c, kind)

OthersReadinessChanges ==
  /\ \E c \in Others, r \in Readiness : othersReady' = [othersReady EXCEPT ![c] = r]
  /\ UNCHANGED <<vars, pollVars>>

-----------------------------------------------------------------------------
(* The loop.                                                               *)

EnterLoop ==
  /\ Constructed
  /\ StartLoop
  /\ UNCHANGED othersReady
  /\ Poll!StartAgain

(* epoll_wait returns, and the eventfd is among what it reports or not.    *)
Wait ==
  /\ UNCHANGED <<pendingTasks, counter, posterAt, task, asked, ran, othersReady>>
  /\ Poll!Wait
  /\ woken' = (Wake \in activated')
  /\ loopAt' = "dispatch"

HandleEvent ==
  /\ UNCHANGED <<vars, othersReady>>
  /\ Poll!HandleEvent

(* The callback of the wake channel: it returns when read has succeeded.   *)
HandleRead ==
  /\ pollAt = "callback" /\ current = Wake
  /\ HandleEvents
  /\ UNCHANGED <<pollVars, othersReady>>

CallbacksReturn ==
  /\ current = Wake => loopAt # "dispatch"
  /\ UNCHANGED <<vars, othersReady>>
  /\ Poll!CallbacksReturn

(* If the wake-up was not among the channels nothing was read.             *)
AllHandled ==
  /\ IF loopAt = "dispatch" THEN ~woken /\ HandleEvents
     ELSE UNCHANGED vars
  /\ UNCHANGED othersReady
  /\ Poll!AllHandled

(* Timers and doPendingTask; its end is the beginning of the next round.   *)
AfterDispatch ==
  /\ pollAt = "after"
  /\ UNCHANGED othersReady
  /\ TimersDone \/ CheckPending \/ TryPop \/ RunTask
  /\ IF loopAt' = "wait" THEN Poll!StartAgain ELSE UNCHANGED pollVars

(* What the thread of the loop does of itself.  The wait comes to an end   *)
(* of itself when epoll has something to report, and only then.            *)
ReactorStep ==
  \/ ConstructWake \/ EnableWake \/ EnterLoop
  \/ Wait /\ Poll!Reportable # {}
  \/ HandleEvent \/ HandleRead \/ CallbacksReturn \/ AllHandled \/ AfterDispatch

ReactorNext ==
  \/ ReactorStep
  \/ Wait
  \/ RunHere \/ ChangeChannel \/ OthersReadinessChanges
  \/ \E p \in Posters : Post(p) \/ WriteSignal(p)

ReactorSafeSpec == ReactorInit /\ [][ReactorNext]_reactorVars

(* What callbacks owe the loop: to destroy no channel that the batch still *)
(* holds.  What follows otherwise is undefined, and no promise is kept.    *)
BatchKept == (toHandle \union {current}) \intersect gone = {}

ReactorSpec ==
  /\ ReactorInit
  /\ [][ReactorNext /\ BatchKept']_reactorVars
  /\ WF_reactorVars(ReactorStep)
  /\ \A p \in Posters : WF_reactorVars(WriteSignal(p))

-----------------------------------------------------------------------------
(* The loop never sleeps on a task: while one is queued and the loop       *)
(* waits, epoll has the eventfd to report, or a poster is about to write.  *)
(* No callback, timer or task can have taken the wake-up out of epoll.     *)
WakeHeard ==
  pollAt = "wait" /\ pendingTasks # <<>> =>
    Wake \in Poll!Reportable \/ \E p \in Posters : posterAt[p] = "signal"

(* Signal retries while the eventfd is full, which blocks the poster until *)
(* the loop reads: it does, whichever channels epoll prefers to report.    *)
SignalReturns ==
  \A p \in Posters : posterAt[p] = "signal" ~> posterAt[p] = "idle"

(* What PendingTasks takes of epoll for granted is true of this one: it    *)
(* is implemented, the fairness of its loop included.                      *)
TasksSpec == Spec

=============================================================================
