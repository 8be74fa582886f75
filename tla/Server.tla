-------------------------------- MODULE Server --------------------------------
(***************************************************************************)
(* The life of the objects of main: an EventLoop, a ListenSocket, bind,    *)
(* listen, loop.  Any number of threads do the same side by side, one loop *)
(* in each.  stop_ is never set, so loop ends only when a callback throws; *)
(* then, or when a later constructor fails, the objects are destroyed from *)
(* the last to the first, and the thread may try again.                    *)
(*                                                                         *)
(* A loop is named by the thread that made it: its threadId_.  What the    *)
(* system calls return is seldom looked at, and the table of descriptors   *)
(* belongs to all threads, so each call is a step and may fail.            *)
(***************************************************************************)
EXTENDS Naturals

CONSTANTS
  Thread,
  NoThread,  \* std::thread::id {}
  Fd,        \* the descriptors the process may have, RLIMIT_NOFILE
  NoFd       \* what a failed call returns instead of one, -1

ASSUME ServerAssumption ==
  /\ NoThread \notin Thread
  /\ Fd \subseteq Nat
  /\ NoFd \notin Fd

(* What a descriptor is for: epollfd_ of Epoller, fd_ of WakeUp, handler_  *)
(* of Socket and idlefd_ of ListenSocket.                                  *)
Role == {"epoll", "event", "listen", "idle"}

Free == <<"free", NoThread>>
Others == <<"other", NoThread>>

VARIABLES
  at,          \* how far the objects of each thread are made or destroyed
  local,       \* local_thread_id_ of each thread
  fd,          \* the descriptors the objects of each thread keep
  channels,    \* channels_ of the poller of each thread
  interest,    \* the descriptors that the kernel has for that poller
  owner,       \* what each descriptor is for, and in which thread
  terminated   \* whether std::terminate was called

vars == <<at, local, fd, channels, interest, owner, terminated>>

-----------------------------------------------------------------------------
(* Which objects of the thread exist, by how far it is.                    *)

HasPoller(t) == at[t] # "out"
HasListener(t) == at[t] \in {"listener", "bound", "listening", "looping"}
IsLoop(t) == HasListener(t) \/ at[t] \in {"loop", "socket", "reserve", "options"}

(* The channel of a role exists and was enabled.                           *)
HasChannel(t, role) ==
  \/ role = "event" /\ (IsLoop(t) \/ at[t] \in {"closedReserve", "closedEvent"})
  \/ role = "listen" /\ (HasListener(t) \/ at[t] = "closedReserve")

(* The descriptors that an object of the thread still has to itself.       *)
Holds(t, role) ==
  \/ role = "epoll" /\ HasPoller(t)
  \/ role = "event" /\ (IsLoop(t) \/ at[t] \in {"wakeup", "closedReserve"})
  \/ /\ role = "listen"
     /\ HasListener(t) \/ at[t] \in {"socket", "reserve", "options", "closedReserve"}
  \/ role = "idle" /\ (HasListener(t) \/ at[t] \in {"reserve", "options"})

(* It may be that the call failed and nobody has looked yet.               *)
MayLack(t, role) ==
  \/ role = "epoll" /\ at[t] = "epoller"
  \/ role = "event" /\ at[t] = "wakeup"
  \/ role = "listen" /\ at[t] \in {"socket", "reserve"}
  \/ role = "idle"

IsInLoopThread(t, caller) == local[caller] = t

-----------------------------------------------------------------------------
Init ==
  /\ at = [t \in Thread |-> "out"]
  /\ local = [t \in Thread |-> NoThread]
  /\ fd = [t \in Thread |-> [role \in Role |-> NoFd]]
  /\ channels = [t \in Thread |-> {}]
  /\ interest = [t \in Thread |-> {}]
  /\ owner = [f \in Fd |-> Free]
  /\ terminated = FALSE

IsLowest(f) ==
  /\ owner[f] = Free
  /\ \A g \in Fd : owner[g] = Free => f <= g

(* A call that opens a descriptor; the kernel picks the lowest number.     *)
Open(t, role) ==
  \/ \E f \in Fd :
       /\ IsLowest(f)
       /\ owner' = [owner EXCEPT ![f] = <<role, t>>]
       /\ fd' = [fd EXCEPT ![t] = [@ EXCEPT ![role] = f]]
  \/ /\ fd' = [fd EXCEPT ![t] = [@ EXCEPT ![role] = NoFd]]
     /\ UNCHANGED owner

(* close takes the descriptor from every epoll as well.                    *)
Close(f) ==
  /\ owner' = [g \in Fd |-> IF g = f THEN Free ELSE owner[g]]
  /\ interest' = [t \in Thread |-> interest[t] \ {f}]

(* The members of an object go with it.                                    *)
Forget(t, roles) ==
  fd' = [fd EXCEPT ![t] = [role \in Role |-> IF role \in roles THEN NoFd ELSE @[role]]]

Goes(t, from, to) == at[t] = from /\ at' = [at EXCEPT ![t] = to]

Terminate ==
  /\ terminated' = TRUE
  /\ UNCHANGED <<at, local, fd, channels, interest, owner>>

-----------------------------------------------------------------------------
(* EventLoop::EventLoop.                                                   *)

CreateEpoll(t) ==
  /\ Goes(t, "out", "epoller")
  /\ Open(t, "epoll")
  /\ channels' = [channels EXCEPT ![t] = {}]
  /\ interest' = [interest EXCEPT ![t] = {}]
  /\ UNCHANGED <<local, terminated>>

(* Variant: nobody asks whether the thread has had a loop before.          *)
ClaimThreadAgain(t) ==
  /\ Goes(t, "epoller", "claimed")
  /\ fd[t]["epoll"] # NoFd
  /\ local' = [local EXCEPT ![t] = t]
  /\ UNCHANGED <<fd, channels, interest, owner, terminated>>

ClaimThread(t) ==
  /\ Goes(t, "epoller", "claimed")
  /\ fd[t]["epoll"] # NoFd /\ local[t] = NoThread
  /\ local' = [local EXCEPT ![t] = t]
  /\ UNCHANGED <<fd, channels, interest, owner, terminated>>

(* epoll_create1 has failed, or the thread has had a loop before.          *)
ClaimFails(t) ==
  /\ at[t] = "epoller"
  /\ fd[t]["epoll"] = NoFd \/ local[t] # NoThread
  /\ Terminate

CreateEvent(t) ==
  /\ Goes(t, "claimed", "wakeup")
  /\ Open(t, "event")
  /\ UNCHANGED <<local, channels, interest, terminated>>

(* Channel::enableRead, through EventLoop::update and Epoller::update.     *)
(* epoll_ctl may fail, and nobody minds.                                   *)
EnableRead(t, role) ==
  LET f == fd[t][role]
  IN /\ IsInLoopThread(t, t)
     /\ channels' = [channels EXCEPT ![t] = @ \union {f}]
     /\ \/ f \notin channels[t] /\ interest' = [interest EXCEPT ![t] = @ \union {f}]
        \/ UNCHANGED interest

EnableWake(t) ==
  /\ Goes(t, "wakeup", "loop")
  /\ fd[t]["event"] # NoFd
  /\ EnableRead(t, "event")
  /\ UNCHANGED <<local, fd, owner, terminated>>

WakeFails(t) ==
  /\ at[t] = "wakeup"
  /\ fd[t]["event"] = NoFd
  /\ Terminate

-----------------------------------------------------------------------------
(* ListenSocket::ListenSocket, bind and listen.                            *)

CreateSocket(t) ==
  /\ Goes(t, "loop", "socket")
  /\ Open(t, "listen")
  /\ UNCHANGED <<local, channels, interest, terminated>>

OpenReserve(t) ==
  /\ Goes(t, "socket", "reserve")
  /\ Open(t, "idle")
  /\ UNCHANGED <<local, channels, interest, terminated>>

(* Variant: setsockopt is not looked at.                                   *)
SetReuseUnchecked(t) ==
  /\ Goes(t, "reserve", "options")
  /\ IsInLoopThread(t, t)
  /\ UNCHANGED <<local, fd, channels, interest, owner, terminated>>

(* setsockopt is the first to notice that there is no socket.              *)
SetReuse(t) ==
  /\ Goes(t, "reserve", "options")
  /\ IsInLoopThread(t, t)
  /\ fd[t]["listen"] # NoFd
  /\ UNCHANGED <<local, fd, channels, interest, owner, terminated>>

SetReuseFails(t) ==
  /\ at[t] = "reserve"
  /\ fd[t]["listen"] = NoFd
  /\ Terminate

EnableListen(t) ==
  /\ Goes(t, "options", "listener")
  /\ EnableRead(t, "listen")
  /\ UNCHANGED <<local, fd, owner, terminated>>

Bind(t) ==
  /\ Goes(t, "listener", "bound")
  /\ IsInLoopThread(t, t)
  /\ UNCHANGED <<local, fd, channels, interest, owner, terminated>>

Listen(t) ==
  /\ Goes(t, "bound", "listening")
  /\ IsInLoopThread(t, t)
  /\ UNCHANGED <<local, fd, channels, interest, owner, terminated>>

(* The address is in use, or not to be had.                                *)
BindOrListenFails(t) ==
  /\ at[t] \in {"listener", "bound"}
  /\ Terminate

Loop(t) ==
  /\ Goes(t, "listening", "looping")
  /\ IsInLoopThread(t, t)
  /\ UNCHANGED <<local, fd, channels, interest, owner, terminated>>

-----------------------------------------------------------------------------
(* The destructors.  Neither the socket nor the poller closes anything.    *)

CloseReserve(t) ==
  /\ HasListener(t)
  /\ at' = [at EXCEPT ![t] = "closedReserve"]
  /\ Close(fd[t]["idle"])
  /\ UNCHANGED <<local, fd, channels, terminated>>

(* Variant: the destructor of a channel disables it and leaves it there.   *)
DestroyChannelDisabled(t, role) ==
  LET f == fd[t][role]
  IN /\ IsInLoopThread(t, t)
     /\ channels' = [channels EXCEPT ![t] = @ \union {f}]
     /\ interest' = [interest EXCEPT ![t] = IF f \in channels[t] THEN @ ELSE @ \union {f}]

(* disableAll, which epoll refuses when f is not there, and remove.        *)
DestroyChannel(t, role) ==
  LET f == fd[t][role]
  IN /\ IsInLoopThread(t, t)
     /\ channels' = [channels EXCEPT ![t] = @ \ {f}]
     /\ interest' = [interest EXCEPT ![t] = @ \ {f}]

DestroyListener(t) ==
  /\ Goes(t, "closedReserve", "loop")
  /\ DestroyChannel(t, "listen")
  /\ Forget(t, {"listen", "idle"})
  /\ UNCHANGED <<local, owner, terminated>>

(* Variant: the descriptor of the wake-up stays open.                      *)
CloseEventNot(t) ==
  /\ Goes(t, "loop", "closedEvent")
  /\ UNCHANGED <<local, fd, channels, interest, owner, terminated>>

(* WakeUp closes its descriptor first and destroys its channel then.       *)
CloseEvent(t) ==
  /\ Goes(t, "loop", "closedEvent")
  /\ Close(fd[t]["event"])
  /\ UNCHANGED <<local, fd, channels, terminated>>

(* local_thread_id_ stays.                                                 *)
DestroyLoop(t) ==
  /\ Goes(t, "closedEvent", "out")
  /\ DestroyChannel(t, "event")
  /\ Forget(t, {"epoll", "event"})
  /\ UNCHANGED <<local, owner, terminated>>

-----------------------------------------------------------------------------
(* The rest of the process opens descriptors and closes its own.           *)
Other ==
  /\ \E f \in Fd :
       \/ IsLowest(f) /\ owner' = [owner EXCEPT ![f] = Others]
       \/ owner[f] = Others /\ owner' = [owner EXCEPT ![f] = Free]
  /\ UNCHANGED <<at, local, fd, channels, interest, terminated>>

Construct(t) ==
  \/ CreateEpoll(t) \/ ClaimThread(t) \/ ClaimFails(t)
  \/ CreateEvent(t) \/ EnableWake(t) \/ WakeFails(t)
  \/ CreateSocket(t) \/ OpenReserve(t) \/ SetReuse(t) \/ SetReuseFails(t)
  \/ EnableListen(t) \/ Bind(t) \/ Listen(t) \/ BindOrListenFails(t) \/ Loop(t)

Destruct(t) ==
  CloseReserve(t) \/ DestroyListener(t) \/ CloseEvent(t) \/ DestroyLoop(t)

Next ==
  /\ ~terminated
  /\ Other \/ \E t \in Thread : Construct(t) \/ Destruct(t)

Spec == Init /\ [][Next]_vars

-----------------------------------------------------------------------------
Places ==
  {"out", "epoller", "claimed", "wakeup", "loop", "socket", "reserve", "options",
   "listener", "bound", "listening", "looping", "closedReserve", "closedEvent"}

TypeOK ==
  /\ at \in [Thread -> Places]
  /\ local \in [Thread -> Thread \union {NoThread}]
  /\ fd \in [Thread -> [Role -> Fd \union {NoFd}]]
  /\ channels \in [Thread -> SUBSET Fd]
  /\ interest \in [Thread -> SUBSET Fd]
  /\ owner \in [Fd -> (Role \X Thread) \union {Free, Others}]
  /\ terminated \in BOOLEAN

(* A thread makes one loop in its life.  No object closes an epoll         *)
(* instance, so one that an earlier loop of the thread had would still be  *)
(* there: a second loop never gets past the start of its constructor,      *)
(* though the first is destroyed, and what the thread leaves behind is one *)
(* instance and not one for each time.                                     *)
OneLoopPerThread ==
  \A t \in Thread : HasPoller(t) /\ at[t] # "epoller" =>
    {f \in Fd : owner[f] = <<"epoll", t>>} = {fd[t]["epoll"]}

(* Whatever epoll reports leads to a channel that exists, also when a      *)
(* descriptor was closed before its channel went and another thread has    *)
(* got the number since.                                                   *)
ReportsLeadToChannels ==
  \A t \in Thread : \A f \in interest[t] :
    \E role \in Role :
      f = fd[t][role] /\ HasChannel(t, role) /\ owner[f] = <<role, t>>

(* Objects that are made have their descriptors, however full the table    *)
(* was, only the reserve may be missing; and the number of each is still   *)
(* its own, whatever other threads closed and opened: no destructor closes *)
(* what is theirs.                                                         *)
HoldsItsOwn ==
  \A t \in Thread, role \in Role : Holds(t, role) =>
    \/ fd[t][role] \in Fd /\ owner[fd[t][role]] = <<role, t>>
    \/ fd[t][role] = NoFd /\ MayLack(t, role)

(* Event descriptors and reserves are never forgotten.  Epoll instances    *)
(* and sockets are: nobody closes them.                                    *)
NoDescriptorLeak ==
  \A f \in Fd, t \in Thread, role \in {"event", "idle"} :
    owner[f] = <<role, t>> => Holds(t, role) /\ fd[t][role] = f

=============================================================================
