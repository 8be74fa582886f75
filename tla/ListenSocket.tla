---------------------------- MODULE ListenSocket ----------------------------
(***************************************************************************)
(* A listening socket that keeps one descriptor in reserve.  When accept4  *)
(* fails because the process has no descriptor left, accept gives up the   *)
(* reserve, takes the waiting connection with it, closes that and opens    *)
(* the reserve again, so that the connection does not stay in the queue    *)
(* and make the poller return at once for ever.                            *)
(*                                                                         *)
(* The table of descriptors belongs to the whole process: each system call *)
(* is a step, and what other threads open and close comes in between.      *)
(***************************************************************************)
EXTENDS Naturals

CONSTANTS
  Fd,          \* the descriptors the process may have, RLIMIT_NOFILE
  NoFd,        \* what a failed call returns instead of one, -1
  MaxBacklog,  \* linq, the connections that may wait
  MaxClients   \* bound: how many clients ever connect

ASSUME ListenSocketAssumption ==
  /\ Fd \subseteq Nat
  /\ NoFd \notin Fd
  /\ MaxBacklog \in Nat
  /\ MaxClients \in Nat

VARIABLES
  owner,     \* who opened each descriptor
  idlefd,    \* idlefd_, the reserve
  callback,  \* whether newConnectioncb_ is set
  acceptAt,  \* which call accept makes next, "out" when it does not run
  ret,       \* what accept4 returned
  backlog,   \* connections that wait to be accepted
  clients,   \* clients that ever connected
  threads    \* whether other threads use the table during accept; never changes

vars == <<owner, idlefd, callback, acceptAt, ret, backlog, clients, threads>>

Owners == {"free", "listen", "idle", "conn", "other"}

-----------------------------------------------------------------------------
(* The kernel hands out the lowest free number.                            *)
IsLowest(f) == owner[f] = "free" /\ \A g \in Fd : owner[g] = "free" => f <= g
Full == \A f \in Fd : owner[f] # "free"

(* A number or NoFd is closed; whoever had opened it loses it.             *)
Closed(fd) == [f \in Fd |-> IF f = fd THEN "free" ELSE owner[f]]
Opened(fd, who) == [owner EXCEPT ![fd] = who]

(* The socket is made, and the reserve if there was a descriptor for it:   *)
(* nobody looks whether there was.                                         *)
Init ==
  /\ owner \in [Fd -> {"free", "listen", "idle", "other"}]
  /\ \E listenfd \in Fd : \A f \in Fd : owner[f] = "listen" <=> f = listenfd
  /\ idlefd \in Fd \union {NoFd}
  /\ \A f \in Fd : owner[f] = "idle" <=> f = idlefd
  /\ callback \in BOOLEAN
  /\ acceptAt = "out"
  /\ ret = NoFd
  /\ backlog = 0
  /\ clients = 0
  /\ threads \in BOOLEAN

-----------------------------------------------------------------------------
(* accept: the poller calls it for as long as a connection waits.          *)

(* Variant: EMFILE is logged like any other error.                         *)
Accept4WithoutReserve ==
  /\ acceptAt = "out" /\ backlog > 0
  /\ \E f \in Fd :
       /\ IsLowest(f)
       /\ owner' = Opened(f, "conn")
       /\ ret' = f
       /\ backlog' = backlog - 1
       /\ acceptAt' = "dispatch"
  /\ UNCHANGED <<idlefd, callback, clients, threads>>

Accept4 ==
  /\ acceptAt = "out" /\ backlog > 0
  /\ \/ \E f \in Fd :
          /\ IsLowest(f)
          /\ owner' = Opened(f, "conn")
          /\ ret' = f
          /\ backlog' = backlog - 1
          /\ acceptAt' = "dispatch"
     \/ /\ Full
        /\ acceptAt' = "closeReserve"
        /\ ret' = NoFd
        /\ UNCHANGED <<owner, backlog>>
  /\ UNCHANGED <<idlefd, callback, clients, threads>>

(* The connection has failed before it is accepted: any other errno.  The  *)
(* kernel looks for a descriptor first.                                    *)
AcceptFails ==
  /\ acceptAt = "out" /\ backlog > 0 /\ ~Full
  /\ backlog' = backlog - 1
  /\ UNCHANGED <<owner, idlefd, callback, acceptAt, ret, clients, threads>>

Dispatch ==
  /\ acceptAt = "dispatch"
  /\ owner' = IF callback THEN owner ELSE Closed(ret)
  /\ acceptAt' = "out"
  /\ ret' = NoFd
  /\ UNCHANGED <<idlefd, callback, backlog, clients, threads>>

CloseReserve ==
  /\ acceptAt = "closeReserve"
  /\ owner' = Closed(idlefd)
  /\ acceptAt' = "acceptReserve"
  /\ UNCHANGED <<idlefd, callback, ret, backlog, clients, threads>>

(* Variant: what accept returns is kept only when it is a descriptor.      *)
AcceptReserveOrKeep ==
  /\ acceptAt = "acceptReserve"
  /\ \/ \E f \in Fd :
          /\ IsLowest(f) /\ backlog > 0
          /\ owner' = Opened(f, "idle")
          /\ idlefd' = f
          /\ backlog' = backlog - 1
     \/ (Full \/ backlog = 0) /\ UNCHANGED <<owner, idlefd, backlog>>
  /\ acceptAt' = "closeAccepted"
  /\ UNCHANGED <<callback, ret, clients, threads>>

AcceptReserve ==
  /\ acceptAt = "acceptReserve"
  /\ \/ \E f \in Fd :
          /\ IsLowest(f) /\ backlog > 0
          /\ owner' = Opened(f, "idle")
          /\ idlefd' = f
          /\ backlog' = backlog - 1
     \/ (Full \/ backlog = 0) /\ idlefd' = NoFd /\ UNCHANGED <<owner, backlog>>
  /\ acceptAt' = "closeAccepted"
  /\ UNCHANGED <<callback, ret, clients, threads>>

(* Variant: the connection is not closed.                                  *)
CloseAcceptedNot ==
  /\ acceptAt = "closeAccepted"
  /\ acceptAt' = "openReserve"
  /\ UNCHANGED <<owner, idlefd, callback, ret, backlog, clients, threads>>

CloseAccepted ==
  /\ acceptAt = "closeAccepted"
  /\ owner' = Closed(idlefd)
  /\ acceptAt' = "openReserve"
  /\ UNCHANGED <<idlefd, callback, ret, backlog, clients, threads>>

(* Variant: the reserve is not opened again.                               *)
OpenReserveNot ==
  /\ acceptAt = "openReserve"
  /\ acceptAt' = "out"
  /\ idlefd' = NoFd
  /\ UNCHANGED <<owner, callback, ret, backlog, clients, threads>>

OpenReserve ==
  /\ acceptAt = "openReserve"
  /\ \/ \E f \in Fd : IsLowest(f) /\ owner' = Opened(f, "idle") /\ idlefd' = f
     \/ Full /\ idlefd' = NoFd /\ UNCHANGED owner
  /\ acceptAt' = "out"
  /\ UNCHANGED <<callback, ret, backlog, clients, threads>>

AcceptStep ==
  \/ Accept4 \/ Dispatch \/ CloseReserve
  \/ AcceptReserve \/ CloseAccepted \/ OpenReserve

SetNewConnectionCallback ==
  /\ acceptAt = "out"
  /\ callback' = TRUE
  /\ UNCHANGED <<owner, idlefd, acceptAt, ret, backlog, clients, threads>>

(* The destructor closes the reserve.  Nobody closes the socket.           *)
Destroy ==
  /\ acceptAt = "out"
  /\ owner' = Closed(idlefd)
  /\ acceptAt' = "destroyed"
  /\ UNCHANGED <<idlefd, callback, ret, backlog, clients, threads>>

-----------------------------------------------------------------------------
(* The rest of the process, and the clients.                               *)

OthersRun == threads \/ acceptAt \in {"out", "destroyed"}

OtherOpens ==
  /\ OthersRun
  /\ \E f \in Fd : IsLowest(f) /\ owner' = Opened(f, "other")
  /\ UNCHANGED <<idlefd, callback, acceptAt, ret, backlog, clients, threads>>

(* The owners of connections close them too, once they have them.          *)
OtherCloses ==
  /\ OthersRun
  /\ \E f \in Fd : owner[f] \in {"conn", "other"} /\ f # ret /\ owner' = Closed(f)
  /\ UNCHANGED <<idlefd, callback, acceptAt, ret, backlog, clients, threads>>

ClientConnects ==
  /\ clients < MaxClients /\ backlog < MaxBacklog
  /\ backlog' = backlog + 1
  /\ clients' = clients + 1
  /\ UNCHANGED <<owner, idlefd, callback, acceptAt, ret, threads>>

Next ==
  \/ AcceptStep \/ AcceptFails \/ SetNewConnectionCallback \/ Destroy
  \/ OtherOpens \/ OtherCloses \/ ClientConnects

(* The loop thread runs, and the poller reports a socket that is readable. *)
(* No connection has to fail.                                              *)
Fairness == WF_vars(AcceptStep)

SafeSpec == Init /\ [][Next]_vars
Spec == SafeSpec /\ Fairness

-----------------------------------------------------------------------------
TypeOK ==
  /\ owner \in [Fd -> Owners]
  /\ idlefd \in Fd \union {NoFd}
  /\ callback \in BOOLEAN
  /\ acceptAt \in {"out", "dispatch", "closeReserve", "acceptReserve",
                   "closeAccepted", "openReserve", "destroyed"}
  /\ ret \in Fd \union {NoFd}
  /\ (ret # NoFd) <=> (acceptAt = "dispatch")
  /\ backlog \in 0 .. MaxBacklog
  /\ clients \in 0 .. MaxClients
  /\ threads \in BOOLEAN

(* idlefd_ is closed in three places, and it never holds a number there    *)
(* that another thread has got from the kernel in the meantime.            *)
ClosesOnlyItsOwn ==
  acceptAt \in {"out", "closeReserve", "closeAccepted"} /\ idlefd # NoFd
    => owner[idlefd] = "idle"

(* Every descriptor that accept opens for its reserve is the one that      *)
(* idlefd_ names: none is ever forgotten.                                  *)
NoReserveLeak == \A f \in Fd : owner[f] = "idle" => f = idlefd

(* A socket that has its reserve has it again whenever accept has run,     *)
(* unless other threads take it away in the middle.                        *)
HasReserve == \E f \in Fd : f = idlefd /\ owner[f] = "idle"
ReserveKept ==
  [](~threads /\ acceptAt = "out" /\ HasReserve => [](acceptAt = "out" => HasReserve))

(* With the reserve, and no other thread, every connection that waits is   *)
(* taken from the queue, also when the process has no descriptor for it.   *)
ConnectionsTaken ==
  ~threads /\ acceptAt = "out" /\ HasReserve ~> backlog = 0 \/ acceptAt = "destroyed"

=============================================================================
