----------------------------- MODULE Connections -----------------------------
(***************************************************************************)
(* TcpConnections and other channels of one loop, and the numbers of their *)
(* descriptors.  A connection has a socket and a channel for a descriptor  *)
(* that somebody else has opened; nothing that is defined enables its      *)
(* channel, and nothing closes its descriptor.  Who made it has to, before *)
(* or after the connection is destroyed, and the kernel gives the number   *)
(* to the next that asks.  The poller knows channels by that number.       *)
(***************************************************************************)
EXTENDS Naturals

CONSTANTS
  Connection,  \* TcpConnections there may be
  Channel,     \* other channels, which are enabled: those of listeners
  NoObject,
  Fd,          \* the descriptors the process may have
  NoFd

Object == Connection \union Channel

ASSUME ConnectionsAssumption ==
  /\ Connection \intersect Channel = {} /\ NoObject \notin Object
  /\ Fd \subseteq Nat /\ NoFd \notin Fd

NotAdded == [ptr |-> NoObject, event |-> {}]

VARIABLES
  open,       \* the descriptors that are open
  alive,      \* the objects that exist
  fd,         \* handler_ and fd_ of each object, the last one it had
  owns,       \* the objects whose descriptor has still to be closed
  channels,   \* channels_: the channel for a descriptor
  interest,   \* what the kernel has for a descriptor: pointer and events
  refused,    \* channels that the kernel had no room for
  outlived    \* numbers that a connection was destroyed for too late

vars == <<open, alive, fd, owns, channels, interest, refused, outlived>>

Init ==
  /\ open = {} /\ alive = {} /\ owns = {} /\ refused = {} /\ outlived = {}
  /\ fd = [x \in Object |-> NoFd]
  /\ channels = [f \in Fd |-> NoObject]
  /\ interest = [f \in Fd |-> NotAdded]

-----------------------------------------------------------------------------
(* An object gets the lowest number that is free.                          *)
Opens(x) ==
  /\ x \notin alive \union owns
  /\ alive' = alive \union {x}
  /\ owns' = owns \union {x}
  /\ \E f \in Fd \ open :
       /\ \A g \in Fd \ open : f <= g
       /\ open' = open \union {f}
       /\ fd' = [fd EXCEPT ![x] = f]

(* The callback of the listener, or code that has a descriptor from        *)
(* elsewhere, makes a connection.                                          *)
Connect(c) ==
  /\ Opens(c)
  /\ UNCHANGED <<channels, interest, refused, outlived>>

(* Epoller::update: epoll_ctl fails when the number is not open, has been  *)
(* added or has not, or when the kernel has no room; and nobody minds.     *)
Update(x, f, e) ==
  LET fits == f \in open' /\ (channels[f] = NoObject <=> interest[f] = NotAdded)
  IN /\ channels' = [channels EXCEPT ![f] = IF @ = NoObject THEN x ELSE @]
     /\ \E room \in BOOLEAN :
          /\ interest' = IF fits /\ room THEN [interest EXCEPT ![f] = [ptr |-> x, event |-> e]]
                         ELSE interest
          /\ refused' = IF fits /\ ~room THEN refused \union {x} ELSE refused

(* Another channel, of a listener: its constructor enables it.             *)
Listen(x) ==
  /\ Opens(x)
  /\ Update(x, fd'[x], {"IN"})
  /\ outlived' = outlived \ {fd'[x]}

(* close takes the descriptor from epoll, and not from channels_.          *)
CloseDescriptor(x) ==
  /\ x \in owns
  /\ x \in Channel => x \notin alive
  /\ owns' = owns \ {x}
  /\ open' = open \ {fd[x]}
  /\ interest' = [interest EXCEPT ![fd[x]] = NotAdded]
  /\ UNCHANGED <<alive, fd, channels, refused, outlived>>

(* Variant: the entry of channels_ stays.                                  *)
RemoveFromEpollOnly(f) ==
  /\ interest' = [interest EXCEPT ![f] = NotAdded]
  /\ UNCHANGED channels

(* Variant: epoll is not told.                                             *)
RemoveFromMapOnly(f) ==
  /\ channels' = [channels EXCEPT ![f] = NoObject]
  /\ UNCHANGED interest

(* ~Channel: disableAll adds the channel, or changes what is there for the *)
(* number, so that removeChannel always finds an entry; it takes that      *)
(* whoever it belongs to.                                                  *)
RemoveChannel(f) ==
  /\ channels' = [channels EXCEPT ![f] = NoObject]
  /\ interest' = [interest EXCEPT ![f] = NotAdded]

(* The memory of the object is free for another.                           *)
Destroy(x) ==
  /\ x \in alive
  /\ alive' = alive \ {x}
  /\ RemoveChannel(fd[x])
  /\ outlived' = IF x \in Connection /\ x \notin owns THEN outlived \union {fd[x]}
                 ELSE outlived
  /\ refused' = refused \ {x}
  /\ UNCHANGED <<open, fd, owns>>

Next ==
  \/ \E c \in Connection : Connect(c)
  \/ \E x \in Channel : Listen(x)
  \/ \E x \in Object : CloseDescriptor(x) \/ Destroy(x)

Spec == Init /\ [][Next]_vars

-----------------------------------------------------------------------------
TypeOK ==
  /\ open \subseteq Fd
  /\ alive \subseteq Object /\ owns \subseteq Object /\ refused \subseteq Channel
  /\ \A x \in alive : fd[x] \in Fd
  /\ \A x \in owns : fd[x] \in open
  /\ fd \in [Object -> Fd \union {NoFd}]
  /\ channels \in [Fd -> Object \union {NoObject}]
  /\ \A f \in Fd : interest[f].ptr \in Object \union {NoObject}

(* What epoll has of a number leads to a channel that exists, whose entry  *)
(* channels_ has, and which still has that descriptor.  It does even when  *)
(* connections outlive their descriptors and share numbers with others.    *)
PointersLead ==
  \A f \in Fd : interest[f] # NotAdded =>
    LET x == interest[f].ptr IN x \in alive \intersect owns /\ fd[x] = f /\ channels[f] = x

(* A channel that was enabled hears of its descriptor for as long as it    *)
(* exists, when the kernel had room for it, unless a connection that had   *)
(* the number before, and outlived its descriptor, was destroyed           *)
(* meanwhile: that takes the channel from epoll and nobody notices.  It is *)
(* for the owner of the descriptor to destroy the connection first.        *)
HeardUnlessOutlived ==
  \A x \in Channel \intersect alive :
    fd[x] \notin outlived =>
      /\ channels[fd[x]] = x
      /\ x \notin refused => interest[fd[x]] = [ptr |-> x, event |-> {"IN"}]

=============================================================================
