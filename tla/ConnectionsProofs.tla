-------------------------- MODULE ConnectionsProofs --------------------------
(***************************************************************************)
(* Proofs about Connections, for any number of connections, channels and   *)
(* descriptors.                                                            *)
(***************************************************************************)
EXTENDS Connections, TLAPS

Registration == [ptr : Object \union {NoObject}, event : SUBSET {"IN"}]

Types ==
  /\ open \subseteq Fd /\ outlived \subseteq Fd
  /\ alive \subseteq Object /\ owns \subseteq Object /\ refused \subseteq Channel
  /\ fd \in [Object -> Fd \union {NoFd}]
  /\ channels \in [Fd -> Object \union {NoObject}]
  /\ interest \in [Fd -> Registration]

(* Who owns a descriptor has one that is open, and has it alone; and a     *)
(* channel that lives owns its own.                                        *)
Owned ==
  /\ \A x \in alive \union owns : fd[x] \in Fd
  /\ \A x \in owns : fd[x] \in open
  /\ \A x, y \in owns : fd[x] = fd[y] => x = y
  /\ \A x \in Channel \intersect alive : x \in owns

(* channels_ only has channels that live, under the number that they own;  *)
(* and what epoll has is there as well.                                    *)
Entered(f) ==
  /\ channels[f] # NoObject =>
       channels[f] \in Channel \intersect alive /\ fd[channels[f]] = f
  /\ interest[f] # NotAdded => channels[f] # NoObject /\ interest[f].ptr = channels[f]

ConnectionsInv ==
  /\ Types /\ Owned
  /\ \A f \in Fd : Entered(f)
  /\ HeardUnlessOutlived

-----------------------------------------------------------------------------
LEMMA InvInit == Init => ConnectionsInv
<1> SUFFICES ASSUME Init PROVE ConnectionsInv
  OBVIOUS
<1> USE ConnectionsAssumption DEF Init
<1>1. Types
  BY DEF Types, Registration, NotAdded
<1>2. Owned /\ HeardUnlessOutlived
  BY DEF Owned, HeardUnlessOutlived
<1>3. \A f \in Fd : Entered(f)
  BY DEF Entered
<1> QED
  BY <1>1, <1>2, <1>3 DEF ConnectionsInv

(* A number that the kernel gives away has no owner, no channel and no     *)
(* registration left.                                                      *)
LEMMA FreeNumber ==
  ASSUME ConnectionsInv, NEW f \in Fd \ open
  PROVE  /\ \A x \in owns : fd[x] # f
         /\ channels[f] = NoObject /\ interest[f] = NotAdded
<1>1. \A x \in owns : fd[x] # f
  BY DEF ConnectionsInv, Owned
<1> QED
  BY <1>1 DEF ConnectionsInv, Owned, Entered

LEMMA OpensGives ==
  ASSUME ConnectionsInv, NEW x \in Object, Opens(x)
  PROVE  /\ x \notin alive \union owns
         /\ alive' = alive \union {x} /\ owns' = owns \union {x}
         /\ fd'[x] \in Fd \ open /\ open' = open \union {fd'[x]}
         /\ \A y \in Object : y # x => fd'[y] = fd[y]
         /\ \A y \in owns : fd'[y] # fd'[x]
         /\ fd' \in [Object -> Fd \union {NoFd}]
         /\ Owned'
<1>1. PICK f \in Fd \ open : open' = open \union {f} /\ fd' = [fd EXCEPT ![x] = f]
  BY DEF Opens
<1>2. /\ x \notin alive \union owns
      /\ alive' = alive \union {x} /\ owns' = owns \union {x}
  BY DEF Opens
<1>3. fd'[x] = f /\ \A y \in Object : y # x => fd'[y] = fd[y]
  BY <1>1 DEF ConnectionsInv, Types
<1>4. fd' \in [Object -> Fd \union {NoFd}]
  BY <1>1 DEF ConnectionsInv, Types
<1>5. \A y \in owns : y \in Object /\ y # x /\ fd[y] \in open /\ fd[y] # f
  BY <1>1, <1>2 DEF ConnectionsInv, Types, Owned
<1>6. \A y \in owns : fd'[y] = fd[y] /\ fd'[y] # f
  BY <1>3, <1>5
<1>7. Owned'
  <2>1. \A y \in alive' \union owns' : fd'[y] \in Fd
    BY <1>1, <1>2, <1>3 DEF ConnectionsInv, Types, Owned
  <2>2. \A y \in owns' : fd'[y] \in open'
    BY <1>1, <1>2, <1>3, <1>5, <1>6
  <2>3. \A y, z \in owns' : fd'[y] = fd'[z] => y = z
    BY <1>2, <1>3, <1>6 DEF ConnectionsInv, Owned
  <2>4. \A y \in Channel \intersect alive' : y \in owns'
    BY <1>2 DEF ConnectionsInv, Owned
  <2> QED
    BY <2>1, <2>2, <2>3, <2>4 DEF Owned
<1> QED
  BY <1>1, <1>2, <1>3, <1>4, <1>6, <1>7

-----------------------------------------------------------------------------
LEMMA ConnectStep ==
  ASSUME ConnectionsInv, NEW c \in Connection, Connect(c)
  PROVE  ConnectionsInv'
<1> USE ConnectionsAssumption DEF ConnectionsInv
<1>1. c \in Object /\ c \notin Channel
  BY DEF Object
<1>2. Opens(c) /\ UNCHANGED <<channels, interest, refused, outlived>>
  BY DEF Connect
<1>3. /\ c \notin alive \union owns
      /\ alive' = alive \union {c} /\ owns' = owns \union {c}
      /\ fd'[c] \in Fd /\ open' = open \union {fd'[c]}
      /\ \A y \in Object : y # c => fd'[y] = fd[y]
      /\ fd' \in [Object -> Fd \union {NoFd}]
      /\ Owned'
  BY <1>1, <1>2, OpensGives
<1>4. Types'
  BY <1>1, <1>2, <1>3 DEF Types
<1>5. \A f \in Fd : Entered(f)'
  BY <1>1, <1>2, <1>3 DEF Types, Entered, Object
<1>6. HeardUnlessOutlived'
  BY <1>1, <1>2, <1>3 DEF Types, HeardUnlessOutlived, Object
<1> QED
  BY <1>3, <1>4, <1>5, <1>6

LEMMA ListenStep ==
  ASSUME ConnectionsInv, NEW x \in Channel, Listen(x)
  PROVE  ConnectionsInv'
<1> USE ConnectionsAssumption DEF ConnectionsInv
<1>1. x \in Object /\ x # NoObject
  BY DEF Object
<1>2. PICK f : /\ f = fd'[x] /\ outlived' = outlived \ {f}
               /\ Opens(x) /\ Update(x, f, {"IN"})
  BY DEF Listen
<1>3. /\ x \notin alive \union owns
      /\ alive' = alive \union {x} /\ owns' = owns \union {x}
      /\ f \in Fd \ open /\ open' = open \union {f}
      /\ \A y \in Object : y # x => fd'[y] = fd[y]
      /\ \A y \in owns : fd'[y] # f
      /\ fd' \in [Object -> Fd \union {NoFd}]
      /\ Owned'
  BY <1>1, <1>2, OpensGives
<1>4. channels[f] = NoObject /\ interest[f] = NotAdded
  BY <1>3, FreeNumber
<1>5. /\ channels' = [channels EXCEPT ![f] = x]
      /\ \/ /\ interest' = [interest EXCEPT ![f] = [ptr |-> x, event |-> {"IN"}]]
            /\ refused' = refused
         \/ interest' = interest /\ refused' = refused \union {x}
  <2>1. f \in open' /\ (channels[f] = NoObject <=> interest[f] = NotAdded)
    BY <1>3, <1>4
  <2>2. channels' = [channels EXCEPT ![f] = x]
    BY <1>2, <1>4, Zenon DEF Update
  <2>3. PICK room \in BOOLEAN :
          /\ interest' = IF room THEN [interest EXCEPT ![f] = [ptr |-> x, event |-> {"IN"}]]
                         ELSE interest
          /\ refused' = IF ~room THEN refused \union {x} ELSE refused
    <3>1. Update(x, f, {"IN"})
      BY <1>2
    <3> QED
      BY <2>1, <3>1 DEF Update
  <2> QED
    BY <2>2, <2>3
<1>6. Types'
  <2>1. [ptr |-> x, event |-> {"IN"}] \in Registration
    BY <1>1 DEF Registration
  <2>2. channels' \in [Fd -> Object \union {NoObject}] /\ interest' \in [Fd -> Registration]
    BY <1>1, <1>3, <1>5, <2>1 DEF Types
  <2>3. open' \subseteq Fd /\ outlived' \subseteq Fd /\ refused' \subseteq Channel
    BY <1>2, <1>3, <1>5 DEF Types
  <2> QED
    BY <1>1, <1>3, <2>2, <2>3 DEF Types
<1>7. ASSUME NEW g \in Fd PROVE Entered(g)'
  <2>1. CASE g = f
    <3>1. channels'[f] = x /\ (interest'[f] # NotAdded => interest'[f].ptr = x)
      BY <1>3, <1>4, <1>5 DEF Types
    <3> QED
      BY <1>1, <1>2, <1>3, <2>1, <3>1 DEF Entered
  <2>2. CASE g # f
    <3>1. channels'[g] = channels[g] /\ interest'[g] = interest[g]
      BY <1>3, <1>5, <2>2 DEF Types
    <3>2. ASSUME channels[g] # NoObject
          PROVE  channels[g] \in Channel \intersect alive' /\ fd'[channels[g]] = g
      <4>1. channels[g] \in Channel /\ channels[g] \in alive /\ fd[channels[g]] = g
        BY <3>2 DEF Entered
      <4>2. channels[g] \in Object /\ channels[g] # x
        BY <1>3, <4>1 DEF Object
      <4> QED
        BY <1>3, <4>1, <4>2
    <3>3. interest[g] # NotAdded => channels[g] # NoObject /\ interest[g].ptr = channels[g]
      BY DEF Entered
    <3> QED
      BY <3>1, <3>2, <3>3 DEF Entered
  <2> QED
    BY <2>1, <2>2
<1>8. HeardUnlessOutlived'
  <2> SUFFICES ASSUME NEW y \in Channel \intersect alive', fd'[y] \notin outlived'
               PROVE  /\ channels'[fd'[y]] = y
                      /\ y \notin refused' => interest'[fd'[y]] = [ptr |-> y, event |-> {"IN"}]
    BY DEF HeardUnlessOutlived
  <2>1. CASE y = x
    BY <1>2, <1>3, <1>5, <2>1 DEF Types
  <2>2. CASE y # x
    <3>1. y \in alive /\ y \in owns /\ y \in Object
      BY <1>3, <2>2 DEF Owned, Object
    <3>2. fd'[y] = fd[y] /\ fd[y] # f /\ fd[y] \in Fd
      BY <1>3, <2>2, <3>1 DEF Owned
    <3>3. fd[y] \notin outlived /\ (y \notin refused' => y \notin refused)
      BY <1>2, <1>5, <3>2
    <3> QED
      BY <1>5, <3>1, <3>2, <3>3 DEF HeardUnlessOutlived, Types
  <2> QED
    BY <2>1, <2>2
<1> QED
  BY <1>3, <1>6, <1>7, <1>8

LEMMA CloseStep ==
  ASSUME ConnectionsInv, NEW x \in Object, CloseDescriptor(x)
  PROVE  ConnectionsInv'
<1> USE ConnectionsAssumption DEF ConnectionsInv
<1>1. /\ x \in owns /\ (x \in Channel => x \notin alive)
      /\ owns' = owns \ {x}
      /\ open' = open \ {fd[x]}
      /\ interest' = [interest EXCEPT ![fd[x]] = NotAdded]
      /\ UNCHANGED <<alive, fd, channels, refused, outlived>>
  BY DEF CloseDescriptor
<1>2. fd[x] \in Fd /\ \A y \in owns' : y \in owns /\ fd[y] \in Fd /\ fd[y] # fd[x]
  BY <1>1 DEF Owned
<1>3. \A y \in owns' : interest'[fd[y]] = interest[fd[y]]
  BY <1>1, <1>2 DEF Types
<1>4. Types'
  BY <1>1, <1>2 DEF Types, Registration, NotAdded
<1>5. Owned'
  BY <1>1, <1>2 DEF Owned
<1>6. ASSUME NEW f \in Fd PROVE Entered(f)'
  <2>1. /\ channels'[f] = channels[f]
        /\ interest'[f] = interest[f] \/ interest'[f] = NotAdded
    BY <1>1 DEF Types
  <2>2. Entered(f)
    OBVIOUS
  <2> QED
    BY <1>1, <2>1, <2>2 DEF Entered
<1>7. HeardUnlessOutlived'
  <2>1. \A y \in Channel \intersect alive : y \in owns'
    BY <1>1 DEF Owned
  <2> QED
    BY <1>1, <1>3, <2>1 DEF HeardUnlessOutlived
<1> QED
  BY <1>4, <1>5, <1>6, <1>7

LEMMA DestroyStep ==
  ASSUME ConnectionsInv, NEW x \in Object, Destroy(x)
  PROVE  ConnectionsInv'
<1> USE ConnectionsAssumption DEF ConnectionsInv
<1>1. /\ x \in alive /\ alive' = alive \ {x}
      /\ channels' = [channels EXCEPT ![fd[x]] = NoObject]
      /\ interest' = [interest EXCEPT ![fd[x]] = NotAdded]
      /\ outlived' = IF x \in Connection /\ x \notin owns THEN outlived \union {fd[x]}
                     ELSE outlived
      /\ refused' = refused \ {x} /\ UNCHANGED <<open, fd, owns>>
  BY DEF Destroy, RemoveChannel
<1>2. fd[x] \in Fd
  BY <1>1 DEF Owned
<1>3. Types'
  BY <1>1, <1>2 DEF Types, Registration, NotAdded
<1>4. Owned'
  BY <1>1 DEF Owned
<1>5. ASSUME NEW f \in Fd PROVE Entered(f)'
  <2>1. CASE f = fd[x]
    <3>1. channels'[f] = NoObject /\ interest'[f] = NotAdded
      BY <1>1, <2>1 DEF Types
    <3> QED
      BY <3>1 DEF Entered
  <2>2. CASE f # fd[x]
    <3>1. channels'[f] = channels[f] /\ interest'[f] = interest[f]
      BY <1>1, <2>2 DEF Types
    <3>2. Entered(f)
      OBVIOUS
    <3>3. channels[f] # NoObject => channels[f] # x
      BY <2>2, <3>2 DEF Entered
    <3> QED
      BY <1>1, <3>1, <3>2, <3>3 DEF Entered
  <2> QED
    BY <2>1, <2>2
<1>6. HeardUnlessOutlived'
  <2> SUFFICES ASSUME NEW y \in Channel \intersect alive', fd[y] \notin outlived'
               PROVE  /\ channels'[fd[y]] = y
                      /\ y \notin refused' => interest'[fd[y]] = [ptr |-> y, event |-> {"IN"}]
    BY <1>1 DEF HeardUnlessOutlived
  <2>1. y # x /\ y \in alive /\ y \in owns /\ fd[y] \notin outlived /\ fd[y] \in Fd
    BY <1>1 DEF Owned
  <2>2. fd[y] # fd[x]
    <3>1. CASE x \in owns
      BY <2>1, <3>1 DEF Owned
    <3>2. CASE x \notin owns
      <4>1. x \in Connection
        BY <1>1, <3>2 DEF Owned, Object
      <4> QED
        BY <1>1, <3>2, <4>1
    <3> QED
      BY <3>1, <3>2
  <2> QED
    BY <1>1, <2>1, <2>2 DEF HeardUnlessOutlived, Types
<1> QED
  BY <1>3, <1>4, <1>5, <1>6

LEMMA InvNext == ConnectionsInv /\ [Next]_vars => ConnectionsInv'
<1> SUFFICES ASSUME ConnectionsInv, [Next]_vars PROVE ConnectionsInv'
  OBVIOUS
<1>1. CASE Next
  BY <1>1, ConnectStep, ListenStep, CloseStep, DestroyStep DEF Next
<1>2. CASE UNCHANGED vars
  BY <1>2 DEF vars, ConnectionsInv, Types, Owned, Entered, HeardUnlessOutlived
<1> QED
  BY <1>1, <1>2

LEMMA InvHolds == Spec => []ConnectionsInv
BY InvInit, InvNext, PTL DEF Spec

-----------------------------------------------------------------------------
(* The types of all variables; a living object has had a descriptor, and   *)
(* who owns one has one that is open.                                      *)
THEOREM TypeCorrect == Spec => []TypeOK
<1>1. ConnectionsInv => TypeOK
  BY DEF ConnectionsInv, Types, Owned, TypeOK, Registration
<1> QED
  BY <1>1, InvHolds, PTL

(* Epoll never leads to a channel that is gone, or that has lost its       *)
(* descriptor, though removeChannel takes whatever has the number.         *)
THEOREM PointersLeadHolds == Spec => []PointersLead
<1>1. ConnectionsInv => PointersLead
  BY DEF ConnectionsInv, Owned, Entered, PointersLead
<1> QED
  BY <1>1, InvHolds, PTL

(* Only a connection that outlives its descriptor can take another's       *)
(* channel from epoll.                                                     *)
THEOREM HeardUnlessOutlivedHolds == Spec => []HeardUnlessOutlived
<1>1. ConnectionsInv => HeardUnlessOutlived
  BY DEF ConnectionsInv
<1> QED
  BY <1>1, InvHolds, PTL

=============================================================================
