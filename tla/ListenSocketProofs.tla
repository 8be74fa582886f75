------------------------- MODULE ListenSocketProofs -------------------------
(***************************************************************************)
(* Proofs about ListenSocket, for any table of descriptors and any number  *)
(* of clients.                                                             *)
(***************************************************************************)
EXTENDS ListenSocket, TLAPS

(* While accept holds its reserve, idlefd_ names a descriptor of its own.  *)
ReserveHeld ==
  acceptAt \in {"out", "dispatch", "closeReserve", "closeAccepted"}
    => (idlefd # NoFd => owner[idlefd] = "idle")

(* Once accept has closed it, no descriptor of its own is left.            *)
ReserveGiven ==
  acceptAt \in {"acceptReserve", "openReserve", "destroyed"}
    => \A f \in Fd : owner[f] # "idle"

AcceptedHeld == acceptAt = "dispatch" => owner[ret] = "conn"

SocketInv == TypeOK /\ NoReserveLeak /\ ReserveHeld /\ ReserveGiven /\ AcceptedHeld

LEMMA SocketInit == Init => SocketInv
BY ListenSocketAssumption
DEF Init, SocketInv, TypeOK, Owners, NoReserveLeak, ReserveHeld, ReserveGiven, AcceptedHeld

LEMMA SocketNext == SocketInv /\ [Next]_vars => SocketInv'
<1> SUFFICES ASSUME SocketInv, [Next]_vars PROVE SocketInv'
  OBVIOUS
<1> USE ListenSocketAssumption
    DEF SocketInv, TypeOK, Owners, NoReserveLeak, ReserveHeld, ReserveGiven, AcceptedHeld
<1>1. CASE Accept4
  BY <1>1 DEF Accept4, IsLowest, Full, Opened
<1>2. CASE AcceptFails
  BY <1>2 DEF AcceptFails
<1>3. CASE Dispatch
  BY <1>3 DEF Dispatch, Closed
<1>4. CASE CloseReserve
  BY <1>4 DEF CloseReserve, Closed
<1>5. CASE AcceptReserve
  BY <1>5 DEF AcceptReserve, IsLowest, Full, Opened
<1>6. CASE CloseAccepted
  BY <1>6 DEF CloseAccepted, Closed
<1>7. CASE OpenReserve
  BY <1>7 DEF OpenReserve, IsLowest, Full, Opened
<1>8. CASE SetNewConnectionCallback
  BY <1>8 DEF SetNewConnectionCallback
<1>9. CASE Destroy
  BY <1>9 DEF Destroy, Closed
<1>10. CASE OtherOpens
  BY <1>10 DEF OtherOpens, OthersRun, IsLowest, Opened
<1>11. CASE OtherCloses
  BY <1>11 DEF OtherCloses, OthersRun, Closed
<1>12. CASE ClientConnects
  BY <1>12 DEF ClientConnects
<1>13. CASE UNCHANGED vars
  BY <1>13 DEF vars
<1> QED
  BY <1>1, <1>2, <1>3, <1>4, <1>5, <1>6, <1>7, <1>8, <1>9, <1>10, <1>11, <1>12, <1>13
  DEF Next, AcceptStep

(* SocketInv is inductive.                                                 *)
THEOREM SocketInvariant == SafeSpec => []SocketInv
BY SocketInit, SocketNext, PTL DEF SafeSpec

(* The descriptors, the counters and the place in accept have their types. *)
THEOREM SocketTypeCorrect == SafeSpec => []TypeOK
<1>1. SocketInv => TypeOK
  BY DEF SocketInv
<1> QED
  BY <1>1, SocketInvariant, PTL

(* accept and the destructor never close a number that another thread has  *)
(* been given, whatever the other threads do between the calls.            *)
THEOREM ClosesOnlyItsOwnHolds == SafeSpec => []ClosesOnlyItsOwn
<1>1. SocketInv => ClosesOnlyItsOwn
  BY DEF SocketInv, ReserveHeld, ClosesOnlyItsOwn
<1> QED
  BY <1>1, SocketInvariant, PTL

(* No descriptor that accept opened for its reserve is forgotten.          *)
THEOREM NoReserveLeakHolds == SafeSpec => []NoReserveLeak
<1>1. SocketInv => NoReserveLeak
  BY DEF SocketInv
<1> QED
  BY <1>1, SocketInvariant, PTL

-----------------------------------------------------------------------------
(* Without other threads there is room for the reserve when accept opens   *)
(* it again: what it has closed is still free.                             *)
RoomForReserve ==
  /\ ~threads
  /\ acceptAt \in {"out", "dispatch", "closeReserve"} => HasReserve
  /\ acceptAt \in {"acceptReserve", "openReserve"} => ~Full
  /\ acceptAt = "closeAccepted" => HasReserve \/ ~Full

LEMMA RoomNext == SocketInv /\ RoomForReserve /\ [Next]_vars => RoomForReserve'
<1> SUFFICES ASSUME SocketInv, RoomForReserve, [Next]_vars
             PROVE  RoomForReserve'
  OBVIOUS
<1> USE ListenSocketAssumption DEF RoomForReserve, HasReserve
<1>0. TypeOK /\ AcceptedHeld
  BY DEF SocketInv
<1>1. CASE Accept4
  BY <1>0, <1>1 DEF Accept4, IsLowest, Full, Opened, TypeOK
<1>2. CASE AcceptFails
  BY <1>2 DEF AcceptFails
<1>3. CASE Dispatch
  BY <1>0, <1>3 DEF Dispatch, Closed, TypeOK, AcceptedHeld
<1>4. CASE CloseReserve
  BY <1>0, <1>4 DEF CloseReserve, Closed, Full, TypeOK
<1>5. CASE AcceptReserve
  BY <1>0, <1>5 DEF AcceptReserve, IsLowest, Full, Opened, TypeOK
<1>6. CASE CloseAccepted
  BY <1>0, <1>6 DEF CloseAccepted, Closed, Full, TypeOK
<1>7. CASE OpenReserve
  BY <1>0, <1>7 DEF OpenReserve, IsLowest, Full, Opened, TypeOK
<1>8. CASE SetNewConnectionCallback
  BY <1>8 DEF SetNewConnectionCallback
<1>9. CASE Destroy
  BY <1>9 DEF Destroy
<1>10. CASE OtherOpens
  BY <1>0, <1>10 DEF OtherOpens, OthersRun, IsLowest, Opened, TypeOK
<1>11. CASE OtherCloses
  BY <1>0, <1>11 DEF OtherCloses, OthersRun, Closed, TypeOK
<1>12. CASE ClientConnects
  BY <1>12 DEF ClientConnects, Full
<1>13. CASE UNCHANGED vars
  BY <1>13 DEF vars, Full
<1> QED
  BY <1>1, <1>2, <1>3, <1>4, <1>5, <1>6, <1>7, <1>8, <1>9, <1>10, <1>11, <1>12, <1>13
  DEF Next, AcceptStep

(* A socket that once has its reserve has it again whenever accept has     *)
(* run, if no other thread uses the table during accept.                   *)
THEOREM ReserveKeptHolds == SafeSpec => ReserveKept
<1>1. ~threads /\ acceptAt = "out" /\ HasReserve => RoomForReserve
  BY DEF RoomForReserve
<1>2. RoomForReserve => (acceptAt = "out" => HasReserve)
  BY DEF RoomForReserve
<1> QED
  BY <1>1, <1>2, RoomNext, SocketInvariant, PTL DEF SafeSpec, ReserveKept

=============================================================================
