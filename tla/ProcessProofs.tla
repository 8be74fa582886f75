---------------------------- MODULE ProcessProofs ----------------------------
(***************************************************************************)
(* Proofs about what belongs to the process as a whole: the descriptors    *)
(* and loops of its threads (Server), for any number of both, and its      *)
(* default logger (InitLogger), for any callers, sizes and width.          *)
(***************************************************************************)
EXTENDS Server, InitLogger, TLAPS

(* A thread has claimed its loop, and only its own.                        *)
Claimed ==
  \A t \in Thread :
    /\ local[t] \in {NoThread, t}
    /\ HasPoller(t) /\ at[t] # "epoller" => local[t] = t

(* An epoll instance is left behind only by a thread that has claimed its  *)
(* loop, and one that has not, or is past the claim, has its own at most.  *)
EpollsKept ==
  \A t \in Thread, f \in Fd : owner[f] = <<"epoll", t>> =>
    /\ HasPoller(t) \/ local[t] # NoThread
    /\ HasPoller(t) /\ (at[t] = "epoller" => local[t] = NoThread) => f = fd[t]["epoll"]

ServerInv ==
  /\ TypeOK /\ Claimed /\ EpollsKept
  /\ HoldsItsOwn /\ NoDescriptorLeak /\ ReportsLeadToChannels

USE DEF Places

LEMMA ServerInit == Init => ServerInv
<1> SUFFICES ASSUME Init PROVE ServerInv
  OBVIOUS
<1>1. TypeOK /\ Claimed
  BY DEF Init, TypeOK, Claimed, HasPoller
<1>2. HoldsItsOwn
  BY DEF Init, HoldsItsOwn, Holds, IsLoop, HasListener, HasPoller
<1>3. NoDescriptorLeak /\ ReportsLeadToChannels /\ EpollsKept
  BY DEF Init, NoDescriptorLeak, ReportsLeadToChannels, EpollsKept, Free, Role
<1> QED
  BY <1>1, <1>2, <1>3 DEF ServerInv

(* A call that opens a descriptor disturbs none that is open, and what it  *)
(* returns is the thread's own, if it is a descriptor at all.              *)
LEMMA OpenKeeps ==
  ASSUME ServerInv, NEW t \in Thread, NEW role \in Role, Open(t, role)
  PROVE  /\ fd' \in [Thread -> [Role -> Fd \union {NoFd}]]
         /\ owner' \in [Fd -> (Role \X Thread) \union {Free, Others}]
         /\ \A u \in Thread, r \in Role :
              <<u, r>> # <<t, role>> => fd'[u][r] = fd[u][r]
         /\ \/ fd'[t][role] = NoFd
            \/ fd'[t][role] \in Fd /\ owner'[fd'[t][role]] = <<role, t>>
         /\ \A f \in Fd :
              owner'[f] = owner[f] \/ (owner[f] = Free /\ owner'[f] = <<role, t>> /\ fd'[t][role] = f)
<1> TypeOK
  BY DEF ServerInv
<1>1. CASE \E f \in Fd :
             /\ IsLowest(f)
             /\ owner' = [owner EXCEPT ![f] = <<role, t>>]
             /\ fd' = [fd EXCEPT ![t] = [@ EXCEPT ![role] = f]]
  BY <1>1 DEF TypeOK, IsLowest
<1>2. CASE fd' = [fd EXCEPT ![t] = [@ EXCEPT ![role] = NoFd]] /\ UNCHANGED owner
  BY <1>2 DEF TypeOK
<1> QED
  BY <1>1, <1>2 DEF Open

(* Its object holds it from then on, and nothing else changes hands.       *)
LEMMA OpenStep ==
  ASSUME ServerInv, NEW t \in Thread, NEW role \in Role, Open(t, role),
         ~Holds(t, role), Holds(t, role)', MayLack(t, role)',
         \A r \in Role \ {role} :
           (Holds(t, r)' <=> Holds(t, r)) /\ (Holds(t, r) => (MayLack(t, r)' <=> MayLack(t, r))),
         NEW to \in Places, at' = [at EXCEPT ![t] = to]
  PROVE  HoldsItsOwn' /\ NoDescriptorLeak'
<1>a. \A u \in Thread, r \in Role : <<u, r>> # <<t, role>> => fd'[u][r] = fd[u][r]
  BY OpenKeeps
<1>b. \/ fd'[t][role] = NoFd
      \/ fd'[t][role] \in Fd /\ owner'[fd'[t][role]] = <<role, t>>
  BY OpenKeeps
<1>c. \A f \in Fd : \/ owner'[f] = owner[f]
                    \/ owner[f] = Free /\ owner'[f] = <<role, t>> /\ fd'[t][role] = f
  BY OpenKeeps
<1>1. \A u \in Thread \ {t}, r \in Role :
        (Holds(u, r)' <=> Holds(u, r)) /\ (MayLack(u, r)' <=> MayLack(u, r))
  BY DEF ServerInv, TypeOK, Holds, MayLack, IsLoop, HasListener, HasPoller
<1>2. ASSUME NEW u \in Thread, NEW r \in Role, Holds(u, r)', <<u, r>> # <<t, role>>
      PROVE  \/ fd'[u][r] \in Fd /\ owner'[fd'[u][r]] = <<r, u>>
             \/ fd'[u][r] = NoFd /\ MayLack(u, r)'
  <2>1. Holds(u, r) /\ (MayLack(u, r)' <=> MayLack(u, r))
    BY <1>1, <1>2
  <2>2. fd'[u][r] = fd[u][r]
    BY <1>a, <1>2
  <2>3. CASE fd[u][r] = NoFd /\ MayLack(u, r)
    BY <2>1, <2>2, <2>3
  <2>4. CASE fd[u][r] \in Fd /\ owner[fd[u][r]] = <<r, u>>
    BY <1>c, <2>2, <2>4 DEF Free, Role
  <2>5. \/ fd[u][r] \in Fd /\ owner[fd[u][r]] = <<r, u>>
        \/ fd[u][r] = NoFd /\ MayLack(u, r)
    BY <2>1 DEF ServerInv, HoldsItsOwn
  <2> QED
    BY <2>3, <2>4, <2>5
<1>3. HoldsItsOwn'
  <2> SUFFICES ASSUME NEW u \in Thread, NEW r \in Role, Holds(u, r)'
               PROVE  \/ fd'[u][r] \in Fd /\ owner'[fd'[u][r]] = <<r, u>>
                      \/ fd'[u][r] = NoFd /\ MayLack(u, r)'
    BY DEF HoldsItsOwn
  <2>1. CASE u = t /\ r = role
    BY <1>b, <2>1
  <2>2. CASE ~(u = t /\ r = role)
    BY <1>2, <2>2
  <2> QED
    BY <2>1, <2>2
<1>4. ASSUME NEW f \in Fd, NEW u \in Thread, NEW r \in {"event", "idle"}, owner'[f] = <<r, u>>
      PROVE  Holds(u, r)' /\ fd'[u][r] = f
  <2>1. CASE owner'[f] = owner[f]
    <3>1. Holds(u, r) /\ fd[u][r] = f
      BY <1>4, <2>1 DEF ServerInv, NoDescriptorLeak
    <3>2. r \in Role /\ <<u, r>> # <<t, role>>
      BY <3>1 DEF Role
    <3> QED
      BY <1>a, <1>1, <3>1, <3>2
  <2>2. CASE owner'[f] = <<role, t>> /\ fd'[t][role] = f
    <3>1. r = role /\ u = t
      BY <1>4, <2>2
    <3> QED
      BY <2>2, <3>1
  <2> QED
    BY <1>c, <2>1, <2>2
<1>5. NoDescriptorLeak'
  BY <1>4 DEF NoDescriptorLeak
<1> QED
  BY <1>3, <1>5

(* Past the claim no epoll instance changes hands.                         *)
LEMMA EpollsStay ==
  ASSUME ServerInv, NEW t \in Thread, at[t] \notin {"out", "epoller"},
         NEW to \in Places \ {"epoller"}, at' = [at EXCEPT ![t] = to],
         local' = local,
         \A u \in Thread, f \in Fd : owner'[f] = <<"epoll", u>> => owner[f] = <<"epoll", u>>,
         \A u \in Thread : <<u, to>> # <<t, "out">> => fd'[u]["epoll"] = fd[u]["epoll"]
  PROVE  EpollsKept'
<1> SUFFICES ASSUME NEW u \in Thread, NEW f \in Fd, owner'[f] = <<"epoll", u>>
             PROVE  /\ HasPoller(u)' \/ local[u] # NoThread
                    /\ HasPoller(u)' /\ (at'[u] = "epoller" => local[u] = NoThread) =>
                         f = fd'[u]["epoll"]
  BY DEF EpollsKept
<1>1. /\ HasPoller(u) \/ local[u] # NoThread
      /\ HasPoller(u) /\ (at[u] = "epoller" => local[u] = NoThread) => f = fd[u]["epoll"]
  BY DEF ServerInv, EpollsKept
<1>2. CASE u # t
  <2>1. at'[u] = at[u] /\ fd'[u]["epoll"] = fd[u]["epoll"]
    BY <1>2 DEF ServerInv, TypeOK
  <2> QED
    BY <1>1, <2>1 DEF HasPoller
<1>3. CASE u = t
  <2>1. at'[t] = to /\ local[t] = t /\ t # NoThread
    BY ServerAssumption DEF ServerInv, TypeOK, Claimed, HasPoller
  <2> QED
    BY <1>1, <1>3, <2>1 DEF HasPoller
<1> QED
  BY <1>2, <1>3

LEMMA CreateEpollStep ==
  ASSUME ServerInv, NEW t \in Thread, CreateEpoll(t)
  PROVE  ServerInv'
<1>1. "epoll" \in Role /\ Open(t, "epoll")
  BY DEF CreateEpoll, Role
<1>2. TypeOK'
  BY <1>1, OpenKeeps DEF CreateEpoll, Goes, ServerInv, TypeOK
<1>3. Claimed'
  BY DEF CreateEpoll, Goes, ServerInv, TypeOK, Claimed, HasPoller
<1>4. HoldsItsOwn' /\ NoDescriptorLeak'
  BY <1>1, OpenStep DEF CreateEpoll, Goes, ServerInv, TypeOK, Holds, MayLack,
     IsLoop, HasListener, HasPoller
<1>5. ReportsLeadToChannels'
  BY <1>1, OpenKeeps DEF CreateEpoll, Goes, ServerInv, TypeOK, ReportsLeadToChannels, HasChannel,
     IsLoop, HasListener, Free, Role
<1>6. EpollsKept'
  <2> SUFFICES ASSUME NEW u \in Thread, NEW f \in Fd, owner'[f] = <<"epoll", u>>
               PROVE  /\ HasPoller(u)' \/ local[u] # NoThread
                      /\ HasPoller(u)' /\ (at'[u] = "epoller" => local[u] = NoThread) =>
                           f = fd'[u]["epoll"]
    BY DEF CreateEpoll, EpollsKept
  <2>1. CASE u = t
    <3>1. at[t] = "out" /\ at'[t] = "epoller"
      BY DEF CreateEpoll, Goes, ServerInv, TypeOK
    <3>2. owner[f] = <<"epoll", t>> => local[t] # NoThread
      BY <3>1 DEF ServerInv, EpollsKept, HasPoller
    <3>3. owner'[f] = owner[f] \/ fd'[t]["epoll"] = f
      BY <1>1, OpenKeeps
    <3> QED
      BY <2>1, <3>1, <3>2, <3>3 DEF HasPoller
  <2>2. CASE u # t
    <3>1. at'[u] = at[u] /\ fd'[u]["epoll"] = fd[u]["epoll"] /\ owner'[f] = owner[f]
      BY <1>1, <2>2, OpenKeeps DEF CreateEpoll, Goes, ServerInv, TypeOK
    <3> QED
      BY <3>1 DEF ServerInv, EpollsKept, HasPoller
  <2> QED
    BY <2>1, <2>2
<1> QED
  BY <1>2, <1>3, <1>4, <1>5, <1>6 DEF ServerInv

(* The calls after the first: channels and the poller stay what they are.  *)
LEMMA OpenLaterStep ==
  ASSUME ServerInv, NEW t \in Thread, CreateEvent(t) \/ CreateSocket(t) \/ OpenReserve(t)
  PROVE  ServerInv'
<1>1. PICK role \in {"event", "listen", "idle"} :
        /\ Open(t, role)
        /\ role = "event" => Goes(t, "claimed", "wakeup")
        /\ role = "listen" => Goes(t, "loop", "socket")
        /\ role = "idle" => Goes(t, "socket", "reserve")
  BY DEF CreateEvent, CreateSocket, OpenReserve
<1>2. role \in Role /\ UNCHANGED <<local, channels, interest, terminated>>
  BY DEF CreateEvent, CreateSocket, OpenReserve, Role
<1>3. TypeOK'
  BY <1>1, <1>2, OpenKeeps DEF Goes, ServerInv, TypeOK
<1>4. Claimed'
  BY <1>1, <1>2 DEF Goes, ServerInv, TypeOK, Claimed, HasPoller
<1>5. HoldsItsOwn' /\ NoDescriptorLeak'
  <2>1. CASE role = "event"
    BY <1>1, <1>2, <2>1, OpenStep DEF Goes, ServerInv, TypeOK, Holds, MayLack,
       IsLoop, HasListener, HasPoller
  <2>2. CASE role = "listen"
    BY <1>1, <1>2, <2>2, OpenStep DEF Goes, ServerInv, TypeOK, Holds, MayLack,
       IsLoop, HasListener, HasPoller
  <2>3. CASE role = "idle"
    BY <1>1, <1>2, <2>3, OpenStep DEF Goes, ServerInv, TypeOK, Holds, MayLack,
       IsLoop, HasListener, HasPoller
  <2> QED
    BY <1>1, <2>1, <2>2, <2>3
<1>6. ReportsLeadToChannels'
  <2> SUFFICES ASSUME NEW u \in Thread, NEW f \in interest'[u]
               PROVE  \E r \in Role :
                        f = fd'[u][r] /\ HasChannel(u, r)' /\ owner'[f] = <<r, u>>
    BY DEF ReportsLeadToChannels
  <2>1. PICK r \in Role : f = fd[u][r] /\ HasChannel(u, r) /\ owner[f] = <<r, u>>
    BY <1>2 DEF ServerInv, ReportsLeadToChannels
  <2>2. HasChannel(u, r)' /\ <<u, r>> # <<t, role>>
    BY <1>1, <2>1 DEF HasChannel, IsLoop, HasListener, Goes, ServerInv, TypeOK
  <2>3. f \in Fd /\ owner[f] # Free
    BY <1>2, <2>1 DEF ServerInv, TypeOK, Free, Role
  <2>4. fd'[u][r] = fd[u][r]
    BY <1>1, <1>2, <2>2, OpenKeeps
  <2>5. owner'[f] = owner[f]
    BY <1>1, <1>2, <2>3, OpenKeeps
  <2> QED
    BY <2>1, <2>2, <2>4, <2>5
<1>7. EpollsKept'
  <2>1. PICK to \in Places \ {"out", "epoller"} : at' = [at EXCEPT ![t] = to]
    BY <1>1 DEF Goes
  <2>2. at[t] \notin {"out", "epoller"}
    BY <1>1 DEF Goes
  <2>3. \A u \in Thread, f \in Fd : owner'[f] = <<"epoll", u>> => owner[f] = <<"epoll", u>>
    BY <1>1, <1>2, OpenKeeps
  <2>4. \A u \in Thread : fd'[u]["epoll"] = fd[u]["epoll"]
    BY <1>1, <1>2, OpenKeeps DEF Role
  <2> QED
    BY <1>2, <2>1, <2>2, <2>3, <2>4, EpollsStay
<1> QED
  BY <1>3, <1>4, <1>5, <1>6, <1>7 DEF ServerInv

(* Steps that open and close nothing.                                      *)
LEMMA AdvanceStep ==
  ASSUME ServerInv, NEW t \in Thread,
         ClaimThread(t) \/ SetReuse(t) \/ Bind(t) \/ Listen(t) \/ Loop(t)
  PROVE  ServerInv'
<1>1. PICK from \in Places, to \in Places : Goes(t, from, to)
  BY DEF ClaimThread, SetReuse, Bind, Listen, Loop
<1>2. UNCHANGED <<fd, channels, interest, owner, terminated>>
  BY DEF ClaimThread, SetReuse, Bind, Listen, Loop
<1>3. TypeOK' /\ Claimed'
  <2>1. CASE ClaimThread(t)
    BY <2>1 DEF ClaimThread, Goes, ServerInv, TypeOK, Claimed, HasPoller
  <2>2. CASE ~ClaimThread(t)
    <3>1. local' = local
      BY <2>2 DEF SetReuse, Bind, Listen, Loop
    <3>2. from # "out" /\ from # "epoller" /\ at[t] = from
      BY <1>1, <2>2 DEF SetReuse, Bind, Listen, Loop, Goes
    <3> QED
      BY <1>1, <1>2, <3>1, <3>2 DEF Goes, ServerInv, TypeOK, Claimed, HasPoller
  <2> QED
    BY <2>1, <2>2
<1>4. \A u \in Thread, r \in Role :
        /\ Holds(u, r)' <=> Holds(u, r)
        /\ Holds(u, r) /\ MayLack(u, r) /\ fd[u][r] = NoFd => MayLack(u, r)'
        /\ HasChannel(u, r)' <=> HasChannel(u, r)
  BY DEF ClaimThread, SetReuse, Bind, Listen, Loop, Goes, ServerInv, TypeOK, Holds, MayLack,
     HasChannel, IsLoop, HasListener, HasPoller
<1>5. HoldsItsOwn' /\ NoDescriptorLeak' /\ ReportsLeadToChannels'
  BY <1>2, <1>4 DEF ServerInv, HoldsItsOwn, NoDescriptorLeak, ReportsLeadToChannels, Role
<1>6. EpollsKept'
  <2>1. CASE ClaimThread(t)
    BY <2>1, <1>2, ServerAssumption
    DEF ClaimThread, Goes, ServerInv, TypeOK, EpollsKept, HasPoller
  <2>2. CASE ~ClaimThread(t)
    <3>1. local' = local
      BY <2>2 DEF SetReuse, Bind, Listen, Loop
    <3>2. at[t] \notin {"out", "epoller"} /\ to # "epoller"
      BY <1>1, <2>2 DEF SetReuse, Bind, Listen, Loop, Goes, ServerInv, TypeOK
    <3>3. at' = [at EXCEPT ![t] = to]
      BY <1>1 DEF Goes
    <3> QED
      BY <1>2, <3>1, <3>2, <3>3, EpollsStay
  <2> QED
    BY <2>1, <2>2
<1> QED
  BY <1>3, <1>5, <1>6 DEF ServerInv

LEMMA EnableStep ==
  ASSUME ServerInv, NEW t \in Thread, EnableWake(t) \/ EnableListen(t)
  PROVE  ServerInv'
<1>1. PICK role \in {"event", "listen"} :
        /\ EnableRead(t, role)
        /\ role = "event" => Goes(t, "wakeup", "loop") /\ fd[t]["event"] # NoFd
        /\ role = "listen" => Goes(t, "options", "listener")
  BY DEF EnableWake, EnableListen
<1>2. role \in Role /\ UNCHANGED <<local, fd, owner, terminated>>
  BY DEF EnableWake, EnableListen, Role
<1>3. fd[t][role] \in Fd /\ owner[fd[t][role]] = <<role, t>>
  BY <1>1, <1>2
  DEF ServerInv, HoldsItsOwn, Holds, MayLack, Goes, IsLoop, HasListener, HasPoller
<1>4. TypeOK'
  <2>1. at' \in [Thread -> Places]
    BY <1>1 DEF Goes, ServerInv, TypeOK
  <2>2. channels' \in [Thread -> SUBSET Fd] /\ interest' \in [Thread -> SUBSET Fd]
    <3>1. channels \in [Thread -> SUBSET Fd] /\ interest \in [Thread -> SUBSET Fd]
      BY DEF ServerInv, TypeOK
    <3> QED
      BY <1>1, <1>3, <3>1 DEF EnableRead
  <2> QED
    BY <1>2, <2>1, <2>2 DEF ServerInv, TypeOK
<1>5. Claimed'
  BY <1>1, <1>2 DEF Goes, ServerInv, TypeOK, Claimed, HasPoller
<1>6. \A u \in Thread, r \in Role :
        /\ Holds(u, r)' <=> Holds(u, r)
        /\ Holds(u, r) /\ MayLack(u, r) /\ fd[u][r] = NoFd => MayLack(u, r)'
        /\ HasChannel(u, r) => HasChannel(u, r)'
  BY <1>1 DEF Goes, ServerInv, TypeOK, Holds, MayLack, HasChannel, IsLoop, HasListener, HasPoller
<1>7. HoldsItsOwn' /\ NoDescriptorLeak'
  BY <1>2, <1>6 DEF ServerInv, HoldsItsOwn, NoDescriptorLeak, Role
<1>8. HasChannel(t, role)'
  BY <1>1 DEF Goes, ServerInv, TypeOK, HasChannel, IsLoop, HasListener
<1>9. \A u \in Thread : \A f \in interest'[u] : f \in interest[u] \/ (u = t /\ f = fd[t][role])
  BY <1>1 DEF EnableRead, ServerInv, TypeOK
<1>10. ReportsLeadToChannels'
  BY <1>2, <1>3, <1>6, <1>8, <1>9 DEF ServerInv, ReportsLeadToChannels
<1>11. EpollsKept'
  <2>1. PICK to \in {"loop", "listener"} : at' = [at EXCEPT ![t] = to]
    BY <1>1 DEF Goes
  <2>2. at[t] \notin {"out", "epoller"}
    BY <1>1 DEF Goes
  <2> QED
    BY <1>2, <2>1, <2>2, EpollsStay
<1> QED
  BY <1>4, <1>5, <1>7, <1>10, <1>11 DEF ServerInv

(* The number that is closed was the thread's own: nobody else has it.     *)
LEMMA CloseStep ==
  ASSUME ServerInv, NEW t \in Thread, CloseReserve(t) \/ CloseEvent(t)
  PROVE  ServerInv'
<1>1. PICK role \in {"idle", "event"} :
        /\ Close(fd[t][role])
        /\ role = "idle" => HasListener(t) /\ at' = [at EXCEPT ![t] = "closedReserve"]
        /\ role = "event" => Goes(t, "loop", "closedEvent")
  BY DEF CloseReserve, CloseEvent
<1>2. role \in Role /\ UNCHANGED <<local, fd, channels, terminated>>
  BY DEF CloseReserve, CloseEvent, Role
<1>3. TypeOK'
  BY <1>1, <1>2 DEF Close, Goes, ServerInv, TypeOK
<1>4. Claimed'
  BY <1>1, <1>2 DEF Goes, ServerInv, TypeOK, Claimed, HasPoller, HasListener
<1>5. Holds(t, role) /\ ~Holds(t, role)'
  BY <1>1 DEF Goes, ServerInv, TypeOK, Holds, IsLoop, HasListener, HasPoller
<1>6. \A u \in Thread, r \in Role : <<u, r>> # <<t, role>> =>
        /\ Holds(u, r)' <=> Holds(u, r)
        /\ Holds(u, r) /\ MayLack(u, r) => MayLack(u, r)'
  BY <1>1 DEF Goes, ServerInv, TypeOK, Holds, MayLack, IsLoop, HasListener, HasPoller
<1>7. \A u \in Thread, r \in Role : HasChannel(u, r) => HasChannel(u, r)'
  BY <1>1 DEF Goes, ServerInv, TypeOK, HasChannel, IsLoop, HasListener
<1>8. \A f \in Fd : \/ owner[f] = <<role, t>> /\ f = fd[t][role] /\ owner'[f] = Free
                    \/ f # fd[t][role] /\ owner'[f] = owner[f]
  <2> TAKE f \in Fd
  <2>1. owner'[f] = IF f = fd[t][role] THEN Free ELSE owner[f]
    BY <1>1 DEF Close
  <2>2. f = fd[t][role] => owner[f] = <<role, t>>
    BY <1>2, <1>5, ServerAssumption DEF ServerInv, HoldsItsOwn
  <2> QED
    BY <2>1, <2>2
<1>9. HoldsItsOwn'
  <2> SUFFICES ASSUME NEW u \in Thread, NEW r \in Role, Holds(u, r)'
               PROVE  \/ fd[u][r] \in Fd /\ owner'[fd[u][r]] = <<r, u>>
                      \/ fd[u][r] = NoFd /\ MayLack(u, r)'
    BY <1>2 DEF HoldsItsOwn
  <2>1. <<u, r>> # <<t, role>>
    BY <1>5
  <2>2. \/ fd[u][r] \in Fd /\ owner[fd[u][r]] = <<r, u>>
        \/ fd[u][r] = NoFd /\ MayLack(u, r)
    BY <1>6, <2>1 DEF ServerInv, HoldsItsOwn
  <2> QED
    BY <1>6, <1>8, <2>1, <2>2
<1>10. NoDescriptorLeak'
  <2> SUFFICES ASSUME NEW f \in Fd, NEW u \in Thread, NEW r \in {"event", "idle"},
                      owner'[f] = <<r, u>>
               PROVE  Holds(u, r)' /\ fd[u][r] = f
    BY <1>2 DEF NoDescriptorLeak
  <2>1. owner[f] = <<r, u>> /\ f # fd[t][role]
    BY <1>8 DEF Free
  <2>2. Holds(u, r) /\ fd[u][r] = f
    BY <2>1 DEF ServerInv, NoDescriptorLeak
  <2>3. r \in Role /\ <<u, r>> # <<t, role>>
    BY <2>1, <2>2 DEF Role
  <2> QED
    BY <1>6, <2>2, <2>3
<1>11. ReportsLeadToChannels'
  <2> SUFFICES ASSUME NEW u \in Thread, NEW f \in interest'[u]
               PROVE  \E r \in Role : f = fd[u][r] /\ HasChannel(u, r)' /\ owner'[f] = <<r, u>>
    BY <1>2 DEF ReportsLeadToChannels
  <2>1. f \in interest[u] /\ f \in Fd /\ f # fd[t][role]
    BY <1>1 DEF Close, ServerInv, TypeOK
  <2>2. PICK r \in Role : f = fd[u][r] /\ HasChannel(u, r) /\ owner[f] = <<r, u>>
    BY <2>1 DEF ServerInv, ReportsLeadToChannels
  <2> QED
    BY <1>7, <1>8, <2>1, <2>2
<1>12. EpollsKept'
  <2>1. PICK to \in {"closedReserve", "closedEvent"} : at' = [at EXCEPT ![t] = to]
    BY <1>1 DEF Goes
  <2>2. at[t] \notin {"out", "epoller"}
    BY <1>1 DEF Goes, HasListener
  <2>3. \A u \in Thread, f \in Fd : owner'[f] = <<"epoll", u>> => owner[f] = <<"epoll", u>>
    BY <1>8 DEF Free
  <2> QED
    BY <1>2, <2>1, <2>2, <2>3, EpollsStay
<1> QED
  BY <1>3, <1>4, <1>9, <1>10, <1>11, <1>12 DEF ServerInv

(* The channel that goes is the only one whose descriptor leaves epoll.    *)
LEMMA DestroyStep ==
  ASSUME ServerInv, NEW t \in Thread, DestroyListener(t) \/ DestroyLoop(t)
  PROVE  ServerInv'
<1>1. PICK role \in {"listen", "event"} :
        /\ DestroyChannel(t, role)
        /\ role = "listen" => Goes(t, "closedReserve", "loop") /\ Forget(t, {"listen", "idle"})
        /\ role = "event" => Goes(t, "closedEvent", "out") /\ Forget(t, {"epoll", "event"})
  BY DEF DestroyListener, DestroyLoop
<1>2. role \in Role /\ UNCHANGED <<local, owner, terminated>>
  BY DEF DestroyListener, DestroyLoop, Role
<1>3. TypeOK'
  <2>1. at' \in [Thread -> Places]
    BY <1>1 DEF Goes, ServerInv, TypeOK
  <2>2. fd' \in [Thread -> [Role -> Fd \union {NoFd}]]
    <3>1. PICK roles : Forget(t, roles)
      BY <1>1
    <3> QED
      BY <3>1, SMTT(30) DEF Forget, ServerInv, TypeOK
  <2>3. channels' \in [Thread -> SUBSET Fd] /\ interest' \in [Thread -> SUBSET Fd]
    BY <1>1 DEF DestroyChannel, ServerInv, TypeOK
  <2> QED
    BY <1>2, <2>1, <2>2, <2>3 DEF ServerInv, TypeOK
<1>4. Claimed'
  BY <1>1, <1>2 DEF Goes, ServerInv, TypeOK, Claimed, HasPoller
<1>5. \A u \in Thread, r \in Role : Holds(u, r)' =>
        fd'[u][r] = fd[u][r] /\ Holds(u, r) /\ (MayLack(u, r) => MayLack(u, r)')
  BY <1>1 DEF Goes, Forget, ServerInv, TypeOK, Holds, MayLack, IsLoop, HasListener, HasPoller
<1>6. HoldsItsOwn'
  BY <1>2, <1>5 DEF ServerInv, HoldsItsOwn
<1>7. \A u \in Thread, r \in {"event", "idle"} : Holds(u, r) =>
        fd'[u][r] = fd[u][r] /\ Holds(u, r)'
  <2> TAKE u \in Thread, r \in {"event", "idle"}
  <2>1. CASE u = t
    <3>1. ~Holds(t, "idle") /\ (role = "event" => ~Holds(t, "event"))
      BY <1>1 DEF Goes, Holds, IsLoop, HasListener
    <3>2. role = "listen" => fd'[t]["event"] = fd[t]["event"] /\ Holds(t, "event")'
      BY <1>1 DEF Goes, Forget, ServerInv, TypeOK, Role, Holds, IsLoop
    <3> QED
      BY <1>1, <2>1, <3>1, <3>2
  <2>2. CASE u # t
    <3>1. at'[u] = at[u]
      BY <1>1, <2>2 DEF Goes, ServerInv, TypeOK
    <3>2. fd'[u] = fd[u]
      BY <1>1, <2>2 DEF Forget, ServerInv, TypeOK
    <3> QED
      BY <3>1, <3>2 DEF Holds, IsLoop, HasListener, HasPoller
  <2> QED
    BY <2>1, <2>2
<1>8. NoDescriptorLeak'
  BY <1>2, <1>7 DEF ServerInv, NoDescriptorLeak
<1>9. \A u \in Thread, r \in Role : HasChannel(u, r) /\ <<u, r>> # <<t, role>> =>
        fd'[u][r] = fd[u][r] /\ HasChannel(u, r)'
  BY <1>1 DEF Goes, Forget, ServerInv, TypeOK, HasChannel, IsLoop, HasListener
<1>10. ReportsLeadToChannels'
  <2> SUFFICES ASSUME NEW u \in Thread, NEW f \in interest'[u]
               PROVE  \E r \in Role : f = fd'[u][r] /\ HasChannel(u, r)' /\ owner[f] = <<r, u>>
    BY <1>2 DEF ReportsLeadToChannels
  <2>1. f \in interest[u] /\ (u = t => f # fd[t][role])
    BY <1>1 DEF DestroyChannel, ServerInv, TypeOK
  <2>2. PICK r \in Role : f = fd[u][r] /\ HasChannel(u, r) /\ owner[f] = <<r, u>>
    BY <2>1 DEF ServerInv, ReportsLeadToChannels
  <2> QED
    BY <1>9, <2>1, <2>2
<1>11. EpollsKept'
  <2>1. PICK to \in {"loop", "out"} :
          /\ at' = [at EXCEPT ![t] = to]
          /\ to = "loop" => Forget(t, {"listen", "idle"})
          /\ to = "out" => Forget(t, {"epoll", "event"})
    BY <1>1 DEF Goes
  <2>2. at[t] \notin {"out", "epoller"}
    BY <1>1 DEF Goes
  <2>3. \A u \in Thread : <<u, to>> # <<t, "out">> => fd'[u]["epoll"] = fd[u]["epoll"]
    BY <2>1 DEF Forget, ServerInv, TypeOK, Role
  <2> QED
    BY <1>2, <2>1, <2>2, <2>3, EpollsStay
<1> QED
  BY <1>3, <1>4, <1>6, <1>8, <1>10, <1>11 DEF ServerInv

LEMMA OtherStep ==
  ASSUME ServerInv, Other
  PROVE  ServerInv'
<1>1. UNCHANGED <<at, local, fd, channels, interest, terminated>>
  BY DEF Other
<1>2. TypeOK' /\ Claimed'
  BY <1>1 DEF Other, ServerInv, TypeOK, Claimed, HasPoller
<1>3. \A f \in Fd, u \in Thread, r \in Role : owner'[f] = <<r, u>> <=> owner[f] = <<r, u>>
  <2>1. \A u \in Thread, r \in Role : <<r, u>> # Free /\ <<r, u>> # Others
    BY DEF Free, Others, Role
  <2>2. PICK f \in Fd, was \in {Free, Others}, is \in {Free, Others} :
          owner[f] = was /\ owner' = [owner EXCEPT ![f] = is]
    BY DEF Other, IsLowest
  <2>3. owner'[f] = is /\ \A g \in Fd : g # f => owner'[g] = owner[g]
    BY <2>2 DEF ServerInv, TypeOK
  <2> QED
    BY <2>1, <2>2, <2>3
<1>4. \A u \in Thread, r \in Role :
        /\ Holds(u, r)' <=> Holds(u, r)
        /\ MayLack(u, r)' <=> MayLack(u, r)
        /\ HasChannel(u, r)' <=> HasChannel(u, r)
  BY <1>1 DEF Holds, MayLack, HasChannel, IsLoop, HasListener, HasPoller
<1>5. HoldsItsOwn'
  BY <1>1, <1>3, <1>4 DEF ServerInv, HoldsItsOwn
<1>6. NoDescriptorLeak'
  BY <1>1, <1>3, <1>4 DEF ServerInv, NoDescriptorLeak, Role
<1>7. ReportsLeadToChannels'
  BY <1>1, <1>3, <1>4 DEF ServerInv, TypeOK, ReportsLeadToChannels
<1>8. EpollsKept'
  <2>1. "epoll" \in Role
    BY DEF Role
  <2> QED
    BY <1>1, <1>3, <2>1 DEF ServerInv, EpollsKept, HasPoller
<1> QED
  BY <1>2, <1>5, <1>6, <1>7, <1>8 DEF ServerInv

LEMMA UnchangedStep ==
  ASSUME ServerInv, UNCHANGED <<at, local, fd, channels, interest, owner>>, terminated' \in BOOLEAN
  PROVE  ServerInv'
BY DEF ServerInv, TypeOK, Claimed, EpollsKept, HoldsItsOwn, NoDescriptorLeak, ReportsLeadToChannels,
   Holds, MayLack, HasChannel, IsLoop, HasListener, HasPoller

-----------------------------------------------------------------------------
(* The invariant of all objects that main makes, in every thread.          *)
THEOREM ServerInvariant == Spec => []ServerInv
<1>1. ServerInv /\ [Next]_vars => ServerInv'
  <2> SUFFICES ASSUME ServerInv, [Next]_vars PROVE ServerInv'
    OBVIOUS
  <2>1. CASE Other
    BY <2>1, OtherStep
  <2>2. ASSUME NEW t \in Thread, Construct(t) PROVE ServerInv'
    <3>1. CASE CreateEpoll(t)
      BY <3>1, CreateEpollStep
    <3>2. CASE CreateEvent(t) \/ CreateSocket(t) \/ OpenReserve(t)
      BY <3>2, OpenLaterStep
    <3>3. CASE ClaimThread(t) \/ SetReuse(t) \/ Bind(t) \/ Listen(t) \/ Loop(t)
      BY <3>3, AdvanceStep
    <3>4. CASE EnableWake(t) \/ EnableListen(t)
      BY <3>4, EnableStep
    <3>5. CASE ClaimFails(t) \/ WakeFails(t) \/ SetReuseFails(t) \/ BindOrListenFails(t)
      BY <3>5, UnchangedStep
      DEF ClaimFails, WakeFails, SetReuseFails, BindOrListenFails, Terminate
    <3> QED
      BY <2>2, <3>1, <3>2, <3>3, <3>4, <3>5 DEF Construct
  <2>3. ASSUME NEW t \in Thread, Destruct(t) PROVE ServerInv'
    BY <2>3, CloseStep, DestroyStep DEF Destruct
  <2>4. CASE UNCHANGED vars
    BY <2>4, UnchangedStep DEF vars, ServerInv, TypeOK
  <2> QED
    BY <2>1, <2>2, <2>3, <2>4 DEF Next
<1> QED
  BY ServerInit, <1>1, PTL DEF Spec

(* Every variable keeps its type.                                          *)
THEOREM ServerTypeCorrect == Spec => []TypeOK
<1>1. ServerInv => TypeOK
  BY DEF ServerInv
<1> QED
  BY ServerInvariant, <1>1, PTL

(* A thread makes one loop in its life: past the start of its constructor  *)
(* it has one epoll instance and no older one, for any number of threads   *)
(* and of attempts, and however the table fills.                           *)
THEOREM OneLoopPerThreadHolds == Spec => []OneLoopPerThread
<1>1. ServerInv => OneLoopPerThread
  <2> SUFFICES ASSUME ServerInv, NEW t \in Thread, HasPoller(t), at[t] # "epoller"
               PROVE  {f \in Fd : owner[f] = <<"epoll", t>>} = {fd[t]["epoll"]}
    BY DEF OneLoopPerThread
  <2>1. fd[t]["epoll"] \in Fd /\ owner[fd[t]["epoll"]] = <<"epoll", t>>
    <3>1. "epoll" \in Role /\ Holds(t, "epoll") /\ ~MayLack(t, "epoll")
      BY DEF Role, Holds, MayLack
    <3> QED
      BY <3>1 DEF ServerInv, HoldsItsOwn
  <2>2. \A f \in Fd : owner[f] = <<"epoll", t>> => f = fd[t]["epoll"]
    BY DEF ServerInv, EpollsKept
  <2> QED
    BY <2>1, <2>2
<1> QED
  BY ServerInvariant, <1>1, PTL

(* What epoll reports leads to a channel that exists, although WakeUp      *)
(* closes its descriptor before its channel goes.                          *)
THEOREM ReportsLeadToChannelsHolds == Spec => []ReportsLeadToChannels
<1>1. ServerInv => ReportsLeadToChannels
  BY DEF ServerInv
<1> QED
  BY ServerInvariant, <1>1, PTL

(* Whatever other threads open and close, an object's number is its own.   *)
THEOREM HoldsItsOwnHolds == Spec => []HoldsItsOwn
<1>1. ServerInv => HoldsItsOwn
  BY DEF ServerInv
<1> QED
  BY ServerInvariant, <1>1, PTL

(* No event descriptor and no reserve is ever forgotten.                   *)
THEOREM NoDescriptorLeakHolds == Spec => []NoDescriptorLeak
<1>1. ServerInv => NoDescriptorLeak
  BY DEF ServerInv
<1> QED
  BY ServerInvariant, <1>1, PTL

-----------------------------------------------------------------------------
(* The sizes in the settings of the logger.                                *)

(* The units, in bytes.                                                    *)
LEMMA Units ==
  /\ DOMAIN unitMap = {"B", "KB", "MB", "GB"}
  /\ unitMap["B"] = 1 /\ unitMap["KB"] = Kilo
  /\ unitMap["MB"] = Kilo * Kilo /\ unitMap["GB"] = Kilo * Kilo * Kilo
BY DEF unitMap

LEMMA UnitsFit ==
  /\ Kilo \in Nat /\ Kilo * Kilo \in Nat /\ Kilo * Kilo * Kilo \in Nat
  /\ 1 <= Kilo /\ 1 <= Kilo * Kilo /\ 1 <= Kilo * Kilo * Kilo
  /\ Kilo * Kilo < SizeRange /\ Kilo * Kilo * Kilo < SizeRange
  /\ SizeRange \in Nat \ {0}
<1>1. Kilo \in Nat /\ Kilo >= 2 /\ Kilo * Kilo * Kilo < SizeRange /\ SizeRange \in Nat
  <2>1. Kilo \in Nat \ {0, 1} /\ SizeRange \in Nat /\ Kilo * Kilo * Kilo < SizeRange
    BY InitLoggerAssumption, Zenon
  <2> QED
    BY <2>1
<1>2. PICK m \in Nat : m = Kilo * Kilo
  BY <1>1
<1>3. m >= 4
  <2>1. PICK j \in Nat : Kilo = 2 + j
    BY <1>1
  <2>2. Kilo * Kilo = 4 + 4 * j + j * j /\ j * j \in Nat
    BY <2>1
  <2> QED
    BY <1>2, <2>2
<1>4. m <= m * Kilo /\ m * Kilo \in Nat
  <2>1. PICK j \in Nat : Kilo = 1 + j
    BY <1>1
  <2>2. m * Kilo = m + m * j /\ m * j \in Nat
    BY <2>1
  <2> QED
    BY <2>2
<1> QED
  BY <1>1, <1>2, <1>3, <1>4

LEMMA FactorIsPositive ==
  ASSUME NEW c
  PROVE  Factor(c) \in Nat \ {0}
<1>1. CASE c.unit \in DOMAIN unitMap
  BY <1>1, Units, UnitsFit DEF Factor
<1>2. CASE c.unit \notin DOMAIN unitMap
  BY <1>2, Units, UnitsFit DEF Factor
<1> QED
  BY <1>1, <1>2

(* A product with a factor is only a size when the number is not negative. *)
LEMMA ScaledSign ==
  ASSUME NEW n \in Int, NEW f \in Nat \ {0}, n * f >= 0
  PROVE  n >= 0
<1> SUFFICES ASSUME n < 0 PROVE FALSE
  OBVIOUS
<1>1. PICK m \in Nat : n = -1 - m
  <2>1. -1 - n \in Nat /\ n = -1 - (-1 - n)
    OBVIOUS
  <2> QED
    BY <2>1
<1>2. PICK g \in Nat : f = 1 + g
  <2>1. f - 1 \in Nat /\ f = 1 + (f - 1)
    OBVIOUS
  <2> QED
    BY <2>1
<1>3. m * g \in Nat
  OBVIOUS
<1>4. n * f = -1 - m - g - m * g
  BY <1>1, <1>2
<1> QED
  BY <1>1, <1>2, <1>3, <1>4

(* The conversion throws or answers a size_t, and answers what was meant   *)
(* if that fits.                                                           *)
LEMMA ConversionIsSize ==
  ASSUME NEW c \in Capacity
  PROVE  GetUnitConversionValue(c) \in {Thrown} \union (0 .. SizeRange - 1)
<1>1. c.num \in Int
  <2>1. c = Empty \/ c \in [num : Int, unit : Unit]
    BY InitLoggerAssumption, Zenon
  <2> QED
    BY <2>1 DEF Empty
<1>2. LongMax \in Int
  BY UnitsFit DEF LongMax
<1>3. Strtol(c.num) \in Int
  BY <1>1, <1>2 DEF Strtol
<1>4. Strtol(c.num) * Factor(c) \in Int
  BY <1>3, FactorIsPositive
<1>5. (Strtol(c.num) * Factor(c)) % SizeRange \in 0 .. SizeRange - 1
  BY <1>4, UnitsFit
<1>6. unitMap["MB"] \in 0 .. SizeRange - 1
  BY Units, UnitsFit
<1> QED
  BY <1>5, <1>6 DEF GetUnitConversionValue

(* The units of the table, and none, are worth what they say.              *)
LEMMA FactorAsMeant ==
  ASSUME NEW c, c.unit \in {"B", "KB", "MB", "GB", "none"}
  PROVE  Factor(c) = Bytes[c.unit]
BY DEF Factor, Bytes, unitMap

LEMMA ConversionAsMeant ==
  ASSUME NEW c \in Capacity, c = Empty \/ c.unit \in {"B", "KB", "MB", "GB", "none"}, Fits(c)
  PROVE  GetUnitConversionValue(c) = Meant(c)
<1>1. CASE c = Empty
  BY <1>1, Units DEF GetUnitConversionValue, Meant, Bytes
<1>2. CASE c # Empty
  <2>1. c.num \in Int /\ c.num <= LongMax /\ LongMax \in Int
    <3>1. c \in [num : Int, unit : Unit]
      BY <1>2, InitLoggerAssumption, Zenon
    <3>2. LongMax \in Int
      BY UnitsFit DEF LongMax
    <3> QED
      BY <3>1, <3>2 DEF Fits
  <2>2. Meant(c) = c.num * Factor(c)
    BY <1>2, FactorAsMeant DEF Meant
  <2>3. c.num * Factor(c) \in 0 .. SizeRange - 1
    BY <2>2 DEF Fits
  <2>4. c.num >= 0
    BY <2>1, <2>3, ScaledSign, FactorIsPositive
  <2>5. LongMax >= 0
    BY <2>1, <2>4
  <2>6. Strtol(c.num) = c.num
    BY <2>1, <2>4, <2>5 DEF Strtol
  <2>7. PICK m \in Int : m = c.num * Factor(c)
    BY <2>3
  <2>8. m % SizeRange = m
    BY <2>3, <2>7, UnitsFit
  <2> QED
    BY <1>2, <2>2, <2>4, <2>6, <2>7, <2>8 DEF GetUnitConversionValue
<1> QED
  BY <1>1, <1>2

Settings == Capacity \union {NoSize, NoFile}

LEMMA MaxSizeIsSize ==
  ASSUME NEW s \in Settings
  PROVE  MaxSize(s) \in {Thrown} \union (0 .. SizeRange - 1)
<1>1. 0 \in 0 .. SizeRange - 1 /\ Kilo * Kilo * Kilo \in 0 .. SizeRange - 1
  BY UnitsFit
<1>2. s \in Capacity \/ s = NoSize \/ s = NoFile
  BY DEF Settings
<1> QED
  BY <1>1, <1>2, ConversionIsSize DEF MaxSize

-----------------------------------------------------------------------------
(* The calls of initLogger.                                                *)

(* A call has made a pool as soon as it is past the first step, and while  *)
(* that pool is the last one, the logger has it.                           *)
MadeBefore ==
  /\ \A c \in Callers :
       /\ made[c] \in 0 .. pool
       /\ logger[c].own \in 0 .. pool
       /\ logger[c].own = pool => logger[c].pool = pool
  /\ default.own \in 0 .. pool
  /\ DefaultLoggerWrites

(* The limit that was computed is the one of the settings at hand.         *)
LimitsFollow ==
  /\ default.limit = MaxSize(default.size) /\ default.limit # Thrown
  /\ \A c \in Callers :
       /\ callAt[c] = "logger" => limit[c] = MaxSize(size[c])
       /\ logger[c].limit = MaxSize(logger[c].size) /\ logger[c].limit # Thrown

LoggerDomains ==
  /\ inited \in BOOLEAN /\ pool \in Nat /\ calls \in 0 .. MaxCalls
  /\ default \in [own : Nat, pool : Nat, limit : 0 .. SizeRange - 1, size : Settings]
  /\ callAt \in [Callers -> {"out", "pool", "sinks", "logger", "default"}]
  /\ size \in [Callers -> Settings]
  /\ limit \in [Callers -> 0 .. SizeRange - 1]
  /\ made \in [Callers -> Nat]
  /\ logger \in [Callers ->
                 [own : Nat, pool : Nat, limit : 0 .. SizeRange - 1, size : Settings]]

LoggerInv == LoggerDomains /\ MadeBefore /\ LimitsFollow

LEMMA MaxCallsIsNat == MaxCalls \in Nat
BY InitLoggerAssumption, Zenon

LEMMA LoggerInitStep == LoggerInit => LoggerInv
<1> SUFFICES ASSUME LoggerInit PROVE LoggerInv
  OBVIOUS
<1>1. NoLogger \in [own : Nat, pool : Nat, limit : 0 .. SizeRange - 1, size : Settings]
  BY UnitsFit DEF NoLogger, Settings
<1>2. LoggerDomains
  <2>1. 0 \in 0 .. SizeRange - 1 /\ 0 \in 0 .. MaxCalls /\ 0 \in Nat /\ NoFile \in Settings
    BY UnitsFit, MaxCallsIsNat DEF Settings
  <2> QED
    BY <1>1, <2>1 DEF LoggerInit, LoggerDomains
<1>3. MadeBefore
  BY DEF LoggerInit, MadeBefore, NoLogger, DefaultLoggerWrites
<1>4. LimitsFollow
  <2>1. NoLogger.limit = 0 /\ NoLogger.size = NoFile /\ MaxSize(NoFile) = 0 /\ 0 # Thrown
    BY DEF NoLogger, MaxSize, Thrown
  <2> QED
    BY <2>1 DEF LoggerInit, LimitsFollow
<1> QED
  BY <1>2, <1>3, <1>4 DEF LoggerInv

LEMMA CallStep ==
  ASSUME LoggerInv, NEW c \in Callers, NEW s \in Settings, Call(c, s)
  PROVE  LoggerInv'
<1>1. LoggerDomains /\ MadeBefore /\ LimitsFollow
  BY DEF LoggerInv
<1>2. calls' \in 0 .. MaxCalls /\ UNCHANGED <<inited, pool, default>>
  BY <1>1, MaxCallsIsNat DEF Call, LoggerDomains
<1>3. UNCHANGED <<limit, made, logger>>
  BY DEF Call, callVars
<1>4. \/ UNCHANGED <<callAt, size>>
      \/ callAt' = [callAt EXCEPT ![c] = "pool"] /\ size' = [size EXCEPT ![c] = s]
  BY DEF Call, callVars
<1>5. LoggerDomains'
  BY <1>1, <1>2, <1>3, <1>4 DEF LoggerDomains
<1>6. MadeBefore'
  BY <1>1, <1>2, <1>3 DEF MadeBefore, DefaultLoggerWrites
<1>7. LimitsFollow'
  BY <1>1, <1>2, <1>3, <1>4 DEF LimitsFollow, LoggerDomains
<1> QED
  BY <1>5, <1>6, <1>7 DEF LoggerInv

(* No logger has a pool that is only now made.                             *)
LEMMA InitThreadPoolStep ==
  ASSUME LoggerInv, NEW c \in Callers, InitThreadPool(c)
  PROVE  LoggerInv'
<1>1. LoggerDomains /\ MadeBefore /\ LimitsFollow
  BY DEF LoggerInv
<1>2. /\ pool' = pool + 1 /\ made' = [made EXCEPT ![c] = pool + 1]
      /\ callAt' = [callAt EXCEPT ![c] = "sinks"]
      /\ UNCHANGED <<inited, default, size, limit, logger, calls>>
  BY DEF InitThreadPool
<1>3. pool \in Nat /\ pool' \in Nat
  BY <1>1, <1>2 DEF LoggerDomains
<1>4. LoggerDomains'
  BY <1>1, <1>2, <1>3 DEF LoggerDomains
<1>5. MadeBefore'
  <2>1. \A n \in 0 .. pool : n \in 0 .. pool' /\ n # pool'
    BY <1>2, <1>3
  <2>2. \A d \in Callers : made'[d] \in 0 .. pool'
    BY <1>1, <1>2, <1>3, <2>1 DEF MadeBefore, LoggerDomains
  <2> QED
    BY <1>1, <1>2, <2>1, <2>2 DEF MadeBefore, DefaultLoggerWrites
<1>6. LimitsFollow'
  BY <1>1, <1>2 DEF LimitsFollow, LoggerDomains
<1> QED
  BY <1>4, <1>5, <1>6 DEF LoggerInv

LEMMA MakeSinksStep ==
  ASSUME LoggerInv, NEW c \in Callers, MakeSinks(c)
  PROVE  LoggerInv'
<1>1. LoggerDomains /\ MadeBefore /\ LimitsFollow
  BY DEF LoggerInv
<1>2. /\ callAt' = [callAt EXCEPT ![c] = "logger"]
      /\ limit' = [limit EXCEPT ![c] = MaxSize(size[c])] /\ limit'[c] # Thrown
      /\ UNCHANGED <<inited, pool, default, size, made, logger, calls>>
  BY DEF MakeSinks
<1>3. /\ limit'[c] = MaxSize(size[c]) /\ \A d \in Callers : d # c => limit'[d] = limit[d]
      /\ \A d \in Callers : d # c => callAt'[d] = callAt[d]
  BY <1>1, <1>2 DEF LoggerDomains
<1>4. MaxSize(size[c]) \in 0 .. SizeRange - 1
  BY <1>1, <1>2, <1>3, MaxSizeIsSize DEF LoggerDomains
<1>5. LoggerDomains'
  BY <1>1, <1>2, <1>4 DEF LoggerDomains
<1>6. MadeBefore'
  BY <1>1, <1>2 DEF MadeBefore, DefaultLoggerWrites
<1>7. LimitsFollow'
  BY <1>1, <1>2, <1>3 DEF LimitsFollow
<1> QED
  BY <1>5, <1>6, <1>7 DEF LoggerInv

LEMMA ThrowStep ==
  ASSUME LoggerInv, NEW c \in Callers, Throw(c)
  PROVE  LoggerInv'
<1>1. LoggerDomains /\ MadeBefore /\ LimitsFollow
  BY DEF LoggerInv
<1>2. /\ callAt' = [callAt EXCEPT ![c] = "out"]
      /\ UNCHANGED <<inited, pool, default, size, limit, made, logger, calls>>
  BY DEF Throw
<1>3. LoggerDomains'
  BY <1>1, <1>2 DEF LoggerDomains
<1>4. MadeBefore'
  BY <1>1, <1>2 DEF MadeBefore, DefaultLoggerWrites
<1>5. LimitsFollow'
  BY <1>1, <1>2 DEF LimitsFollow, LoggerDomains
<1> QED
  BY <1>3, <1>4, <1>5 DEF LoggerInv

(* The logger gets the pool there is, whoever made that.                   *)
LEMMA MakeLoggerStep ==
  ASSUME LoggerInv, NEW c \in Callers, MakeLogger(c)
  PROVE  LoggerInv'
<1> DEFINE new == [own |-> made[c], pool |-> pool, limit |-> limit[c], size |-> size[c]]
<1>1. LoggerDomains /\ MadeBefore /\ LimitsFollow
  BY DEF LoggerInv
<1>2. /\ callAt[c] = "logger" /\ callAt' = [callAt EXCEPT ![c] = "default"]
      /\ logger' = [logger EXCEPT ![c] = new]
      /\ UNCHANGED <<inited, pool, default, size, limit, made, calls>>
  BY DEF MakeLogger
<1>3. new \in [own : Nat, pool : Nat, limit : 0 .. SizeRange - 1, size : Settings]
  BY <1>1 DEF LoggerDomains
<1>4. new.own = made[c] /\ new.pool = pool /\ new.limit = limit[c] /\ new.size = size[c]
  OBVIOUS
<1> HIDE DEF new
<1>5. /\ logger'[c] = new /\ \A d \in Callers : d # c => logger'[d] = logger[d]
      /\ \A d \in Callers : d # c => callAt'[d] = callAt[d]
      /\ callAt'[c] = "default"
  BY <1>1, <1>2 DEF LoggerDomains
<1>6. LoggerDomains'
  BY <1>1, <1>2, <1>3 DEF LoggerDomains
<1>7. MadeBefore'
  BY <1>1, <1>2, <1>4, <1>5 DEF MadeBefore, DefaultLoggerWrites
<1>8. LimitsFollow'
  <2>1. limit[c] = MaxSize(size[c]) /\ limit[c] # Thrown
    BY <1>1, <1>2 DEF LimitsFollow, LoggerDomains, Thrown
  <2> QED
    BY <1>1, <1>2, <1>4, <1>5, <2>1 DEF LimitsFollow
<1> QED
  BY <1>6, <1>7, <1>8 DEF LoggerInv

LEMMA SetDefaultLoggerStep ==
  ASSUME LoggerInv, NEW c \in Callers, SetDefaultLogger(c)
  PROVE  LoggerInv'
<1>1. LoggerDomains /\ MadeBefore /\ LimitsFollow
  BY DEF LoggerInv
<1>2. /\ callAt' = [callAt EXCEPT ![c] = "out"] /\ default' = logger[c]
      /\ UNCHANGED <<inited, pool, size, limit, made, logger, calls>>
  BY DEF SetDefaultLogger
<1>3. LoggerDomains'
  BY <1>1, <1>2 DEF LoggerDomains
<1>4. MadeBefore'
  BY <1>1, <1>2 DEF MadeBefore, DefaultLoggerWrites
<1>5. LimitsFollow'
  BY <1>1, <1>2 DEF LimitsFollow, LoggerDomains
<1> QED
  BY <1>3, <1>4, <1>5 DEF LoggerInv

LEMMA LoggerNextStep == LoggerInv /\ [LoggerNext]_loggerVars => LoggerInv'
<1> SUFFICES ASSUME LoggerInv, [LoggerNext]_loggerVars PROVE LoggerInv'
  OBVIOUS
<1>1. CASE UNCHANGED loggerVars
  BY <1>1 DEF loggerVars, callVars, LoggerInv, LoggerDomains, MadeBefore, LimitsFollow,
              DefaultLoggerWrites
<1>2. ASSUME NEW c \in Callers, NEW s \in Settings, Call(c, s) PROVE LoggerInv'
  BY <1>2, CallStep
<1>3. ASSUME NEW c \in Callers, InitThreadPool(c) PROVE LoggerInv'
  BY <1>3, InitThreadPoolStep
<1>4. ASSUME NEW c \in Callers, MakeSinks(c) PROVE LoggerInv'
  BY <1>4, MakeSinksStep
<1>5. ASSUME NEW c \in Callers, Throw(c) PROVE LoggerInv'
  BY <1>5, ThrowStep
<1>6. ASSUME NEW c \in Callers, MakeLogger(c) PROVE LoggerInv'
  BY <1>6, MakeLoggerStep
<1>7. ASSUME NEW c \in Callers, SetDefaultLogger(c) PROVE LoggerInv'
  BY <1>7, SetDefaultLoggerStep
<1> QED
  BY <1>1, <1>2, <1>3, <1>4, <1>5, <1>6, <1>7 DEF LoggerNext, Settings

THEOREM LoggerInvariant == LoggerSpec => []LoggerInv
BY LoggerInitStep, LoggerNextStep, PTL DEF LoggerSpec

(* After any calls of initLogger, by any threads in any interleaving and   *)
(* wherever they throw, the default logger has the pool that lives, unless *)
(* a call made a pool after the one that set it: what silences the logger  *)
(* is such a call and nothing else.                                        *)
THEOREM DefaultLoggerWritesHolds == LoggerSpec => []DefaultLoggerWrites
<1>1. LoggerInv => DefaultLoggerWrites
  BY DEF LoggerInv, MadeBefore
<1> QED
  BY LoggerInvariant, <1>1, PTL

(* Its file is limited to what the text of the settings says, with each    *)
(* unit of the table and without one, if a size_t can hold it.             *)
THEOREM SizeAsMeantHolds == LoggerSpec => []SizeAsMeant
<1>1. LoggerInv => SizeAsMeant
  <2> SUFFICES ASSUME LoggerInv, default.size \in Capacity, Fits(default.size),
                      \/ default.size = Empty
                      \/ default.size.unit \in {"B", "KB", "MB", "GB", "none"}
               PROVE  default.limit = Meant(default.size)
    BY DEF SizeAsMeant
  <2>1. MaxSize(default.size) = GetUnitConversionValue(default.size)
    BY InitLoggerAssumption DEF MaxSize
  <2>2. default.limit = MaxSize(default.size)
    BY DEF LoggerInv, LimitsFollow
  <2> QED
    BY <2>1, <2>2, ConversionAsMeant
<1> QED
  BY LoggerInvariant, <1>1, PTL

=============================================================================
