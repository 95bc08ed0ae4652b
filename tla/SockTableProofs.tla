--------------------------- MODULE SockTableProofs ---------------------------
(***************************************************************************)
(* What TLAPS proves of SockTable, for any number of threads, sockets and  *)
(* remote ends, and for every order in which locks are taken.              *)
(***************************************************************************)
EXTENDS SockTable, FiniteSetTheorems, TLAPS

\* Where a thread is: on a walk over the list, holding one socket, in a call on
\* a socket of its own that it does not hold, or with no socket.
Walking == {"find", "match", "listener", "async"}
Holding == {"found", "handle", "child"}
Owning == {"connect", "spin", "copy", "closing", "unlink", "free"}
Away == {"idle", "socket", "call", "accept", "packet"}
AppPlaces == {"idle", "socket", "call", "find", "found", "accept"} \cup Owning
LoopPlaces == {"idle", "packet", "match", "listener", "handle", "child", "async"}

Live(s) == state[s] \notin {"NONE", "FREED"}

PlacesOK ==
  /\ pc \in [Threads -> AppPlaces \cup LoopPlaces]
  /\ \A t \in Apps : pc[t] \in AppPlaces
  /\ pc["loop"] \in LoopPlaces
  /\ op \in [Apps -> Ops \cup {"none"}]

\* A walk holds the list and is at a socket in it; whoever holds a socket has its
\* mutex; a socket in a call belongs to the caller, who alone may free it.
ThreadOK(t) ==
  /\ pc[t] \in Walking => listLock = t /\ at[t] \in linked
  /\ pc[t] \in Holding => at[t] # 0 /\ lock[at[t]] = t /\ Live(at[t])
  /\ pc[t] \in Owning => at[t] # 0 /\ user[at[t]] = t /\ Live(at[t])
  /\ pc[t] = "free" => at[t] \notin linked
  /\ pc[t] \in Away => at[t] = 0

\* The call an application thread is about to make is one that it may.
CallOK(t) ==
  /\ pc[t] \in {"call", "find", "found"} =>
       /\ fd[t] # 0
       /\ op[t] # "accept" => user[fd[t]] = t
       /\ op[t] = "listen" => peer[fd[t]] = {}
  /\ pc[t] = "found" => at[t] = fd[t]
  /\ pc[t] = "accept" => fd[t] # 0

SocketOK(s) ==
  /\ state[s] = "NONE" <=> s >= nextFd
  /\ s \in linked => Live(s)
  /\ state[s] = "NONE" => /\ user[s] = Nobody /\ accepted[s] = 0
                          /\ parent[s] = 0 /\ peer[s] = {}
  /\ parent[s] # 0 => user[s] = Nobody /\ accepted[s] = 0
  /\ accepted[s] <= 1
  /\ peer[s] \subseteq Callers \cup {s}
  /\ state[s] = "LISTEN" => peer[s] = {}

\* No socket seen so far is the one the packet is for.
Fresh(s) == \A p \in packet : p.from \in Callers => p.from \notin peer[s]
PacketOK ==
  /\ pc["loop"] \in {"idle", "async"} <=> packet = {}
  /\ \A p, q \in packet : p = q
  /\ pc["loop"] = "match" => \A s \in linked : s < at["loop"] => Fresh(s)
  /\ pc["loop"] = "listener" => \A s \in linked : Fresh(s)
  /\ pc["loop"] \in {"handle", "child"} /\ state[at["loop"]] = "LISTEN" =>
       /\ \A s \in linked : Fresh(s)
       /\ \A p \in packet : p.from \in Callers
  /\ pc["loop"] = "child" => /\ state[at["loop"]] = "LISTEN"
                             /\ \A p \in packet : "SYN" \in p.ctrl

RoomOK == nextFd + Due <= MaxSocket + 1

SockTypes ==
  /\ nextFd \in 1 .. MaxSocket + 1
  /\ linked \in SUBSET Sockets
  /\ listLock \in Threads \cup {Nobody}
  /\ lock \in [Sockets -> Threads \cup {Nobody}]
  /\ state \in [Sockets -> {"NONE", "CLOSED", "LISTEN", "SYS_SENT", "SYS_RECV",
                            "ESTABLISHED", "FREED"}]
  /\ bound \in [Sockets -> BOOLEAN]
  /\ peer \in [Sockets -> SUBSET Peers]
  /\ parent \in [Sockets -> {0} \cup Sockets]
  /\ clstate \in [Sockets -> SUBSET {"CALL", "CLOSE"}]
  /\ at \in [Threads -> {0} \cup Sockets]
  /\ fd \in [Apps -> {0} \cup Sockets]
  /\ packet \in SUBSET Packet
  /\ user \in [Sockets -> Apps \cup {Nobody}]
  /\ accepted \in [Sockets -> Nat]

\* Whoever has the list is on a walk, and whoever has a socket's mutex holds that
\* socket, unless connect() has left it locked.
LocksOK ==
  /\ listLock # Nobody => pc[listLock] \in Walking
  /\ "connectBad" \notin Ops =>
       \A s \in Sockets : lock[s] # Nobody =>
         pc[lock[s]] \in Holding /\ at[lock[s]] = s

SockInv ==
  /\ SockTypes /\ PlacesOK /\ LocksOK /\ RoomOK /\ PacketOK
  /\ \A t \in Threads : ThreadOK(t)
  /\ \A t \in Apps : CallOK(t)
  /\ \A s \in Sockets : SocketOK(s)

-----------------------------------------------------------------------------
\* NextAfter: the first socket in the list behind s.
LEMMA LeastExists ==
  ASSUME NEW S, S \subseteq Nat, S # {}
  PROVE  \E x \in S : \A y \in S : x <= y
<1>. DEFINE Less == OpToRel(<, Nat)
<1>1. PICK x \in S : \A y \in S : <<y, x>> \notin Less
  BY NatLessThanWellFounded, WFMin
<1>2. \A y \in S : ~ (y < x)
  BY <1>1 DEF OpToRel
<1>. QED  BY <1>2

LEMMA SocketsNat == Sockets \subseteq Nat
BY TableAssumption DEF Sockets

LEMMA NextIs ==
  ASSUME linked \in SUBSET Sockets, MaxSocket \in Nat, NEW s \in {0} \cup Sockets,
         NextAfter(s) # 0
  PROVE  /\ NextAfter(s) \in linked /\ NextAfter(s) > s
         /\ \A u \in linked : u > s => NextAfter(s) <= u
<1>. DEFINE later == {u \in linked : u > s}
<1>1. later # {} /\ NextAfter(s) = CHOOSE u \in later : \A v \in later : u <= v
  BY DEF NextAfter
<1>2. \E u \in later : \A v \in later : u <= v
  <2>1. later \subseteq linked /\ linked \subseteq Nat
    BY SocketsNat
  <2>. HIDE DEF later
  <2>. QED  BY <1>1, <2>1, LeastExists
<1>. HIDE DEF later
<1>3. NextAfter(s) \in later /\ \A v \in later : NextAfter(s) <= v
  BY <1>1, <1>2
<1>. QED  BY <1>3 DEF later

LEMMA NextNone ==
  ASSUME linked \in SUBSET Sockets, NEW s \in {0} \cup Sockets, NextAfter(s) = 0
  PROVE  \A u \in linked : u <= s
<1>. DEFINE later == {u \in linked : u > s}
<1>1. CASE later # {}
  <2>1. \E u \in later : \A v \in later : u <= v
    <3>1. later \subseteq linked /\ linked \subseteq Nat
      BY SocketsNat
    <3>. HIDE DEF later
    <3>. QED  BY <1>1, <3>1, LeastExists
  <2>2. NextAfter(s) \in later
    BY <1>1, <2>1 DEF NextAfter
  <2>. QED  BY <2>2 DEF Sockets
<1>2. CASE later = {}
  BY <1>2, TableAssumption DEF Sockets
<1>. QED  BY <1>1, <1>2

-----------------------------------------------------------------------------
\* Steps of a thread, as far as the others see them.

LEMMA ThreadNames ==
  /\ "loop" \in Threads /\ "loop" \notin Apps /\ Apps \subseteq Threads
  /\ Nobody \notin Threads /\ Threads \ {"loop"} = Apps
BY TableAssumption DEF Threads, Nobody

\* A thread moves and no other does.
Moves(t) ==
  /\ pc' \in [Threads -> AppPlaces \cup LoopPlaces]
  /\ at' \in [Threads -> {0} \cup Sockets]
  /\ op' \in [Apps -> Ops \cup {"none"}]
  /\ fd' \in [Apps -> {0} \cup Sockets]
  /\ \A u \in Threads \ {t} : pc'[u] = pc[u] /\ at'[u] = at[u]
  /\ \A u \in Apps \ {t} : op'[u] = op[u] /\ fd'[u] = fd[u]
  /\ t \in Apps => pc'[t] \in AppPlaces
  /\ t = "loop" => pc'[t] \in LoopPlaces

LEMMA GotoMoves ==
  ASSUME SockTypes, PlacesOK, NEW t \in Threads, NEW w, NEW s \in {0} \cup Sockets,
         IF t = "loop" THEN w \in LoopPlaces ELSE w \in AppPlaces,
         Goto(t, w, s)
  PROVE  /\ Moves(t) /\ pc'[t] = w /\ at'[t] = s
         /\ t \in Apps => IF w = "idle" THEN op'[t] = "none" /\ fd'[t] = 0
                          ELSE op'[t] = op[t] /\ fd'[t] = fd[t]
<1>1. pc' = [pc EXCEPT ![t] = w] /\ at' = [at EXCEPT ![t] = s]
      /\ op' = [u \in Apps |-> IF u = t /\ w = "idle" THEN "none" ELSE op[u]]
      /\ fd' = [u \in Apps |-> IF u = t /\ w = "idle" THEN 0 ELSE fd[u]]
  BY DEF Goto
<1>2. op' \in [Apps -> Ops \cup {"none"}] /\ fd' \in [Apps -> {0} \cup Sockets]
  BY <1>1 DEF PlacesOK, SockTypes
<1>3. /\ pc' \in [Threads -> AppPlaces \cup LoopPlaces]
      /\ at' \in [Threads -> {0} \cup Sockets]
      /\ pc'[t] = w /\ at'[t] = s
      /\ \A u \in Threads \ {t} : pc'[u] = pc[u] /\ at'[u] = at[u]
  BY <1>1 DEF PlacesOK, SockTypes
<1>4. \A u \in Apps \ {t} : op'[u] = op[u] /\ fd'[u] = fd[u]
  BY <1>1
<1>5. t \in Apps => IF w = "idle" THEN op'[t] = "none" /\ fd'[t] = 0
                    ELSE op'[t] = op[t] /\ fd'[t] = fd[t]
  BY <1>1
<1>. QED  BY <1>2, <1>3, <1>4, <1>5, ThreadNames DEF Moves

\* What has to stay for the others' part of the invariant to stay.
LEMMA OthersThreads ==
  ASSUME SockInv, NEW t \in Threads, Moves(t),
         \A u \in Threads \ {t} :
           /\ pc[u] \in Walking => listLock' = listLock /\ at[u] \in linked'
           /\ pc[u] \in Holding => lock'[at[u]] = lock[at[u]] /\ Live(at[u])'
           /\ pc[u] \in Owning => user'[at[u]] = user[at[u]] /\ Live(at[u])'
           /\ pc[u] = "free" => at[u] \notin linked'
  PROVE  \A u \in Threads \ {t} : ThreadOK(u)'
<1>. TAKE u \in Threads \ {t}
<1>1. ThreadOK(u) /\ pc'[u] = pc[u] /\ at'[u] = at[u]
  BY DEF SockInv, Moves
<1>. QED  BY <1>1 DEF ThreadOK, Live

LEMMA OthersCalls ==
  ASSUME SockInv, NEW t \in Threads, Moves(t),
         \A u \in Apps \ {t} : pc[u] \in {"call", "find", "found"} =>
           /\ user[fd[u]] = u => user'[fd[u]] = u
           /\ op[u] = "listen" => peer'[fd[u]] = {}
  PROVE  \A u \in Apps \ {t} : CallOK(u)'
<1>. TAKE u \in Apps \ {t}
<1>1. /\ CallOK(u) /\ pc'[u] = pc[u] /\ at'[u] = at[u]
      /\ op'[u] = op[u] /\ fd'[u] = fd[u]
  BY ThreadNames DEF SockInv, Moves
<1>. QED  BY <1>1 DEF CallOK

\* The loop thread's packet while an application thread moves.
LEMMA AppPacket ==
  ASSUME SockInv, NEW t \in Apps, Moves(t), UNCHANGED packet,
         \A s \in linked' :
           peer'[s] = {} \/ (s \in linked /\ peer'[s] \cap Callers \subseteq peer[s]),
         pc["loop"] \in {"handle", "child"} => state'[at["loop"]] = state[at["loop"]]
  PROVE  PacketOK'
<1>1. pc'["loop"] = pc["loop"] /\ at'["loop"] = at["loop"]
  BY ThreadNames DEF Moves
<1>2. PacketOK
  BY DEF SockInv
<1>3. ASSUME NEW s \in linked', s \in linked => Fresh(s)
      PROVE  Fresh(s)'
  BY <1>3 DEF Fresh
<1>4. pc["loop"] = "match" => \A s \in linked' : s < at["loop"] => Fresh(s)'
  BY <1>2, <1>3 DEF PacketOK
<1>5. \/ pc["loop"] = "listener"
      \/ pc["loop"] \in {"handle", "child"} /\ state[at["loop"]] = "LISTEN"
      => \A s \in linked' : Fresh(s)'
  BY <1>2, <1>3 DEF PacketOK
<1>6. (\A p, q \in packet : p = q)' /\ (pc["loop"] \in {"idle", "async"} <=> packet = {})'
  BY <1>1, <1>2 DEF PacketOK
<1>7. (pc["loop"] \in {"handle", "child"} /\ state[at["loop"]] = "LISTEN" =>
         \A p \in packet : p.from \in Callers)'
  BY <1>1, <1>2 DEF PacketOK
<1>8. (pc["loop"] = "child" => /\ state[at["loop"]] = "LISTEN"
                               /\ \A p \in packet : "SYN" \in p.ctrl)'
  BY <1>1, <1>2 DEF PacketOK
<1>. QED  BY <1>1, <1>4, <1>5, <1>6, <1>7, <1>8 DEF PacketOK

LEMMA PacketFinite ==
  ASSUME PacketOK
  PROVE  /\ Cardinality(packet) <= 1
         /\ \A S \in SUBSET packet :
              /\ IsFiniteSet(S) /\ Cardinality(S) \in {0, 1}
              /\ Cardinality(S) = IF S = {} THEN 0 ELSE 1
<1>1. packet = {} \/ \E p : packet = {p}
  BY DEF PacketOK
<1>2. \A S \in SUBSET packet : S = {} \/ \E p : S = {p}
  BY <1>1
<1>3. Cardinality({}) = 0 /\ IsFiniteSet({})
  BY FS_EmptySet
<1>4. \A p : Cardinality({p}) = 1 /\ IsFiniteSet({p})
  BY FS_Singleton
<1>5. Cardinality(packet) <= 1
  BY <1>1, <1>3, <1>4
<1>6. ASSUME NEW S \in SUBSET packet
      PROVE  /\ IsFiniteSet(S) /\ Cardinality(S) \in {0, 1}
             /\ Cardinality(S) = IF S = {} THEN 0 ELSE 1
  <2>1. CASE S = {}
    BY <1>3, <2>1
  <2>2. ASSUME NEW p, S = {p} PROVE  /\ IsFiniteSet(S) /\ Cardinality(S) \in {0, 1}
                                            /\ Cardinality(S) = IF S = {} THEN 0 ELSE 1
    BY <1>4, <2>2
  <2>. QED  BY <1>2, <2>1, <2>2
<1>. QED  BY <1>5, <1>6

LEMMA RoomKept ==
  ASSUME RoomOK, UNCHANGED <<nextFd, packet>>,
         \A u \in Apps : pc'[u] = "socket" <=> pc[u] = "socket"
  PROVE  RoomOK'
<1>1. {u \in Apps : pc'[u] = "socket"} = {u \in Apps : pc[u] = "socket"}
  OBVIOUS
<1>. QED  BY <1>1 DEF RoomOK, Due

-----------------------------------------------------------------------------
\* The steps of the application threads.

\* No two threads walk, hold one socket, or own one.
LEMMA Exclusive ==
  ASSUME SockInv
  PROVE  /\ \A t \in Threads : listLock # t => pc[t] \notin Walking
         /\ \A t \in Threads : pc[t] \in Holding => lock[at[t]] = t /\ at[t] \in Sockets
         /\ \A t \in Threads : pc[t] \in Owning =>
              t \in Apps /\ user[at[t]] = t /\ at[t] \in Sockets
         /\ \A t \in Threads : pc[t] \in Walking => at[t] \in Sockets /\ at[t] \in linked
BY ThreadNames DEF SockInv, SockTypes, PlacesOK, ThreadOK, LoopPlaces, Owning

LEMMA AppInv ==
  ASSUME SockInv, NEW t \in Apps, Moves(t), UNCHANGED packet,
         SockTypes', LocksOK', RoomOK', ThreadOK(t)', CallOK(t)',
         \A s \in Sockets : SocketOK(s)',
         \A u \in Threads \ {t} :
           /\ pc[u] \in Walking => listLock' = listLock /\ at[u] \in linked'
           /\ pc[u] \in Holding => lock'[at[u]] = lock[at[u]] /\ Live(at[u])'
           /\ pc[u] \in Owning => user'[at[u]] = user[at[u]] /\ Live(at[u])'
           /\ pc[u] = "free" => at[u] \notin linked',
         \A u \in Apps \ {t} : pc[u] \in {"call", "find", "found"} =>
           /\ user[fd[u]] = u => user'[fd[u]] = u
           /\ op[u] = "listen" => peer'[fd[u]] = {},
         \A s \in linked' :
           peer'[s] = {} \/ (s \in linked /\ peer'[s] \cap Callers \subseteq peer[s]),
         pc["loop"] \in {"handle", "child"} => state'[at["loop"]] = state[at["loop"]]
  PROVE  SockInv'
<1>1. PacketOK'
  BY AppPacket
<1>2. \A u \in Threads : ThreadOK(u)'
  BY OthersThreads, ThreadNames
<1>3. \A u \in Apps : CallOK(u)'
  BY OthersCalls, ThreadNames
<1>4. PlacesOK'
  <2>1. /\ pc' \in [Threads -> AppPlaces \cup LoopPlaces]
        /\ op' \in [Apps -> Ops \cup {"none"}]
        /\ pc'["loop"] = pc["loop"] /\ pc'[t] \in AppPlaces
        /\ \A u \in Apps \ {t} : pc'[u] = pc[u]
    BY ThreadNames DEF Moves
  <2>2. \A u \in Apps : pc'[u] \in AppPlaces
    BY <2>1 DEF SockInv, PlacesOK
  <2>. QED  BY <2>1, <2>2 DEF SockInv, PlacesOK
<1>. QED  BY <1>1, <1>2, <1>3, <1>4 DEF SockInv

\* A step that changes no more than the thread's place and, in the right way, locks.
LEMMA AppMoves ==
  ASSUME SockInv, NEW t \in Apps, Moves(t),
         UNCHANGED <<linked, nextFd, sockVars, packet, histVars>>,
         listLock' \in Threads \cup {Nobody},
         lock' \in [Sockets -> Threads \cup {Nobody}],
         \A u \in Threads \ {t} :
           /\ pc[u] \in Walking => listLock' = listLock
           /\ pc[u] \in Holding => lock'[at[u]] = lock[at[u]],
         LocksOK', RoomOK', ThreadOK(t)', CallOK(t)'
  PROVE  SockInv'
<1>1. SockTypes'
  BY DEF SockInv, SockTypes, Moves, sockVars, histVars
<1>2. \A s \in Sockets : SocketOK(s)'
  BY DEF SockInv, SocketOK, Live, sockVars, histVars
<1>3. \A u \in Threads \ {t} :
           /\ pc[u] \in Walking => listLock' = listLock /\ at[u] \in linked'
           /\ pc[u] \in Holding => lock'[at[u]] = lock[at[u]] /\ Live(at[u])'
           /\ pc[u] \in Owning => user'[at[u]] = user[at[u]] /\ Live(at[u])'
           /\ pc[u] = "free" => at[u] \notin linked'
  <2>. TAKE u \in Threads \ {t}
  <2>1. /\ ThreadOK(u) /\ at'[u] = at[u]
        /\ state' = state /\ user' = user /\ linked' = linked
    BY DEF SockInv, Moves, sockVars, histVars
  <2>2. /\ pc[u] \in Walking => listLock' = listLock
        /\ pc[u] \in Holding => lock'[at[u]] = lock[at[u]]
    OBVIOUS
  <2>3. Live(at[u]) => Live(at[u])'
    BY <2>1 DEF Live
  <2>. QED  BY <2>1, <2>2, <2>3 DEF ThreadOK
<1>4. \A u \in Apps \ {t} : pc[u] \in {"call", "find", "found"} =>
           /\ user[fd[u]] = u => user'[fd[u]] = u
           /\ op[u] = "listen" => peer'[fd[u]] = {}
  BY DEF SockInv, CallOK, sockVars, histVars
<1>. QED  BY <1>1, <1>2, <1>3, <1>4, AppInv DEF sockVars, histVars

\* Steps that take no lock: the thread waits for nothing or looks without one.
LEMMA AppGoes ==
  ASSUME SockInv, NEW t \in Apps, Moves(t),
         UNCHANGED <<lockVars, sockVars, packet, histVars>>,
         pc[t] \notin Walking, pc[t] \in Holding => "connectBad" \in Ops,
         RoomOK', ThreadOK(t)', CallOK(t)'
  PROVE  SockInv'
<1>1. LocksOK'
  <2>1. \A u \in Threads : u # t => pc'[u] = pc[u] /\ at'[u] = at[u]
    BY DEF Moves
  <2>2. listLock # t /\ lock' = lock /\ listLock' = listLock /\ LocksOK
        /\ lock \in [Sockets -> Threads \cup {Nobody}] /\ listLock \in Threads \cup {Nobody}
    BY ThreadNames DEF SockInv, LocksOK, lockVars, SockTypes
  <2>3. ASSUME "connectBad" \notin Ops, NEW s \in Sockets, lock[s] # Nobody
        PROVE  pc'[lock[s]] \in Holding /\ at'[lock[s]] = s
    BY <2>1, <2>2, <2>3 DEF LocksOK
  <2>. QED  BY <2>1, <2>2, <2>3 DEF LocksOK
<1>2. /\ listLock' = listLock /\ lock' = lock
      /\ UNCHANGED <<linked, nextFd, sockVars, packet, histVars>>
      /\ listLock' \in Threads \cup {Nobody}
      /\ lock' \in [Sockets -> Threads \cup {Nobody}]
  BY DEF SockInv, SockTypes, lockVars, sockVars, histVars
<1>. QED  BY <1>1, <1>2, AppMoves

LEMMA CallInv ==
  ASSUME SockInv, NEW t \in Apps, Call(t)
  PROVE  SockInv'
<1>0. /\ pc[t] = "idle" /\ at[t] = 0 /\ SockTypes /\ PlacesOK /\ t \in Threads /\ t # "loop"
      /\ UNCHANGED <<lockVars, sockVars, packet, histVars>>
  BY ThreadNames DEF Call, SockInv, ThreadOK, Away
<1>1. CASE Room /\ Goto(t, "socket", 0)
  <2>1. Moves(t) /\ pc'[t] = "socket" /\ at'[t] = 0
    BY <1>0, <1>1, GotoMoves DEF AppPlaces
  <2>2. RoomOK'
    <3>1. {u \in Apps : pc'[u] = "socket"} = {u \in Apps : pc[u] = "socket"} \cup {t}
          /\ t \notin {u \in Apps : pc[u] = "socket"}
      BY <1>0, <2>1, ThreadNames DEF Moves
    <3>2. IsFiniteSet({u \in Apps : pc[u] = "socket"})
      BY TableAssumption, FS_Subset
    <3>3. Cardinality({u \in Apps : pc'[u] = "socket"})
            = Cardinality({u \in Apps : pc[u] = "socket"}) + 1
      BY <3>1, <3>2, FS_AddElement
    <3>4. packet' = packet /\ nextFd' = nextFd /\ nextFd \in Nat
          /\ nextFd + Due <= MaxSocket /\ MaxSocket \in Nat
      BY <1>0, <1>1, TableAssumption DEF lockVars, Room, SockTypes
    <3>5. IsFiniteSet({p \in packet : p.from \in Callers /\ "SYN" \in p.ctrl})
      BY PacketFinite DEF SockInv
    <3>. QED  BY <3>2, <3>3, <3>4, <3>5, FS_CardinalityType DEF RoomOK, Due
  <2>3. ThreadOK(t)' /\ CallOK(t)'
    BY <2>1 DEF ThreadOK, CallOK, Walking, Holding, Owning
  <2>. QED  BY <1>0, <2>1, <2>2, <2>3, AppGoes DEF Walking, Holding
<1>2. ASSUME NEW o \in Ops \ {"socket"}, NEW s \in Sockets, May(t, o, s),
             pc' = [pc EXCEPT ![t] = "call"], op' = [op EXCEPT ![t] = o],
             fd' = [fd EXCEPT ![t] = s], UNCHANGED at
      PROVE  SockInv'
  <2>1. Moves(t) /\ pc'[t] = "call" /\ at'[t] = 0 /\ op'[t] = o /\ fd'[t] = s
    BY <1>0, <1>2, ThreadNames DEF Moves, AppPlaces, SockTypes, PlacesOK
  <2>2. (o # "accept" => user[s] = t) /\ (o = "listen" => peer[s] = {})
    BY <1>2, TableAssumption DEF May
  <2>3. ThreadOK(t)' /\ CallOK(t)'
    BY <1>0, <2>1, <2>2, SocketsNat
       DEF ThreadOK, CallOK, Walking, Holding, Owning, sockVars, histVars, Sockets
  <2>4. RoomOK'
    BY <1>0, <2>1, RoomKept, ThreadNames DEF SockInv, Moves, lockVars
  <2>. QED  BY <1>0, <2>1, <2>3, <2>4, AppGoes DEF Walking, Holding
<1>. QED  BY <1>1, <1>2 DEF Call

\* What unlocking a socket, coming to a socket on a walk and stopping there do.
LEMMA UnlockIs ==
  ASSUME SockInv, NEW t \in Threads, pc[t] \in Holding, Moves(t), UNCHANGED listLock,
         lock' = [lock EXCEPT ![at[t]] = Nobody]
  PROVE  /\ lock' \in [Sockets -> Threads \cup {Nobody}] /\ LocksOK'
         /\ listLock' \in Threads \cup {Nobody}
         /\ \A u \in Threads \ {t} :
              /\ pc[u] \in Walking => listLock' = listLock
              /\ pc[u] \in Holding => lock'[at[u]] = lock[at[u]]
<1>1. /\ lock \in [Sockets -> Threads \cup {Nobody}] /\ LocksOK
      /\ listLock \in Threads \cup {Nobody} /\ listLock # t
      /\ at[t] \in Sockets /\ lock[at[t]] = t
  BY Exclusive, ThreadNames DEF SockInv, SockTypes, LocksOK, Holding, Walking
<1>2. \A u \in Threads \ {t} : pc'[u] = pc[u] /\ at'[u] = at[u]
  BY DEF Moves
<1>3. \A u \in Threads \ {t} : pc[u] \in Holding => lock'[at[u]] = lock[at[u]]
  BY <1>1, Exclusive
<1>4. ASSUME "connectBad" \notin Ops, NEW s \in Sockets, lock'[s] # Nobody
      PROVE  pc'[lock'[s]] \in Holding /\ at'[lock'[s]] = s
  <2>1. s # at[t] /\ lock'[s] = lock[s]
    BY <1>1, <1>4
  <2>2. pc[lock[s]] \in Holding /\ at[lock[s]] = s /\ lock[s] \in Threads \ {t}
    BY <1>1, <1>4, <2>1 DEF LocksOK
  <2>. QED  BY <1>2, <2>1, <2>2
<1>5. listLock # Nobody => pc'[listLock] \in Walking
  BY <1>1, <1>2 DEF LocksOK
<1>. QED  BY <1>1, <1>3, <1>4, <1>5 DEF LocksOK

LEMMA WalkIs ==
  ASSUME SockInv, NEW t \in Threads, NEW walk \in Walking, NEW s \in {0} \cup Sockets,
         (listLock = Nobody /\ pc[t] \notin Holding) \/ pc[t] \in Walking,
         IF t = "loop" THEN walk \in LoopPlaces ELSE walk \in AppPlaces,
         WalkTo(t, walk, NextAfter(s)), UNCHANGED <<linked, lock>>
  PROVE  /\ Moves(t) /\ LocksOK' /\ ThreadOK(t)'
         /\ pc'[t] = (IF NextAfter(s) = 0 THEN "idle" ELSE walk)
         /\ at'[t] = NextAfter(s)
         /\ t \in Apps => IF NextAfter(s) = 0 THEN op'[t] = "none" /\ fd'[t] = 0
                          ELSE op'[t] = op[t] /\ fd'[t] = fd[t]
         /\ listLock' \in Threads \cup {Nobody}
         /\ lock' \in [Sockets -> Threads \cup {Nobody}]
         /\ \A u \in Threads \ {t} : /\ pc[u] \notin Walking
                                     /\ pc[u] \in Holding => lock'[at[u]] = lock[at[u]]
<1>. DEFINE n == NextAfter(s)  w == IF n = 0 THEN "idle" ELSE walk
<1>0. /\ SockTypes /\ PlacesOK /\ LocksOK /\ linked \subseteq Sockets /\ MaxSocket \in Nat
      /\ listLock = Nobody \/ listLock = t
      /\ pc[t] \notin Holding
  BY TableAssumption, ThreadNames DEF SockInv, SockTypes, Walking, ThreadOK, Holding
<1>1. n # 0 => n \in linked
  BY <1>0, NextIs
<1>2. Goto(t, w, n) /\ n \in {0} \cup Sockets
      /\ listLock' = IF n = 0 THEN Nobody ELSE t
  BY <1>0, <1>1 DEF WalkTo
<1>3. IF t = "loop" THEN w \in LoopPlaces ELSE w \in AppPlaces
  BY DEF LoopPlaces, AppPlaces
<1>. HIDE DEF w, n
<1>4. /\ Moves(t) /\ pc'[t] = w /\ at'[t] = n
      /\ t \in Apps => IF w = "idle" THEN op'[t] = "none" /\ fd'[t] = 0
                       ELSE op'[t] = op[t] /\ fd'[t] = fd[t]
  BY <1>0, <1>2, <1>3, GotoMoves
<1>5. \A u \in Threads \ {t} : pc[u] \notin Walking /\ pc'[u] = pc[u] /\ at'[u] = at[u]
  BY <1>0, <1>4, Exclusive, ThreadNames DEF Moves
<1>6. ASSUME "connectBad" \notin Ops, NEW r \in Sockets, lock'[r] # Nobody
      PROVE  pc'[lock'[r]] \in Holding /\ at'[lock'[r]] = r
  <2>1. /\ lock' = lock /\ lock[r] \in Threads /\ pc[lock[r]] \in Holding
        /\ at[lock[r]] = r
    BY <1>0, <1>6 DEF LocksOK, SockTypes
  <2>. QED  BY <1>0, <1>5, <2>1
<1>7. (w = "idle" <=> n = 0) /\ (n # 0 => w = walk)
  BY DEF w, Walking
<1>8. LocksOK'
  BY <1>2, <1>4, <1>6, <1>7, ThreadNames DEF LocksOK
<1>9. ThreadOK(t)'
  BY <1>1, <1>2, <1>4, <1>7 DEF ThreadOK, Walking, Holding, Owning, Away
<1>10. listLock' \in Threads \cup {Nobody} /\ lock' \in [Sockets -> Threads \cup {Nobody}]
  BY <1>0, <1>2 DEF SockTypes
<1>. QED  BY <1>4, <1>5, <1>7, <1>8, <1>9, <1>10 DEF n, w

LEMMA HitIs ==
  ASSUME SockInv, NEW t \in Threads, NEW w \in Holding, pc[t] \in Walking,
         lock[at[t]] = Nobody,
         IF t = "loop" THEN w \in LoopPlaces ELSE w \in AppPlaces,
         Hit(t, w), UNCHANGED <<linked, state>>
  PROVE  /\ Moves(t) /\ LocksOK' /\ ThreadOK(t)' /\ pc'[t] = w /\ at'[t] = at[t]
         /\ t \in Apps => op'[t] = op[t] /\ fd'[t] = fd[t]
         /\ listLock' \in Threads \cup {Nobody}
         /\ lock' \in [Sockets -> Threads \cup {Nobody}]
         /\ \A u \in Threads \ {t} : /\ pc[u] \notin Walking
                                     /\ pc[u] \in Holding => lock'[at[u]] = lock[at[u]]
<1>1. /\ SockTypes /\ PlacesOK /\ LocksOK /\ ThreadOK(t) /\ listLock = t
      /\ at[t] \in linked /\ at[t] \in Sockets /\ at[t] # 0 /\ Live(at[t])
  BY TableAssumption DEF SockInv, ThreadOK, SockTypes, SocketOK, Sockets
<1>2. /\ Moves(t) /\ pc'[t] = w /\ at'[t] = at[t]
      /\ t \in Apps => op'[t] = op[t] /\ fd'[t] = fd[t]
  BY <1>1, GotoMoves DEF Hit, Holding
<1>3. listLock' = Nobody /\ lock' = [lock EXCEPT ![at[t]] = t]
  BY DEF Hit
<1>4. \A u \in Threads \ {t} : /\ pc[u] \notin Walking /\ pc'[u] = pc[u] /\ at'[u] = at[u]
                               /\ pc[u] \in Holding => at[u] # at[t]
  BY <1>1, <1>2, Exclusive, ThreadNames DEF Moves
<1>5. ThreadOK(t)'
  BY <1>1, <1>2, <1>3 DEF ThreadOK, Walking, Holding, Owning, Away, Live, SockTypes
<1>6. ASSUME "connectBad" \notin Ops, NEW r \in Sockets, lock'[r] # Nobody
      PROVE  pc'[lock'[r]] \in Holding /\ at'[lock'[r]] = r
  <2>1. CASE r = at[t]
    BY <1>1, <1>2, <1>3, <2>1 DEF SockTypes
  <2>2. CASE r # at[t]
    <3>1. /\ lock'[r] = lock[r] /\ lock[r] \in Threads /\ pc[lock[r]] \in Holding
          /\ at[lock[r]] = r
      BY <1>1, <1>3, <1>6, <2>2 DEF LocksOK, SockTypes
    <3>. QED  BY <1>4, <2>2, <3>1
  <2>. QED  BY <2>1, <2>2
<1>7. LocksOK'
  BY <1>3, <1>6 DEF LocksOK
<1>8. listLock' \in Threads \cup {Nobody} /\ lock' \in [Sockets -> Threads \cup {Nobody}]
  BY <1>1, <1>3 DEF SockTypes
<1>. QED  BY <1>1, <1>2, <1>3, <1>4, <1>5, <1>7, <1>8 DEF SockTypes

\* The steps that look at nothing another thread may change under a lock.
LEMMA GoesInv ==
  ASSUME SockInv, NEW t \in Apps,
         ConnectReturn(t) \/ ConnectBad(t) \/ IoSpin(t) \/ IoCopy(t) \/ CloseSpin(t)
  PROVE  SockInv'
<1>0. /\ SockTypes /\ PlacesOK /\ t \in Threads /\ t # "loop" /\ ThreadOK(t)
      /\ at[t] \in {0} \cup Sockets
  BY ThreadNames DEF SockInv, SockTypes
<1>1. PICK w \in {"idle", "copy", "unlink"}, s \in {0, at[t]} :
        /\ Goto(t, w, s) /\ (IF w = "idle" THEN s = 0 ELSE s = at[t])
        /\ pc[t] \in Owning \/ (pc[t] = "found" /\ op[t] = "connectBad" /\ w = "idle")
  BY DEF ConnectReturn, ConnectBad, IoSpin, IoCopy, CloseSpin, Owning, Found, Visits
<1>2. UNCHANGED <<lockVars, sockVars, packet, histVars>>
  BY DEF ConnectReturn, ConnectBad, IoSpin, IoCopy, CloseSpin
<1>3. /\ Moves(t) /\ pc'[t] = w /\ at'[t] = s
      /\ IF w = "idle" THEN op'[t] = "none" /\ fd'[t] = 0
         ELSE op'[t] = op[t] /\ fd'[t] = fd[t]
  BY <1>0, <1>1, GotoMoves DEF AppPlaces, Owning
<1>4. ThreadOK(t)' /\ CallOK(t)'
  BY <1>0, <1>1, <1>2, <1>3
     DEF ThreadOK, CallOK, Walking, Holding, Owning, Away, Live, sockVars, histVars
<1>5. RoomOK'
  BY <1>0, <1>1, <1>2, <1>3, RoomKept, ThreadNames DEF SockInv, Moves, lockVars, Owning
<1>6. pc[t] \notin Walking /\ (pc[t] \in Holding => "connectBad" \in Ops)
  BY <1>0, <1>1 DEF Walking, Holding, Owning, PlacesOK
<1>. QED  BY <1>2, <1>3, <1>4, <1>5, <1>6, AppGoes

LEMMA FindInv ==
  ASSUME SockInv, NEW t \in Apps, FindBegin(t) \/ Find(t)
  PROVE  SockInv'
<1>0. /\ SockTypes /\ PlacesOK /\ t \in Threads /\ t # "loop" /\ CallOK(t)
      /\ UNCHANGED <<linked, nextFd, sockVars, packet, histVars>>
  BY ThreadNames DEF SockInv, SockTypes, FindBegin, Find
<1>1. pc[t] \in {"call", "find"}
  BY DEF FindBegin, Find, Begin, Visits
<1>2. ASSUME NEW s \in {0} \cup Sockets, WalkTo(t, "find", NextAfter(s)), lock' = lock,
             listLock = Nobody \/ pc[t] = "find"
      PROVE  SockInv'
  <2>1. /\ Moves(t) /\ LocksOK' /\ ThreadOK(t)'
        /\ pc'[t] = (IF NextAfter(s) = 0 THEN "idle" ELSE "find")
        /\ IF NextAfter(s) = 0 THEN op'[t] = "none" /\ fd'[t] = 0
           ELSE op'[t] = op[t] /\ fd'[t] = fd[t]
        /\ listLock' \in Threads \cup {Nobody}
        /\ lock' \in [Sockets -> Threads \cup {Nobody}]
        /\ \A u \in Threads \ {t} : /\ pc[u] \notin Walking
                                    /\ pc[u] \in Holding => lock'[at[u]] = lock[at[u]]
    BY <1>0, <1>1, <1>2, WalkIs DEF Walking, Holding, AppPlaces
  <2>2. CallOK(t)'
    BY <1>0, <1>1, <2>1 DEF CallOK, sockVars, histVars
  <2>3. RoomOK'
    BY <1>0, <1>1, <2>1, RoomKept, ThreadNames DEF SockInv, Moves
  <2>. QED  BY <1>0, <2>1, <2>2, <2>3, AppMoves
<1>3. CASE FindBegin(t)
  BY <1>2, <1>3 DEF FindBegin, Begin
<1>4. CASE Find(t) /\ at[t] # fd[t]
  <2>1. at[t] \in {0} \cup Sockets
    BY <1>0 DEF SockTypes
  <2>2. WalkTo(t, "find", NextAfter(at[t])) /\ lock' = lock /\ pc[t] = "find"
    BY <1>4 DEF Find, Visits
  <2>. QED  BY <1>2, <2>1, <2>2
<1>5. CASE Find(t) /\ at[t] = fd[t]
  <2>1. /\ Moves(t) /\ LocksOK' /\ ThreadOK(t)' /\ pc'[t] = "found" /\ at'[t] = at[t]
        /\ op'[t] = op[t] /\ fd'[t] = fd[t]
        /\ listLock' \in Threads \cup {Nobody}
        /\ lock' \in [Sockets -> Threads \cup {Nobody}]
        /\ \A u \in Threads \ {t} : /\ pc[u] \notin Walking
                                    /\ pc[u] \in Holding => lock'[at[u]] = lock[at[u]]
    BY <1>0, <1>5, HitIs
       DEF Find, Finds, Visits, Walking, Holding, AppPlaces, sockVars
  <2>2. CallOK(t)'
    BY <1>0, <1>1, <1>5, <2>1 DEF CallOK, sockVars, histVars
  <2>3. RoomOK'
    BY <1>0, <1>1, <2>1, RoomKept, ThreadNames DEF SockInv, Moves
  <2>. QED  BY <1>0, <2>1, <2>2, <2>3, AppMoves
<1>. QED  BY <1>3, <1>4, <1>5

\* The steps that let the socket go that the search has found and locked, and may
\* have written to it before.
LEMMA FoundInv ==
  ASSUME SockInv, NEW t \in Apps,
         \/ Bind(t) \/ Listen(t) \/ AcceptBegin(t) \/ Connect(t) \/ IoBegin(t)
         \/ CloseBegin(t)
  PROVE  SockInv'
<1>. DEFINE s == at[t]
<1>0. /\ SockTypes /\ PlacesOK /\ t \in Threads /\ t # "loop" /\ CallOK(t) /\ ThreadOK(t)
      /\ \A r \in Sockets : SocketOK(r)
      /\ s \in Sockets /\ s = fd[t] /\ Live(s) /\ lock[s] = t
      /\ pc[t] = "found"
      /\ op[t] \in {"bind", "listen", "accept", "connect", "io", "close"}
      /\ UNCHANGED <<linked, nextFd, listLock, parent, packet, histVars>>
  <2>1. pc[t] = "found"
        /\ op[t] \in {"bind", "listen", "accept", "connect", "io", "close"}
        /\ UNCHANGED <<linked, nextFd, listLock, parent, packet, histVars>>
    BY DEF Bind, Listen, AcceptBegin, Connect, IoBegin, CloseBegin, Found, sockVars
  <2>2. SockTypes /\ PlacesOK /\ t \in Threads /\ t # "loop" /\ CallOK(t) /\ ThreadOK(t)
        /\ \A r \in Sockets : SocketOK(r)
    BY ThreadNames DEF SockInv
  <2>. QED  BY <2>1, <2>2 DEF CallOK, ThreadOK, Holding, SockTypes
<1>1. PICK w \in {"idle", "accept", "connect", "spin", "closing"}, r \in {0, s} :
        /\ Goto(t, w, r) /\ lock' = [lock EXCEPT ![s] = Nobody]
        /\ r = (IF w \in {"idle", "accept"} THEN 0 ELSE s)
        /\ w \in {"connect", "spin", "closing"} <=> op[t] \in {"connect", "io", "close"}
        /\ w = "accept" <=> op[t] = "accept"
  BY <1>0 DEF Bind, Listen, AcceptBegin, Connect, IoBegin, CloseBegin, Found, Unlock
<1>2. /\ bound' \in [Sockets -> BOOLEAN]
      /\ clstate' \in [Sockets -> SUBSET {"CALL", "CLOSE"}]
      /\ \A u \in Sockets \ {s} : state'[u] = state[u] /\ peer'[u] = peer[u]
      /\ state' \in [Sockets -> {"NONE", "CLOSED", "LISTEN", "SYS_SENT", "SYS_RECV",
                                 "ESTABLISHED", "FREED"}]
      /\ peer' \in [Sockets -> SUBSET Peers]
      /\ state'[s] \in {state[s], "LISTEN", "SYS_SENT"}
      /\ state'[s] # "SYS_SENT" => peer'[s] = peer[s]
      /\ state'[s] = "LISTEN" => state[s] = "LISTEN" \/ op[t] = "listen"
      /\ peer'[s] = peer[s] \/ (peer'[s] = {s} /\ op[t] = "connect")
  <2>1. CASE Connect(t)
    BY <1>0, <2>1 DEF Connect, Found, SockTypes, Peers
  <2>2. CASE Listen(t)
    BY <1>0, <2>2 DEF Listen, Found, SockTypes
  <2>3. CASE Bind(t)
    BY <1>0, <2>3 DEF Bind, SockTypes
  <2>5. CASE CloseBegin(t)
    <3>1. /\ clstate' = [clstate EXCEPT ![s] = @ \cup {"CALL"}]
          /\ UNCHANGED <<bound, state, peer>>
      BY <2>5 DEF CloseBegin
    <3>2. clstate' \in [Sockets -> SUBSET {"CALL", "CLOSE"}]
      BY <1>0, <3>1 DEF SockTypes
    <3>. QED  BY <1>0, <3>1, <3>2 DEF SockTypes
  <2>4. CASE AcceptBegin(t) \/ IoBegin(t)
    BY <1>0, <2>4 DEF AcceptBegin, IoBegin, SockTypes, sockVars
  <2>. QED  BY <2>1, <2>2, <2>3, <2>4, <2>5
<1>3. /\ Moves(t) /\ pc'[t] = w /\ at'[t] = r
      /\ IF w = "idle" THEN op'[t] = "none" /\ fd'[t] = 0
         ELSE op'[t] = op[t] /\ fd'[t] = fd[t]
  BY <1>0, <1>1, GotoMoves DEF AppPlaces, Owning
<1>4. /\ lock' \in [Sockets -> Threads \cup {Nobody}] /\ LocksOK'
      /\ listLock' \in Threads \cup {Nobody}
      /\ \A u \in Threads \ {t} : /\ pc[u] \in Walking => listLock' = listLock
                                  /\ pc[u] \in Holding => lock'[at[u]] = lock[at[u]]
  BY <1>0, <1>1, <1>3, UnlockIs DEF Holding
<1>5. SockTypes'
  BY <1>0, <1>2, <1>3, <1>4 DEF SockTypes, Moves, histVars
<1>6. user[s] = t \/ op[t] = "accept"
  BY <1>0 DEF CallOK
<1>7. ThreadOK(t)' /\ CallOK(t)'
  BY <1>0, <1>1, <1>2, <1>3, <1>6, SocketsNat
     DEF ThreadOK, CallOK, Walking, Holding, Owning, Away, Live, histVars, Sockets
<1>8. RoomOK'
  BY <1>0, <1>1, <1>3, RoomKept, ThreadNames DEF SockInv, Moves
<1>9. ASSUME NEW u \in Sockets PROVE SocketOK(u)'
  <2>1. CASE u # s
    BY <1>0, <1>2, <2>1 DEF SocketOK, Live, histVars
  <2>2. CASE u = s
    BY <1>0, <1>2, <2>2 DEF SocketOK, Live, histVars, CallOK
  <2>. QED  BY <2>1, <2>2
<1>10. \A u \in Sockets : Live(u) => state'[u] \notin {"NONE", "FREED"}
  BY <1>0, <1>2 DEF Live
<1>11. ASSUME NEW u \in Threads \ {t}
       PROVE  /\ pc[u] \in Walking => listLock' = listLock /\ at[u] \in linked'
              /\ pc[u] \in Holding => lock'[at[u]] = lock[at[u]] /\ Live(at[u])'
              /\ pc[u] \in Owning => user'[at[u]] = user[at[u]] /\ Live(at[u])'
              /\ pc[u] = "free" => at[u] \notin linked'
  <2>1. ThreadOK(u) /\ at'[u] = at[u] /\ at[u] \in {0} \cup Sockets
    BY <1>0, <1>3 DEF SockInv, Moves, SockTypes
  <2>. QED  BY <1>0, <1>4, <1>10, <2>1 DEF ThreadOK, Live, histVars
<1>12. ASSUME NEW u \in Apps \ {t}, pc[u] \in {"call", "find", "found"}
       PROVE  /\ user[fd[u]] = u => user'[fd[u]] = u
              /\ op[u] = "listen" => peer'[fd[u]] = {}
  <2>1. CallOK(u) /\ fd[u] \in {0} \cup Sockets
    BY <1>0 DEF SockInv, SockTypes
  <2>2. op[u] = "listen" => fd[u] # s \/ peer'[s] = peer[s]
    BY <1>0, <1>6, <1>12, <2>1, <1>2 DEF CallOK
  <2>. QED  BY <1>0, <1>2, <1>12, <2>1, <2>2 DEF CallOK, histVars
<1>13. \A u \in linked' :
         peer'[u] = {} \/ (u \in linked /\ peer'[u] \cap Callers \subseteq peer[u])
  <2>1. s \notin Callers
    BY <1>0, TableAssumption DEF Sockets
  <2>2. \A u \in Sockets : peer'[u] \cap Callers \subseteq peer[u]
    BY <1>2, <2>1
  <2>. QED  BY <1>0, <2>2 DEF SockTypes
<1>14. pc["loop"] \in {"handle", "child"} => state'[at["loop"]] = state[at["loop"]]
  <2>1. pc["loop"] \in {"handle", "child"} => at["loop"] # s /\ at["loop"] \in Sockets
    BY <1>0, Exclusive, ThreadNames DEF Holding
  <2>. QED  BY <1>2, <2>1
<1>. HIDE DEF s
<1>. QED  BY <1>0, <1>3, <1>4, <1>5, <1>7, <1>8, <1>9, <1>11, <1>12, <1>13, <1>14, AppInv

\* A new socket: nobody knows it yet.
LEMMA SocketInv ==
  ASSUME SockInv, NEW t \in Apps, Socket(t)
  PROVE  SockInv'
<1>. DEFINE s == nextFd
<1>0. /\ SockTypes /\ PlacesOK /\ LocksOK /\ RoomOK /\ PacketOK /\ t \in Threads /\ t # "loop"
      /\ \A r \in Sockets : SocketOK(r)
      /\ pc[t] = "socket" /\ listLock = Nobody /\ MaxSocket \in Nat
  BY ThreadNames, TableAssumption DEF SockInv, Socket
<1>1. /\ linked' = linked \cup {s} /\ nextFd' = s + 1
      /\ state' = [state EXCEPT ![s] = "CLOSED"] /\ user' = [user EXCEPT ![s] = t]
      /\ UNCHANGED <<listLock, lock, bound, peer, parent, clstate, packet, accepted>>
      /\ Goto(t, "idle", 0)
  BY DEF Socket
<1>2. /\ Moves(t) /\ pc'[t] = "idle" /\ at'[t] = 0 /\ op'[t] = "none" /\ fd'[t] = 0
  BY <1>0, <1>1, GotoMoves DEF AppPlaces
<1>3. /\ Due \in Nat /\ Due >= 1 /\ Due' = Due - 1
  <2>1. {u \in Apps : pc'[u] = "socket"} = {u \in Apps : pc[u] = "socket"} \ {t}
        /\ t \in {u \in Apps : pc[u] = "socket"}
    BY <1>0, <1>2, ThreadNames DEF Moves
  <2>2. IsFiniteSet({u \in Apps : pc[u] = "socket"})
    BY TableAssumption, FS_Subset
  <2>3. /\ Cardinality({u \in Apps : pc'[u] = "socket"})
             = Cardinality({u \in Apps : pc[u] = "socket"}) - 1
        /\ Cardinality({u \in Apps : pc[u] = "socket"}) \in Nat \ {0}
    BY <2>1, <2>2, FS_RemoveElement, FS_EmptySet, FS_CardinalityType
  <2>4. Cardinality({p \in packet : p.from \in Callers /\ "SYN" \in p.ctrl}) \in Nat
    BY <1>0, PacketFinite, FS_CardinalityType
  <2>. QED  BY <1>1, <2>3, <2>4 DEF Due
<1>4. s \in Sockets /\ s + 1 \in 1 .. MaxSocket + 1
  BY <1>0, <1>3 DEF RoomOK, SockTypes, Sockets
<1>5. RoomOK'
  BY <1>0, <1>1, <1>3, <1>4 DEF RoomOK, Sockets
<1>6. /\ state[s] = "NONE" /\ user[s] = Nobody /\ accepted[s] = 0 /\ parent[s] = 0
      /\ peer[s] = {} /\ s \notin linked
  BY <1>0, <1>4 DEF SocketOK, Live, Sockets
<1>7. SockTypes'
  BY <1>0, <1>1, <1>2, <1>4 DEF SockTypes, Moves
<1>8. LocksOK'
  <2>1. \A u \in Threads \ {t} : pc'[u] = pc[u] /\ at'[u] = at[u]
    BY <1>2 DEF Moves
  <2>2. ASSUME "connectBad" \notin Ops, NEW r \in Sockets, lock[r] # Nobody
        PROVE  pc'[lock[r]] \in Holding /\ at'[lock[r]] = r
    BY <1>0, <2>1, <2>2 DEF LocksOK, SockTypes, Holding
  <2>. QED  BY <1>0, <1>1, <2>2 DEF LocksOK
<1>9. ThreadOK(t)' /\ CallOK(t)'
  BY <1>2 DEF ThreadOK, CallOK, Walking, Holding, Owning
<1>10. ASSUME NEW r \in Sockets PROVE SocketOK(r)'
  <2>1. CASE r = s
    BY <1>0, <1>1, <1>4, <1>6, <2>1 DEF SocketOK, Live, SockTypes, Sockets
  <2>2. CASE r # s
    <3>1. r >= nextFd' <=> r >= nextFd
      BY <1>1, <1>4, <2>2 DEF Sockets
    <3>. QED  BY <1>0, <1>1, <2>2, <3>1 DEF SocketOK, Live, SockTypes
  <2>. QED  BY <2>1, <2>2
<1>11. ASSUME NEW u \in Threads \ {t}
       PROVE  /\ pc[u] \in Walking => listLock' = listLock /\ at[u] \in linked'
              /\ pc[u] \in Holding => lock'[at[u]] = lock[at[u]] /\ Live(at[u])'
              /\ pc[u] \in Owning => user'[at[u]] = user[at[u]] /\ Live(at[u])'
              /\ pc[u] = "free" => at[u] \notin linked'
  <2>1. ThreadOK(u) /\ at'[u] = at[u] /\ at[u] \in {0} \cup Sockets
    BY <1>0, <1>2 DEF SockInv, Moves, SockTypes
  <2>2. Live(at[u]) => at[u] # s
    BY <1>6 DEF Live
  <2>3. pc[u] = "free" => pc[u] \in Owning
    BY DEF Owning
  <2>. QED  BY <1>0, <1>1, <1>4, <2>1, <2>2, <2>3 DEF ThreadOK, Live, SockTypes, Holding, Owning
<1>12. ASSUME NEW u \in Apps \ {t}, pc[u] \in {"call", "find", "found"}
       PROVE  /\ user[fd[u]] = u => user'[fd[u]] = u
              /\ op[u] = "listen" => peer'[fd[u]] = {}
  <2>1. CallOK(u) /\ fd[u] \in {0} \cup Sockets /\ u # Nobody
    BY <1>0, ThreadNames DEF SockInv, SockTypes
  <2>2. user[fd[u]] = u => fd[u] # s
    BY <1>6, <2>1
  <2>. QED  BY <1>0, <1>1, <1>12, <2>1, <2>2 DEF CallOK, SockTypes
<1>13. \A u \in linked' :
         peer'[u] = {} \/ (u \in linked /\ peer'[u] \cap Callers \subseteq peer[u])
  BY <1>1, <1>6
<1>14. pc["loop"] \in {"handle", "child"} => state'[at["loop"]] = state[at["loop"]]
  <2>1. pc["loop"] \in {"handle", "child"} => Live(at["loop"])
    BY ThreadNames DEF SockInv, ThreadOK, Holding
  <2>. QED  BY <1>0, <1>1, <1>6, <2>1 DEF Live, SockTypes
<1>. HIDE DEF s
<1>. QED  BY <1>1, <1>2, <1>5, <1>7, <1>8, <1>9, <1>10, <1>11, <1>12, <1>13, <1>14, AppInv

\* accept() takes over a child that was nobody's.
LEMMA AcceptInv ==
  ASSUME SockInv, NEW t \in Apps, Accept(t)
  PROVE  SockInv'
<1>0. /\ SockTypes /\ PlacesOK /\ LocksOK /\ t \in Threads /\ t # "loop" /\ CallOK(t)
      /\ \A r \in Sockets : SocketOK(r)
      /\ pc[t] = "accept" /\ fd[t] # 0
      /\ UNCHANGED <<lockVars, state, bound, peer, clstate, packet>>
      /\ Goto(t, "idle", 0)
  BY ThreadNames DEF SockInv, Accept, CallOK
<1>1. PICK s \in linked : /\ parent[s] = fd[t]
                          /\ parent' = [parent EXCEPT ![s] = 0]
                          /\ accepted' = [accepted EXCEPT ![s] = @ + 1]
                          /\ user' = [user EXCEPT ![s] = t]
  BY DEF Accept, ParentTaken
<1>2. s \in Sockets /\ user[s] = Nobody /\ accepted[s] = 0 /\ Live(s)
  BY <1>0, <1>1 DEF SocketOK, SockTypes
<1>3. /\ Moves(t) /\ pc'[t] = "idle" /\ at'[t] = 0 /\ op'[t] = "none" /\ fd'[t] = 0
  BY <1>0, GotoMoves DEF AppPlaces
<1>4. SockTypes'
  BY <1>0, <1>1, <1>2, <1>3 DEF SockTypes, Moves, lockVars
<1>5. LocksOK'
  <2>1. \A u \in Threads \ {t} : pc'[u] = pc[u] /\ at'[u] = at[u]
    BY <1>3 DEF Moves
  <2>2. ASSUME "connectBad" \notin Ops, NEW r \in Sockets, lock[r] # Nobody
        PROVE  pc'[lock[r]] \in Holding /\ at'[lock[r]] = r
    BY <1>0, <2>1, <2>2 DEF LocksOK, SockTypes, Holding
  <2>3. listLock # Nobody => pc'[listLock] \in Walking
    BY <1>0, <2>1 DEF LocksOK, SockTypes, Walking
  <2>. QED  BY <1>0, <2>2, <2>3 DEF LocksOK, lockVars
<1>6. RoomOK'
  BY <1>0, <1>3, RoomKept, ThreadNames DEF SockInv, Moves, lockVars
<1>7. ThreadOK(t)' /\ CallOK(t)'
  BY <1>3 DEF ThreadOK, CallOK, Walking, Holding, Owning
<1>8. ASSUME NEW r \in Sockets PROVE SocketOK(r)'
  <2>1. CASE r = s
    BY <1>0, <1>1, <1>2, <2>1 DEF SocketOK, Live, SockTypes, lockVars
  <2>2. CASE r # s
    BY <1>0, <1>1, <1>2, <2>2 DEF SocketOK, Live, SockTypes, lockVars
  <2>. QED  BY <2>1, <2>2
<1>9. ASSUME NEW u \in Threads \ {t}
      PROVE  /\ pc[u] \in Walking => listLock' = listLock /\ at[u] \in linked'
             /\ pc[u] \in Holding => lock'[at[u]] = lock[at[u]] /\ Live(at[u])'
             /\ pc[u] \in Owning => user'[at[u]] = user[at[u]] /\ Live(at[u])'
             /\ pc[u] = "free" => at[u] \notin linked'
  <2>1. ThreadOK(u) /\ at'[u] = at[u] /\ at[u] \in {0} \cup Sockets /\ u # Nobody
    BY <1>0, <1>3, ThreadNames DEF SockInv, Moves, SockTypes
  <2>2. pc[u] \in Owning => at[u] # s
    BY <1>2, <2>1 DEF ThreadOK
  <2>. QED  BY <1>0, <1>1, <2>1, <2>2 DEF ThreadOK, Live, SockTypes, lockVars
<1>10. ASSUME NEW u \in Apps \ {t}, pc[u] \in {"call", "find", "found"}
       PROVE  /\ user[fd[u]] = u => user'[fd[u]] = u
              /\ op[u] = "listen" => peer'[fd[u]] = {}
  <2>1. CallOK(u) /\ fd[u] \in {0} \cup Sockets /\ u # Nobody
    BY <1>0, ThreadNames DEF SockInv, SockTypes
  <2>. QED  BY <1>0, <1>1, <1>2, <1>10, <2>1 DEF CallOK, SockTypes
<1>. QED  BY <1>0, <1>3, <1>4, <1>5, <1>6, <1>7, <1>8, <1>9, <1>10, AppInv DEF lockVars

\* A socket is taken from the list when nobody walks over it, and it is freed
\* when it is in nobody's hands.
LEMMA FreeUnlinkInv ==
  ASSUME SockInv, NEW t \in Apps, FreeUnlink(t)
  PROVE  SockInv'
<1>. DEFINE s == at[t]
<1>0. /\ SockTypes /\ PlacesOK /\ LocksOK /\ t \in Threads /\ t # "loop" /\ ThreadOK(t)
      /\ \A r \in Sockets : SocketOK(r)
      /\ pc[t] = "unlink" /\ listLock = Nobody /\ linked' = linked \ {s}
      /\ s \in {0} \cup Sockets
      /\ UNCHANGED <<nextFd, listLock, lock, sockVars, packet, histVars>>
      /\ Goto(t, "free", s)
  BY ThreadNames DEF SockInv, FreeUnlink, Unlinked, SockTypes
<1>1. /\ Moves(t) /\ pc'[t] = "free" /\ at'[t] = s /\ op'[t] = op[t] /\ fd'[t] = fd[t]
  BY <1>0, GotoMoves DEF AppPlaces, Owning
<1>2. SockTypes'
  BY <1>0, <1>1 DEF SockTypes, Moves, sockVars, histVars
<1>3. LocksOK'
  <2>1. \A u \in Threads \ {t} : pc'[u] = pc[u] /\ at'[u] = at[u]
    BY <1>1 DEF Moves
  <2>2. ASSUME "connectBad" \notin Ops, NEW r \in Sockets, lock[r] # Nobody
        PROVE  pc'[lock[r]] \in Holding /\ at'[lock[r]] = r
    BY <1>0, <2>1, <2>2 DEF LocksOK, SockTypes, Holding
  <2>. QED  BY <1>0, <2>2 DEF LocksOK
<1>4. RoomOK'
  BY <1>0, <1>1, RoomKept, ThreadNames DEF SockInv, Moves
<1>5. ThreadOK(t)' /\ CallOK(t)'
  BY <1>0, <1>1 DEF ThreadOK, CallOK, Walking, Holding, Owning, Away, Live, sockVars, histVars
<1>6. \A r \in Sockets : SocketOK(r)'
  BY <1>0 DEF SocketOK, Live, sockVars, histVars
<1>7. ASSUME NEW u \in Threads \ {t}
      PROVE  /\ pc[u] \in Walking => listLock' = listLock /\ at[u] \in linked'
             /\ pc[u] \in Holding => lock'[at[u]] = lock[at[u]] /\ Live(at[u])'
             /\ pc[u] \in Owning => user'[at[u]] = user[at[u]] /\ Live(at[u])'
             /\ pc[u] = "free" => at[u] \notin linked'
  <2>1. ThreadOK(u) /\ at'[u] = at[u] /\ pc[u] \notin Walking
    BY <1>0, <1>1, Exclusive, ThreadNames DEF SockInv, Moves
  <2>. QED  BY <1>0, <2>1 DEF ThreadOK, Live, sockVars, histVars
<1>8. ASSUME NEW u \in Apps \ {t}, pc[u] \in {"call", "find", "found"}
      PROVE  /\ user[fd[u]] = u => user'[fd[u]] = u
             /\ op[u] = "listen" => peer'[fd[u]] = {}
  BY <1>0, <1>8 DEF SockInv, CallOK, sockVars, histVars
<1>. HIDE DEF s
<1>. QED  BY <1>0, <1>1, <1>2, <1>3, <1>4, <1>5, <1>6, <1>7, <1>8, AppInv
          DEF sockVars, histVars

LEMMA FreeInv ==
  ASSUME SockInv, NEW t \in Apps, Free(t)
  PROVE  SockInv'
<1>. DEFINE s == at[t]
<1>0. /\ SockTypes /\ PlacesOK /\ LocksOK /\ t \in Threads /\ t # "loop" /\ ThreadOK(t)
      /\ \A r \in Sockets : SocketOK(r)
      /\ pc[t] = "free" /\ lock[s] = Nobody
      /\ s \in Sockets /\ s \notin linked /\ user[s] = t /\ Live(s)
  BY ThreadNames DEF SockInv, Free, FreeEnters, Visits, SockTypes, ThreadOK, Owning
<1>1. /\ state' = [state EXCEPT ![s] = "FREED"]
      /\ bound' = [bound EXCEPT ![s] = FALSE]
      /\ peer' = [peer EXCEPT ![s] = {}]
      /\ parent' = [parent EXCEPT ![s] = 0]
      /\ clstate' = [clstate EXCEPT ![s] = {}]
      /\ UNCHANGED <<linked, nextFd, listLock, lock, packet, user, accepted>>
      /\ Goto(t, "idle", 0)
  BY DEF Free, lockVars, histVars
<1>2. /\ Moves(t) /\ pc'[t] = "idle" /\ at'[t] = 0 /\ op'[t] = "none" /\ fd'[t] = 0
  BY <1>0, <1>1, GotoMoves DEF AppPlaces
<1>3. SockTypes'
  BY <1>0, <1>1, <1>2 DEF SockTypes, Moves
<1>4. LocksOK'
  <2>1. \A u \in Threads \ {t} : pc'[u] = pc[u] /\ at'[u] = at[u]
    BY <1>2 DEF Moves
  <2>2. ASSUME "connectBad" \notin Ops, NEW r \in Sockets, lock[r] # Nobody
        PROVE  pc'[lock[r]] \in Holding /\ at'[lock[r]] = r
    BY <1>0, <2>1, <2>2 DEF LocksOK, SockTypes, Holding
  <2>3. listLock # Nobody => pc'[listLock] \in Walking
    BY <1>0, <2>1 DEF LocksOK, SockTypes, Walking
  <2>. QED  BY <1>1, <2>2, <2>3 DEF LocksOK
<1>5. RoomOK'
  BY <1>0, <1>1, <1>2, RoomKept, ThreadNames DEF SockInv, Moves
<1>6. ThreadOK(t)' /\ CallOK(t)'
  BY <1>2 DEF ThreadOK, CallOK, Walking, Holding, Owning
<1>7. ASSUME NEW r \in Sockets PROVE SocketOK(r)'
  <2>1. CASE r = s
    BY <1>0, <1>1, <2>1 DEF SocketOK, Live, SockTypes
  <2>2. CASE r # s
    BY <1>0, <1>1, <2>2 DEF SocketOK, Live, SockTypes
  <2>. QED  BY <2>1, <2>2
<1>8. ASSUME NEW u \in Threads \ {t}, pc[u] \in Walking \cup Holding \cup Owning
      PROVE  at[u] # s
  BY <1>0, <1>8, Exclusive, ThreadNames
<1>9. ASSUME NEW u \in Threads \ {t}
      PROVE  /\ pc[u] \in Walking => listLock' = listLock /\ at[u] \in linked'
             /\ pc[u] \in Holding => lock'[at[u]] = lock[at[u]] /\ Live(at[u])'
             /\ pc[u] \in Owning => user'[at[u]] = user[at[u]] /\ Live(at[u])'
             /\ pc[u] = "free" => at[u] \notin linked'
  <2>1. ThreadOK(u) /\ at'[u] = at[u]
    BY <1>0, <1>2 DEF SockInv, Moves
  <2>. QED  BY <1>0, <1>1, <1>8, <2>1 DEF ThreadOK, Live, SockTypes
<1>10. ASSUME NEW u \in Apps \ {t}, pc[u] \in {"call", "find", "found"}
       PROVE  /\ user[fd[u]] = u => user'[fd[u]] = u
              /\ op[u] = "listen" => peer'[fd[u]] = {}
  <2>1. CallOK(u) /\ fd[u] \in {0} \cup Sockets
    BY <1>0 DEF SockInv, SockTypes
  <2>. QED  BY <1>0, <1>1, <1>10, <2>1 DEF CallOK, SockTypes
<1>11. \A u \in linked' :
         peer'[u] = {} \/ (u \in linked /\ peer'[u] \cap Callers \subseteq peer[u])
  BY <1>0, <1>1 DEF SockTypes
<1>12. pc["loop"] \in {"handle", "child"} => state'[at["loop"]] = state[at["loop"]]
  BY <1>0, <1>1, <1>8, ThreadNames DEF Holding, SockTypes
<1>. HIDE DEF s
<1>. QED  BY <1>1, <1>2, <1>3, <1>4, <1>5, <1>6, <1>7, <1>9, <1>10, <1>11, <1>12, AppInv

-----------------------------------------------------------------------------
\* The steps of the loop thread.

LEMMA LoopInv ==
  ASSUME SockInv, Moves("loop"), SockTypes', LocksOK', RoomOK', PacketOK',
         ThreadOK("loop")', \A s \in Sockets : SocketOK(s)',
         \A u \in Threads \ {"loop"} :
           /\ pc[u] \in Walking => listLock' = listLock /\ at[u] \in linked'
           /\ pc[u] \in Holding => lock'[at[u]] = lock[at[u]] /\ Live(at[u])'
           /\ pc[u] \in Owning => user'[at[u]] = user[at[u]] /\ Live(at[u])'
           /\ pc[u] = "free" => at[u] \notin linked',
         \A u \in Apps : pc[u] \in {"call", "find", "found"} =>
           /\ user[fd[u]] = u => user'[fd[u]] = u
           /\ op[u] = "listen" => peer'[fd[u]] = {}
  PROVE  SockInv'
<1>1. \A u \in Threads : ThreadOK(u)'
  BY OthersThreads, ThreadNames
<1>2. \A u \in Apps : CallOK(u)'
  BY OthersCalls, ThreadNames
<1>3. PlacesOK'
  BY ThreadNames DEF SockInv, PlacesOK, Moves
<1>. QED  BY <1>1, <1>2, <1>3 DEF SockInv

LEMMA RoomLess ==
  ASSUME SockInv, Moves("loop"), UNCHANGED nextFd, packet' \in {packet, {}}
  PROVE  RoomOK'
<1>. DEFINE S == {p \in packet : p.from \in Callers /\ "SYN" \in p.ctrl}
            T == {u \in Apps : pc[u] = "socket"}
<1>1. T = {u \in Apps : pc'[u] = "socket"}
  BY ThreadNames DEF Moves
<1>2. Cardinality(S) \in Nat /\ Cardinality({}) = 0
  BY PacketFinite, FS_EmptySet DEF SockInv
<1>3. Cardinality(T) \in Nat
  BY TableAssumption, FS_Subset, FS_CardinalityType
<1>4. Cardinality(S)' \in {Cardinality(S), 0}
  BY <1>2
<1>5. nextFd \in Nat /\ MaxSocket \in Nat /\ nextFd + (Cardinality(T) + Cardinality(S)) <= MaxSocket + 1
  BY TableAssumption DEF SockInv, SockTypes, RoomOK, Due
<1>. HIDE DEF S, T
<1>6. nextFd + (Cardinality(T) + Cardinality(S)') <= MaxSocket + 1
  BY <1>2, <1>3, <1>4, <1>5
<1>. USE DEF S, T
<1>. QED  BY <1>1, <1>6 DEF RoomOK, Due

\* Steps of a walk that change no socket.
LEMMA LoopMoves ==
  ASSUME SockInv, Moves("loop"), UNCHANGED <<linked, nextFd, sockVars, histVars>>,
         packet' \in {packet, {}},
         listLock' \in Threads \cup {Nobody},
         lock' \in [Sockets -> Threads \cup {Nobody}],
         \A u \in Threads \ {"loop"} :
           /\ pc[u] \in Walking => listLock' = listLock
           /\ pc[u] \in Holding => lock'[at[u]] = lock[at[u]],
         LocksOK', PacketOK', ThreadOK("loop")'
  PROVE  SockInv'
<1>1. SockTypes'
  BY DEF SockInv, SockTypes, Moves, sockVars, histVars
<1>2. \A s \in Sockets : SocketOK(s)'
  BY DEF SockInv, SocketOK, Live, sockVars, histVars
<1>3. \A u \in Threads \ {"loop"} :
           /\ pc[u] \in Walking => listLock' = listLock /\ at[u] \in linked'
           /\ pc[u] \in Holding => lock'[at[u]] = lock[at[u]] /\ Live(at[u])'
           /\ pc[u] \in Owning => user'[at[u]] = user[at[u]] /\ Live(at[u])'
           /\ pc[u] = "free" => at[u] \notin linked'
  <2>. TAKE u \in Threads \ {"loop"}
  <2>1. /\ ThreadOK(u) /\ at'[u] = at[u]
        /\ state' = state /\ user' = user /\ linked' = linked
    BY DEF SockInv, Moves, sockVars, histVars
  <2>2. /\ pc[u] \in Walking => listLock' = listLock
        /\ pc[u] \in Holding => lock'[at[u]] = lock[at[u]]
    OBVIOUS
  <2>3. Live(at[u]) => Live(at[u])'
    BY <2>1 DEF Live
  <2>. QED  BY <2>1, <2>2, <2>3 DEF ThreadOK
<1>4. \A u \in Apps : pc[u] \in {"call", "find", "found"} =>
           /\ user[fd[u]] = u => user'[fd[u]] = u
           /\ op[u] = "listen" => peer'[fd[u]] = {}
  BY DEF SockInv, CallOK, sockVars, histVars
<1>5. RoomOK'
  BY RoomLess
<1>. QED  BY <1>1, <1>2, <1>3, <1>4, <1>5, LoopInv, ThreadNames

\* asyncSendTCPPacket.
LEMMA AsyncInv ==
  ASSUME SockInv, AsyncBegin \/ Async
  PROVE  SockInv'
<1>. DEFINE s == IF pc["loop"] = "idle" THEN 0 ELSE at["loop"]
<1>1. /\ WalkTo("loop", "async", NextAfter(s)) /\ s \in {0} \cup Sockets
      /\ (listLock = Nobody /\ pc["loop"] = "idle") \/ pc["loop"] = "async"
      /\ UNCHANGED <<linked, nextFd, lock, sockVars, packet, histVars>>
  BY ThreadNames DEF AsyncBegin, Async, Begin, Visits, SockInv, SockTypes
<1>. HIDE DEF s
<1>2. /\ Moves("loop") /\ LocksOK' /\ ThreadOK("loop")'
      /\ pc'["loop"] = (IF NextAfter(s) = 0 THEN "idle" ELSE "async")
      /\ listLock' \in Threads \cup {Nobody}
      /\ lock' \in [Sockets -> Threads \cup {Nobody}]
      /\ \A u \in Threads \ {"loop"} :
           /\ pc[u] \notin Walking
           /\ pc[u] \in Holding => lock'[at[u]] = lock[at[u]]
  BY <1>1, WalkIs, ThreadNames DEF Walking, Holding, LoopPlaces
<1>3. PacketOK'
  BY <1>1, <1>2 DEF SockInv, PacketOK
<1>. QED  BY <1>1, <1>2, <1>3, LoopMoves

\* The search for the packet's socket: the walk has seen all that is before it.
LEMMA MatchInv ==
  ASSUME SockInv, MatchBegin \/ Match \/ MatchListener
  PROVE  SockInv'
<1>0. /\ SockTypes /\ PlacesOK /\ PacketOK /\ "loop" \in Threads /\ "loop" \notin Apps
      /\ \A r \in Sockets : SocketOK(r)
      /\ UNCHANGED <<linked, nextFd, sockVars, histVars>>
      /\ linked \in SUBSET Sockets /\ MaxSocket \in Nat
  BY ThreadNames, TableAssumption DEF SockInv, SockTypes, MatchBegin, Match, MatchListener
<1>1. ASSUME NEW s \in {0} \cup Sockets, NEW walk \in {"match", "listener"},
             WalkTo("loop", walk, NextAfter(s)), lock' = lock,
             (listLock = Nobody /\ pc["loop"] = "packet") \/ pc["loop"] \in Walking,
             packet' = (IF NextAfter(s) = 0 THEN {} ELSE packet), packet # {},
             walk = "match" => \A r \in linked : r <= s => Fresh(r),
             walk = "listener" => \A r \in linked : Fresh(r)
      PROVE  SockInv'
  <2>1. /\ Moves("loop") /\ LocksOK' /\ ThreadOK("loop")'
        /\ pc'["loop"] = (IF NextAfter(s) = 0 THEN "idle" ELSE walk)
        /\ at'["loop"] = NextAfter(s)
        /\ listLock' \in Threads \cup {Nobody}
        /\ lock' \in [Sockets -> Threads \cup {Nobody}]
        /\ \A u \in Threads \ {"loop"} :
             /\ pc[u] \notin Walking
             /\ pc[u] \in Holding => lock'[at[u]] = lock[at[u]]
    BY <1>0, <1>1, WalkIs DEF Walking, Holding, LoopPlaces
  <2>2. CASE NextAfter(s) = 0
    <3>1. PacketOK'
      BY <1>1, <2>1, <2>2 DEF PacketOK
    <3>. QED  BY <1>0, <1>1, <2>1, <2>2, <3>1, LoopMoves
  <2>3. CASE NextAfter(s) # 0
    <3>1. \A r \in linked : r < NextAfter(s) => r <= s
      <4>1. /\ NextAfter(s) \in linked /\ s \in Nat /\ linked \subseteq Nat
            /\ \A r \in linked : r > s => NextAfter(s) <= r
        BY <1>0, <2>3, NextIs, SocketsNat
      <4>2. NextAfter(s) \in Nat
        BY <4>1
      <4>3. ASSUME NEW r \in linked, r < NextAfter(s) PROVE ~ (r > s)
        BY <4>1, <4>2, <4>3
      <4>. QED  BY <4>1, <4>3
    <3>2. packet' = packet /\ \A r : Fresh(r) => Fresh(r)'
      BY <1>0, <1>1, <2>3 DEF Fresh, sockVars
    <3>3. walk = "match" => \A r \in linked' : r < at'["loop"] => Fresh(r)'
      BY <1>0, <1>1, <2>1, <3>1, <3>2
    <3>4. walk = "listener" => \A r \in linked' : Fresh(r)'
      BY <1>0, <1>1, <3>2
    <3>5. pc'["loop"] = walk
      BY <2>1, <2>3
    <3>6. PacketOK'
      BY <1>0, <1>1, <3>2, <3>3, <3>4, <3>5 DEF PacketOK
    <3>. QED  BY <1>0, <2>1, <3>2, <3>6, LoopMoves
  <2>. QED  BY <2>2, <2>3
<1>2. ASSUME Hit("loop", "handle"), pc["loop"] \in Walking, packet # {}, packet' = packet,
             lock[at["loop"]] = Nobody,
             state[at["loop"]] = "LISTEN" => /\ \A r \in linked : Fresh(r)
                                             /\ \A p \in packet : p.from \in Callers
      PROVE  SockInv'
  <2>1. state' = state /\ linked' = linked
    BY <1>0 DEF sockVars
  <2>2. /\ Moves("loop") /\ LocksOK' /\ ThreadOK("loop")'
        /\ pc'["loop"] = "handle" /\ at'["loop"] = at["loop"]
        /\ listLock' \in Threads \cup {Nobody}
        /\ lock' \in [Sockets -> Threads \cup {Nobody}]
        /\ \A u \in Threads \ {"loop"} :
             /\ pc[u] \notin Walking
             /\ pc[u] \in Holding => lock'[at[u]] = lock[at[u]]
    BY <1>0, <1>2, <2>1, HitIs DEF Holding, LoopPlaces
  <2>3. \A r : Fresh(r) => Fresh(r)'
    BY <1>0, <1>2 DEF Fresh, sockVars
  <2>4. state'[at'["loop"]] = "LISTEN" => /\ \A r \in linked' : Fresh(r)'
                                          /\ \A p \in packet' : p.from \in Callers
    BY <1>2, <2>1, <2>2, <2>3
  <2>5. PacketOK'
    BY <1>0, <1>2, <2>2, <2>4 DEF PacketOK
  <2>. QED  BY <1>0, <1>2, <2>2, <2>5, LoopMoves
<1>3. CASE MatchBegin
  <2>1. /\ WalkTo("loop", "match", NextAfter(0)) /\ lock' = lock /\ listLock = Nobody
        /\ pc["loop"] = "packet" /\ PacketAfter
    BY <1>3 DEF MatchBegin, Begin
  <2>2. packet # {}
    BY <1>0, <2>1 DEF PacketOK
  <2>3. \A r \in linked : ~ (r <= 0)
    BY <1>0 DEF Sockets
  <2>4. pc'["loop"] = (IF NextAfter(0) = 0 THEN "idle" ELSE "match")
    BY <1>0, <2>1 DEF WalkTo, Goto, PlacesOK
  <2>5. packet' = (IF NextAfter(0) = 0 THEN {} ELSE packet)
    BY <2>1, <2>4 DEF PacketAfter
  <2>. QED  BY <1>1, <2>1, <2>2, <2>3, <2>5
<1>4. CASE Match
  <2>. DEFINE s == at["loop"]
  <2>1. /\ pc["loop"] = "match" /\ lock[s] = Nobody /\ packet' = packet /\ packet # {}
        /\ s \in linked /\ s \in Sockets
        /\ \A r \in linked : r < s => Fresh(r)
    BY <1>0, <1>4, Exclusive DEF Match, Visits, PacketOK, Walking
  <2>2. CASE \E p \in packet : SamePeer(s, p)
    <3>1. Hit("loop", "handle")
      BY <1>4, <2>2 DEF Match
    <3>2. state[s] # "LISTEN"
      BY <1>0, <2>1, <2>2 DEF SocketOK, SamePeer
    <3>. QED  BY <1>2, <2>1, <3>1, <3>2 DEF Walking
  <2>3. CASE ~ \E p \in packet : SamePeer(s, p)
    <3>1. \A r \in linked : r <= s => Fresh(r)
      <4>1. Fresh(s)
        BY <2>3 DEF Fresh, SamePeer
      <4>2. \A r \in linked : r <= s => r < s \/ r = s
        <5>1. s \in Nat /\ linked \subseteq Nat
          BY <1>0, <2>1, SocketsNat
        <5>. HIDE DEF s
        <5>. QED  BY <5>1
      <4>. QED  BY <2>1, <4>1, <4>2
    <3>2. CASE NextAfter(s) # 0
      <4>1. WalkTo("loop", "match", NextAfter(s)) /\ lock' = lock
        BY <1>4, <2>3, <3>2 DEF Match
      <4>. QED  BY <1>1, <2>1, <3>1, <3>2, <4>1 DEF Walking
    <3>3. CASE NextAfter(s) = 0
      <4>1. WalkTo("loop", "listener", NextAfter(0)) /\ lock' = lock
        BY <1>4, <2>3, <3>3 DEF Match
      <4>2. \A r \in linked : Fresh(r)
        BY <1>0, <2>1, <3>1, <3>3, NextNone
      <4>3. NextAfter(0) # 0
        <5>1. ~ (s <= 0)
          BY <2>1 DEF Sockets
        <5>. QED  BY <1>0, <2>1, <5>1, NextNone
      <4>. QED  BY <1>1, <2>1, <4>1, <4>2, <4>3 DEF Walking
    <3>. QED  BY <3>2, <3>3
  <2>. QED  BY <2>2, <2>3
<1>5. CASE MatchListener
  <2>. DEFINE s == at["loop"]
  <2>1. /\ pc["loop"] = "listener" /\ lock[s] = Nobody /\ PacketAfter /\ packet # {}
        /\ s \in linked /\ s \in Sockets
        /\ \A r \in linked : Fresh(r)
    BY <1>0, <1>5, Exclusive DEF MatchListener, Visits, PacketOK, Walking
  <2>2. CASE (\E p \in packet : p.from \in Callers) /\ bound[s] /\ state[s] = "LISTEN"
    <3>1. Hit("loop", "handle")
      BY <1>5, <2>2 DEF MatchListener
    <3>2. \A p \in packet : p.from \in Callers
      BY <1>0, <2>2 DEF PacketOK
    <3>3. packet' = packet
      BY <1>0, <2>1, <3>1 DEF Hit, Goto, PacketAfter, PlacesOK
    <3>. QED  BY <1>2, <2>1, <3>1, <3>2, <3>3 DEF Walking
  <2>3. CASE ~ ((\E p \in packet : p.from \in Callers) /\ bound[s] /\ state[s] = "LISTEN")
    <3>1. WalkTo("loop", "listener", NextAfter(s)) /\ lock' = lock
      BY <1>5, <2>3 DEF MatchListener
    <3>2. pc'["loop"] = (IF NextAfter(s) = 0 THEN "idle" ELSE "listener")
      BY <1>0, <3>1 DEF WalkTo, Goto, PlacesOK
    <3>3. packet' = (IF NextAfter(s) = 0 THEN {} ELSE packet)
      BY <2>1, <3>2 DEF PacketAfter
    <3>. QED  BY <1>1, <2>1, <3>1, <3>3 DEF Walking
  <2>. QED  BY <2>2, <2>3
<1>. QED  BY <1>3, <1>4, <1>5

LEMMA PacketComesInv ==
  ASSUME SockInv, PacketComes
  PROVE  SockInv'
<1>0. /\ SockTypes /\ PlacesOK /\ LocksOK /\ RoomOK /\ PacketOK /\ "loop" \in Threads
      /\ pc["loop"] = "idle" /\ packet = {} /\ Goto("loop", "packet", 0)
      /\ UNCHANGED <<lockVars, sockVars, histVars>> /\ MaxSocket \in Nat
  BY ThreadNames, TableAssumption DEF SockInv, PacketComes, PacketOK
<1>1. PICK p \in Packet : /\ packet' = {p}
                          /\ IF p.from \in Callers THEN "SYN" \in p.ctrl => Room
                             ELSE peer[p.from] # {}
  BY DEF PacketComes
<1>2. Moves("loop") /\ pc'["loop"] = "packet" /\ at'["loop"] = 0
  BY <1>0, GotoMoves, ThreadNames DEF LoopPlaces
<1>3. PacketOK'
  BY <1>1, <1>2 DEF PacketOK
<1>4. RoomOK'
  <2>. DEFINE T == {u \in Apps : pc[u] = "socket"}
              S == {q \in packet : q.from \in Callers /\ "SYN" \in q.ctrl}
  <2>1. T = {u \in Apps : pc'[u] = "socket"}
    BY <1>2, ThreadNames DEF Moves
  <2>2. Cardinality(T) \in Nat /\ nextFd \in Nat
    BY <1>0, TableAssumption, FS_Subset, FS_CardinalityType DEF SockTypes
  <2>3. Cardinality(S) = 0 /\ nextFd + (Cardinality(T) + 0) <= MaxSocket + 1
    BY <1>0, FS_EmptySet DEF RoomOK, Due
  <2>4. Cardinality(S)' \in {0, 1}
        /\ (Cardinality(S)' = 1 => p.from \in Callers /\ "SYN" \in p.ctrl)
    <3>1. S' = {} \/ (S' = {p} /\ p.from \in Callers /\ "SYN" \in p.ctrl)
      BY <1>1
    <3>2. Cardinality({}) = 0 /\ Cardinality({p}) = 1
      BY FS_EmptySet, FS_Singleton
    <3>. HIDE DEF S
    <3>. QED  BY <3>1, <3>2
  <2>5. Cardinality(S)' = 1 => nextFd + (Cardinality(T) + 0) <= MaxSocket
    BY <1>1, <2>3, <2>4 DEF Room, Due
  <2>6. nextFd' = nextFd /\ Due' = Cardinality(T) + Cardinality(S)'
    BY <1>0, <2>1 DEF lockVars, Due
  <2>. HIDE DEF S, T
  <2>. QED  BY <1>0, <2>2, <2>3, <2>4, <2>5, <2>6 DEF RoomOK
<1>5. SockTypes'
  BY <1>0, <1>1, <1>2 DEF SockTypes, Moves, lockVars, sockVars, histVars
<1>6. LocksOK'
  <2>1. \A u \in Threads \ {"loop"} : pc'[u] = pc[u] /\ at'[u] = at[u]
    BY <1>2 DEF Moves
  <2>2. ASSUME "connectBad" \notin Ops, NEW r \in Sockets, lock[r] # Nobody
        PROVE  pc'[lock[r]] \in Holding /\ at'[lock[r]] = r
    BY <1>0, <2>1, <2>2 DEF LocksOK, SockTypes, Holding
  <2>3. listLock # Nobody => pc'[listLock] \in Walking
    BY <1>0, <2>1 DEF LocksOK, SockTypes, Walking
  <2>. QED  BY <1>0, <2>2, <2>3 DEF LocksOK, lockVars
<1>7. ThreadOK("loop")'
  BY <1>2 DEF ThreadOK, Walking, Holding, Owning
<1>8. \A s \in Sockets : SocketOK(s)'
  BY <1>0 DEF SockInv, SocketOK, Live, sockVars, histVars, lockVars
<1>9. ASSUME NEW u \in Threads \ {"loop"}
      PROVE  /\ pc[u] \in Walking => listLock' = listLock /\ at[u] \in linked'
             /\ pc[u] \in Holding => lock'[at[u]] = lock[at[u]] /\ Live(at[u])'
             /\ pc[u] \in Owning => user'[at[u]] = user[at[u]] /\ Live(at[u])'
             /\ pc[u] = "free" => at[u] \notin linked'
  <2>1. ThreadOK(u) /\ at'[u] = at[u]
    BY <1>2 DEF SockInv, Moves
  <2>. QED  BY <1>0, <2>1 DEF ThreadOK, Live, sockVars, histVars, lockVars
<1>10. ASSUME NEW u \in Apps, pc[u] \in {"call", "find", "found"}
       PROVE  /\ user[fd[u]] = u => user'[fd[u]] = u
              /\ op[u] = "listen" => peer'[fd[u]] = {}
  BY <1>0, <1>10 DEF SockInv, CallOK, sockVars, histVars
<1>. QED  BY <1>2, <1>3, <1>4, <1>5, <1>6, <1>7, <1>8, <1>9, <1>10, LoopInv

\* The handlers that change the socket they were called with.
LEMMA HandledInv ==
  ASSUME SockInv, NEW p, HandleIgnored(p) \/ HandleHandshake(p) \/ HandleEstablished(p)
  PROVE  SockInv'
<1>. DEFINE s == at["loop"]
<1>0. /\ SockTypes /\ PlacesOK /\ PacketOK /\ "loop" \in Threads
      /\ \A r \in Sockets : SocketOK(r)
      /\ pc["loop"] = "handle" /\ s \in Sockets /\ Live(s) /\ lock[s] = "loop"
  BY ThreadNames, Exclusive
     DEF SockInv, HandleIgnored, HandleHandshake, HandleEstablished, Handles, ThreadOK, Holding
<1>1. PICK now \in {state[s], "ESTABLISHED", "CLOSED"},
           cl \in SUBSET {"CALL", "CLOSE"} : Handled(now, cl)
  <2>1. clstate[s] \in SUBSET {"CALL", "CLOSE"}
        /\ clstate[s] \cup {"CLOSE"} \in SUBSET {"CALL", "CLOSE"}
    BY <1>0 DEF SockTypes
  <2>. HIDE DEF s
  <2>2. CASE HandleIgnored(p)
    BY <2>1, <2>2 DEF HandleIgnored, s
  <2>3. CASE HandleHandshake(p)
    BY <2>1, <2>3 DEF HandleHandshake, s
  <2>4. CASE HandleEstablished(p)
    BY <2>1, <2>4 DEF HandleEstablished, s
  <2>. QED  BY <2>2, <2>3, <2>4
<1>2. /\ state' = [state EXCEPT ![s] = now]
      /\ clstate' = [clstate EXCEPT ![s] = cl]
      /\ lock' = [lock EXCEPT ![s] = Nobody] /\ Goto("loop", "idle", 0)
      /\ packet' = {}
      /\ UNCHANGED <<linked, nextFd, listLock, bound, peer, parent, histVars>>
  BY <1>1 DEF Handled, Unlock
<1>3. Moves("loop") /\ pc'["loop"] = "idle" /\ at'["loop"] = 0
  BY <1>0, <1>2, GotoMoves, ThreadNames DEF LoopPlaces
<1>4. /\ lock' \in [Sockets -> Threads \cup {Nobody}] /\ LocksOK'
      /\ listLock' \in Threads \cup {Nobody}
      /\ \A u \in Threads \ {"loop"} :
           /\ pc[u] \in Walking => listLock' = listLock
           /\ pc[u] \in Holding => lock'[at[u]] = lock[at[u]]
  BY <1>0, <1>2, <1>3, UnlockIs DEF Holding
<1>5. SockTypes'
  BY <1>0, <1>1, <1>2, <1>3, <1>4 DEF SockTypes, Moves, histVars
<1>6. RoomOK'
  BY <1>2, <1>3, RoomLess
<1>7. PacketOK'
  BY <1>2, <1>3 DEF PacketOK
<1>8. ThreadOK("loop")'
  BY <1>3 DEF ThreadOK, Walking, Holding, Owning
<1>9. ASSUME NEW r \in Sockets PROVE SocketOK(r)'
  <2>1. CASE r = s
    BY <1>0, <1>1, <1>2, <2>1 DEF SocketOK, Live, SockTypes, histVars
  <2>2. CASE r # s
    BY <1>0, <1>2, <2>2 DEF SocketOK, Live, SockTypes, histVars
  <2>. QED  BY <2>1, <2>2
<1>10. ASSUME NEW u \in Threads \ {"loop"}
       PROVE  /\ pc[u] \in Walking => listLock' = listLock /\ at[u] \in linked'
              /\ pc[u] \in Holding => lock'[at[u]] = lock[at[u]] /\ Live(at[u])'
              /\ pc[u] \in Owning => user'[at[u]] = user[at[u]] /\ Live(at[u])'
              /\ pc[u] = "free" => at[u] \notin linked'
  <2>1. ThreadOK(u) /\ at'[u] = at[u]
    BY <1>3 DEF SockInv, Moves
  <2>2. Live(at[u]) => state'[at[u]] \notin {"NONE", "FREED"}
    BY <1>0, <1>1, <1>2 DEF Live, SockTypes
  <2>. QED  BY <1>2, <1>4, <2>1, <2>2 DEF ThreadOK, Live, histVars
<1>11. ASSUME NEW u \in Apps, pc[u] \in {"call", "find", "found"}
       PROVE  /\ user[fd[u]] = u => user'[fd[u]] = u
              /\ op[u] = "listen" => peer'[fd[u]] = {}
  BY <1>2, <1>11 DEF SockInv, CallOK, histVars
<1>. HIDE DEF s
<1>. QED  BY <1>3, <1>4, <1>5, <1>6, <1>7, <1>8, <1>9, <1>10, <1>11, LoopInv

LEMMA HandleListenInv ==
  ASSUME SockInv, NEW p, HandleListen(p)
  PROVE  SockInv'
<1>0. /\ SockTypes /\ PlacesOK /\ PacketOK /\ LocksOK /\ "loop" \in Threads /\ "loop" \notin Apps
      /\ ThreadOK("loop") /\ pc["loop"] = "handle" /\ packet = {p}
      /\ state[at["loop"]] = "LISTEN" /\ "SYN" \in p.ctrl
      /\ Goto("loop", "child", at["loop"]) /\ at["loop"] \in {0} \cup Sockets
      /\ UNCHANGED <<lockVars, sockVars, packet, histVars>>
  BY ThreadNames DEF SockInv, HandleListen, Handles, SockTypes
<1>1. Moves("loop") /\ pc'["loop"] = "child" /\ at'["loop"] = at["loop"]
  BY <1>0, GotoMoves DEF LoopPlaces
<1>2. \A r : Fresh(r) => Fresh(r)'
  BY <1>0 DEF Fresh, sockVars
<1>3. PacketOK'
  <2>1. \A s \in linked' : Fresh(s)'
    BY <1>0, <1>2 DEF PacketOK, lockVars
  <2>2. state' = state /\ packet' = packet
    BY <1>0 DEF sockVars
  <2>. QED  BY <1>0, <1>1, <2>1, <2>2 DEF PacketOK
<1>4. ThreadOK("loop")'
  BY <1>0, <1>1 DEF ThreadOK, Walking, Holding, Owning, Away, Live, lockVars, sockVars
<1>5. LocksOK'
  <2>1. \A u \in Threads \ {"loop"} : pc'[u] = pc[u] /\ at'[u] = at[u]
    BY <1>1 DEF Moves
  <2>2. ASSUME "connectBad" \notin Ops, NEW r \in Sockets, lock[r] # Nobody
        PROVE  pc'[lock[r]] \in Holding /\ at'[lock[r]] = r
    BY <1>0, <1>1, <2>1, <2>2 DEF LocksOK, SockTypes, Holding
  <2>3. listLock # Nobody => pc'[listLock] \in Walking
    BY <1>0, <2>1 DEF LocksOK, SockTypes, Walking
  <2>. QED  BY <1>0, <2>2, <2>3 DEF LocksOK, lockVars
<1>6. /\ listLock' \in Threads \cup {Nobody}
      /\ lock' \in [Sockets -> Threads \cup {Nobody}]
      /\ listLock' = listLock /\ lock' = lock
      /\ UNCHANGED <<linked, nextFd, sockVars, histVars>>
  BY <1>0 DEF SockTypes, lockVars
<1>. QED  BY <1>0, <1>1, <1>3, <1>4, <1>5, <1>6, LoopMoves

\* The child of a listening socket: no other socket has its remote end.
LEMMA ChildInv ==
  ASSUME SockInv, Child
  PROVE  SockInv'
<1>. DEFINE s == at["loop"]  c == nextFd
<1>0. /\ SockTypes /\ PlacesOK /\ PacketOK /\ LocksOK /\ RoomOK /\ "loop" \in Threads
      /\ \A r \in Sockets : SocketOK(r)
      /\ pc["loop"] = "child" /\ listLock = Nobody /\ MaxSocket \in Nat
      /\ s \in Sockets /\ Live(s) /\ lock[s] = "loop"
  BY ThreadNames, Exclusive, TableAssumption DEF SockInv, Child, ThreadOK, Holding
<1>1. /\ linked' = linked \cup {c} /\ nextFd' = c + 1
      /\ state' = [state EXCEPT ![c] = "SYS_RECV"]
      /\ bound' = [bound EXCEPT ![c] = bound[s]]
      /\ peer' = [peer EXCEPT ![c] = {p.from : p \in packet}]
      /\ parent' = [parent EXCEPT ![c] = s]
      /\ lock' = [lock EXCEPT ![s] = Nobody] /\ Goto("loop", "idle", 0)
      /\ packet' = {}
      /\ UNCHANGED <<listLock, clstate, histVars>>
  BY DEF Child, Unlock
<1>2. PICK p : packet = {p} /\ p.from \in Callers /\ "SYN" \in p.ctrl
  BY <1>0 DEF PacketOK
<1>3. Moves("loop") /\ pc'["loop"] = "idle" /\ at'["loop"] = 0
  BY <1>0, <1>1, GotoMoves, ThreadNames DEF LoopPlaces
<1>4. /\ lock' \in [Sockets -> Threads \cup {Nobody}] /\ LocksOK'
      /\ listLock' \in Threads \cup {Nobody}
      /\ \A u \in Threads \ {"loop"} :
           /\ pc[u] \in Walking => listLock' = listLock
           /\ pc[u] \in Holding => lock'[at[u]] = lock[at[u]]
  BY <1>0, <1>1, <1>3, UnlockIs DEF Holding
<1>5. Due' \in Nat /\ Due = Due' + 1 /\ Due \in Nat /\ Due >= 1
  <2>. DEFINE T == {u \in Apps : pc[u] = "socket"}
              S == {q \in packet : q.from \in Callers /\ "SYN" \in q.ctrl}
  <2>1. T = {u \in Apps : pc'[u] = "socket"}
    BY <1>3, ThreadNames DEF Moves
  <2>2. Cardinality(T) \in Nat
    BY TableAssumption, FS_Subset, FS_CardinalityType
  <2>3. Cardinality(S) = 1 /\ Cardinality(S)' = 0
    <3>1. S = {p} /\ S' = {}
      BY <1>1, <1>2
    <3>. QED  BY <3>1, FS_EmptySet, FS_Singleton
  <2>4. Due = Cardinality(T) + Cardinality(S) /\ Due' = Cardinality(T) + Cardinality(S)'
    BY <2>1 DEF Due
  <2>. HIDE DEF S, T
  <2>. QED  BY <2>2, <2>3, <2>4
<1>6. c \in Sockets /\ c + 1 \in 1 .. MaxSocket + 1
  <2>1. c \in 1 .. MaxSocket + 1 /\ c + Due <= MaxSocket + 1 /\ MaxSocket \in Nat
    BY <1>0 DEF RoomOK, SockTypes
  <2>2. Due \in Nat /\ Due >= 1
    BY <1>5
  <2>. HIDE DEF c
  <2>. QED  BY <2>1, <2>2 DEF Sockets
<1>7. RoomOK'
  BY <1>0, <1>1, <1>5, <1>6 DEF RoomOK, Sockets
<1>8. /\ state[c] = "NONE" /\ user[c] = Nobody /\ accepted[c] = 0 /\ c \notin linked /\ c # s
  BY <1>0, <1>6 DEF SocketOK, Live, Sockets
<1>9. SockTypes'
  <2>1. {q.from : q \in packet} \in SUBSET Peers
    BY <1>2 DEF Peers
  <2>. QED  BY <1>0, <1>1, <1>3, <1>4, <1>6, <2>1 DEF SockTypes, Moves, histVars
<1>10. PacketOK'
  BY <1>1, <1>3 DEF PacketOK
<1>11. ThreadOK("loop")'
  BY <1>3 DEF ThreadOK, Walking, Holding, Owning
<1>12. ASSUME NEW r \in Sockets PROVE SocketOK(r)'
  <2>1. CASE r = c
    <3>1. peer'[c] = {p.from}
      BY <1>0, <1>1, <1>2, <1>6 DEF SockTypes
    <3>. QED  BY <1>0, <1>1, <1>2, <1>6, <1>8, <2>1, <3>1
              DEF SocketOK, Live, SockTypes, Sockets, histVars
  <2>2. CASE r # c
    <3>1. r >= nextFd' <=> r >= nextFd
      BY <1>1, <1>6, <2>2 DEF Sockets
    <3>. QED  BY <1>0, <1>1, <2>2, <3>1 DEF SocketOK, Live, SockTypes, histVars
  <2>. QED  BY <2>1, <2>2
<1>13. ASSUME NEW u \in Threads \ {"loop"}
       PROVE  /\ pc[u] \in Walking => listLock' = listLock /\ at[u] \in linked'
              /\ pc[u] \in Holding => lock'[at[u]] = lock[at[u]] /\ Live(at[u])'
              /\ pc[u] \in Owning => user'[at[u]] = user[at[u]] /\ Live(at[u])'
              /\ pc[u] = "free" => at[u] \notin linked'
  <2>1. ThreadOK(u) /\ at'[u] = at[u] /\ at[u] \in {0} \cup Sockets
    BY <1>0, <1>3 DEF SockInv, Moves, SockTypes
  <2>2. Live(at[u]) => at[u] # c /\ (at[u] # 0 => state'[at[u]] = state[at[u]])
    BY <1>0, <1>1, <1>8, <2>1 DEF Live, SockTypes
  <2>3. pc[u] = "free" => pc[u] \in Owning
    BY DEF Owning
  <2>. QED  BY <1>1, <1>4, <2>1, <2>2, <2>3 DEF ThreadOK, Live, histVars
<1>14. ASSUME NEW u \in Apps, pc[u] \in {"call", "find", "found"}
       PROVE  /\ user[fd[u]] = u => user'[fd[u]] = u
              /\ op[u] = "listen" => peer'[fd[u]] = {}
  <2>1. CallOK(u) /\ u # Nobody
    BY ThreadNames DEF SockInv
  <2>2. user[fd[u]] = u => fd[u] # c
    BY <1>8, <2>1
  <2>3. op[u] = "listen" => user[fd[u]] = u /\ peer[fd[u]] = {}
    BY <1>14, <2>1 DEF CallOK
  <2>. QED  BY <1>0, <1>1, <2>2, <2>3 DEF SockTypes, histVars
<1>. HIDE DEF s, c
<1>. QED  BY <1>3, <1>4, <1>7, <1>9, <1>10, <1>11, <1>12, <1>13, <1>14, LoopInv

-----------------------------------------------------------------------------
LEMMA SockInit == Init => SockInv
<1>. SUFFICES ASSUME Init PROVE SockInv
  OBVIOUS
<1>1. SockTypes /\ PlacesOK /\ LocksOK
  BY TableAssumption, ThreadNames
     DEF Init, SockTypes, PlacesOK, LocksOK, AppPlaces, LoopPlaces
<1>2. RoomOK
  <2>1. /\ {u \in Apps : pc[u] = "socket"} = {}
        /\ {p \in packet : p.from \in Callers /\ "SYN" \in p.ctrl} = {}
    BY ThreadNames DEF Init
  <2>. QED  BY <2>1, FS_EmptySet, TableAssumption DEF Init, RoomOK, Due
<1>3. PacketOK
  BY ThreadNames DEF Init, PacketOK
<1>4. \A t \in Threads : ThreadOK(t)
  BY DEF Init, ThreadOK, Walking, Holding, Owning
<1>5. \A t \in Apps : CallOK(t)
  BY ThreadNames DEF Init, CallOK
<1>6. \A s \in Sockets : SocketOK(s)
  BY TableAssumption DEF Init, SocketOK, Live, Sockets
<1>. QED  BY <1>1, <1>2, <1>3, <1>4, <1>5, <1>6 DEF SockInv

LEMMA SockStep == SockInv /\ [Next]_vars => SockInv'
<1>. SUFFICES ASSUME SockInv, [Next]_vars PROVE SockInv'
  OBVIOUS
<1>1. ASSUME NEW t \in Apps,
             \/ Call(t) \/ Socket(t) \/ FindBegin(t) \/ Find(t)
             \/ Bind(t) \/ Listen(t) \/ AcceptBegin(t) \/ Accept(t)
             \/ Connect(t) \/ ConnectReturn(t) \/ ConnectBad(t)
             \/ IoBegin(t) \/ IoSpin(t) \/ IoCopy(t)
             \/ CloseBegin(t) \/ CloseSpin(t) \/ FreeUnlink(t) \/ Free(t)
      PROVE  SockInv'
  BY <1>1, CallInv, SocketInv, FindInv, FoundInv, AcceptInv, GoesInv, FreeUnlinkInv, FreeInv
<1>2. ASSUME NEW p \in packet,
             \/ HandleIgnored(p) \/ HandleHandshake(p) \/ HandleEstablished(p)
             \/ HandleListen(p)
      PROVE  SockInv'
  BY <1>2, HandledInv, HandleListenInv
<1>3. ASSUME PacketComes \/ MatchBegin \/ Match \/ MatchListener \/ Child
             \/ AsyncBegin \/ Async
      PROVE  SockInv'
  BY <1>3, PacketComesInv, MatchInv, ChildInv, AsyncInv
<1>4. CASE UNCHANGED vars
  <2>1. UNCHANGED <<linked, nextFd, listLock, lock, state, bound, peer, parent, clstate,
                    pc, at, op, fd, packet, user, accepted>>
    BY <1>4 DEF vars, lockVars, sockVars, histVars
  <2>2. (SockTypes /\ PlacesOK /\ LocksOK)'
    BY <2>1 DEF SockInv, SockTypes, PlacesOK, LocksOK
  <2>3. RoomOK' /\ PacketOK'
    BY <2>1 DEF SockInv, RoomOK, Due, PacketOK, Fresh
  <2>4. \A t \in Threads : ThreadOK(t)'
    BY <2>1 DEF SockInv, ThreadOK, Live
  <2>5. \A t \in Apps : CallOK(t)'
    BY <2>1 DEF SockInv, CallOK
  <2>6. \A s \in Sockets : SocketOK(s)'
    BY <2>1 DEF SockInv, SocketOK, Live
  <2>. QED  BY <2>2, <2>3, <2>4, <2>5, <2>6 DEF SockInv
<1>. QED  BY <1>1, <1>2, <1>3, <1>4 DEF Next

\* The types, and that nothing freed is in the list, for every number of threads
\* and sockets and however calls and packets come together.
THEOREM TypeCorrect == Spec => []TypeOK
<1>1. SockInv => TypeOK
  <2>. SUFFICES ASSUME SockInv PROVE TypeOK
    OBVIOUS
  <2>1. Cardinality(packet) <= 1
    BY PacketFinite DEF SockInv
  <2>2. linked \subseteq {s \in Sockets : state[s] \notin {"NONE", "FREED"}}
    BY DEF SockInv, SockTypes, SocketOK, Live
  <2>. QED  BY <2>1, <2>2 DEF SockInv, SockTypes, TypeOK
<1>. QED  BY <1>1, SockInit, SockStep, PTL DEF Spec

\* Nobody waits for the mutex of a freed socket, holds it, or looks at it while
\* spinning: freeSocket first takes it from the list, when nobody walks, and
\* then waits for whoever holds it.
THEOREM NothingFreedUsed == Spec => []NoUseAfterFree
<1>1. SockInv => NoUseAfterFree
  <2>. SUFFICES ASSUME SockInv, NEW t \in Threads, at[t] # 0
                PROVE  state[at[t]] # "FREED"
    BY DEF NoUseAfterFree
  <2>1. /\ ThreadOK(t) /\ pc[t] \in AppPlaces \cup LoopPlaces
        /\ \A s \in Sockets : SocketOK(s)
    BY DEF SockInv, PlacesOK
  <2>2. pc[t] \in Walking \cup Holding \cup Owning
    BY <2>1 DEF ThreadOK, AppPlaces, LoopPlaces, Walking, Holding, Owning, Away
  <2>3. CASE pc[t] \in Walking
    BY <2>1, <2>3, Exclusive DEF SocketOK, Live
  <2>4. CASE pc[t] \in Holding \cup Owning
    BY <2>1, <2>4 DEF ThreadOK, Live
  <2>. QED  BY <2>2, <2>3, <2>4
<1>. QED  BY <1>1, SockInit, SockStep, PTL DEF Spec

\* However many threads wait in accept(), a connection is returned to one of them,
\* once.
THEOREM AcceptsOnce == Spec => []AcceptedOnce
<1>1. SockInv => AcceptedOnce
  BY DEF SockInv, SocketOK, AcceptedOnce
<1>. QED  BY <1>1, SockInit, SockStep, PTL DEF Spec

LEMMA OnePeerStep ==
  ASSUME SockInv, OneSocketPerPeer, [Next]_vars
  PROVE  OneSocketPerPeer'
<1>. USE DEF OneSocketPerPeer
<1>0. /\ SockTypes /\ PacketOK /\ SockInv' /\ linked \in SUBSET Sockets
      /\ \A r \in Sockets : SocketOK(r)
  BY SockStep DEF SockInv, SockTypes
<1>1. CASE /\ linked' \subseteq linked
           /\ \A s \in linked' : peer'[s] = peer[s]
  BY <1>1
<1>2. ASSUME NEW t \in Apps, Socket(t)
      PROVE  OneSocketPerPeer'
  <2>1. /\ linked' = linked \cup {nextFd} /\ peer' = peer
        /\ nextFd' \in 1 .. MaxSocket + 1 /\ nextFd' = nextFd + 1
        /\ nextFd \in 1 .. MaxSocket + 1 /\ MaxSocket \in Nat
    BY <1>0, <1>2, TableAssumption DEF Socket, SockInv, SockTypes
  <2>2. nextFd \in Sockets /\ nextFd >= nextFd
    BY <2>1 DEF Sockets
  <2>3. peer[nextFd] = {}
    BY <1>0, <2>2 DEF SocketOK
  <2>. QED  BY <2>1, <2>3
<1>3. ASSUME NEW t \in Apps, Connect(t)
      PROVE  OneSocketPerPeer'
  <2>. DEFINE s == at[t]
  <2>1. linked' = linked /\ peer' = [peer EXCEPT ![s] = {s}]
    BY <1>3 DEF Connect
  <2>2. \A u \in linked : u # s => peer'[u] = peer[u] /\ s \notin peer[u] /\ s \notin peer'[u]
    <3>1. s \in Sockets
      BY <1>3, Exclusive, ThreadNames DEF Connect, Found, Holding
    <3>2. s \notin Callers
      BY <3>1, TableAssumption DEF Sockets
    <3>3. \A u \in Sockets : peer[u] \subseteq Callers \cup {u}
      BY <1>0 DEF SocketOK
    <3>. HIDE DEF s
    <3>. QED  BY <1>0, <2>1, <3>1, <3>2, <3>3 DEF SockTypes
  <2>3. s \in linked => peer'[s] = {s}
    BY <1>0, <2>1 DEF SockTypes
  <2>. HIDE DEF s
  <2>. QED  BY <2>1, <2>2, <2>3
<1>4. CASE Child
  <2>. DEFINE c == nextFd
  <2>1. /\ linked' = linked \cup {c} /\ nextFd' = c + 1
        /\ peer' = [peer EXCEPT ![c] = {p.from : p \in packet}]
        /\ pc["loop"] = "child"
    BY <1>4 DEF Child
  <2>2. PICK p : packet = {p} /\ p.from \in Callers /\ \A s \in linked : Fresh(s)
    BY <1>0, <2>1 DEF PacketOK
  <2>3. c \in Sockets
    <3>1. c \in 1 .. MaxSocket + 1 /\ c + 1 \in 1 .. MaxSocket + 1 /\ MaxSocket \in Nat
      BY <1>0, <2>1, TableAssumption DEF SockInv, SockTypes
    <3>. HIDE DEF c
    <3>. QED  BY <3>1 DEF Sockets
  <2>4. c \notin linked
    <3>1. c >= c
      BY <1>0 DEF SockTypes
    <3>. QED  BY <1>0, <2>3, <3>1 DEF SocketOK, Live
  <2>5. peer'[c] = {p.from} /\ \A u \in linked : peer'[u] = peer[u] /\ p.from \notin peer[u]
    BY <1>0, <2>1, <2>2, <2>3, <2>4 DEF SockTypes, Fresh
  <2>6. linked' = linked \cup {c}
    BY <2>1
  <2>7. \A u \in linked : u # c /\ peer'[u] \cap peer'[c] = {}
    BY <2>4, <2>5
  <2>8. \A u, v \in linked : u # v => peer'[u] \cap peer'[v] = {}
    BY <2>5
  <2>. HIDE DEF c
  <2>. QED  BY <2>6, <2>7, <2>8
<1>5. ASSUME NEW t \in Apps, Free(t)
      PROVE  OneSocketPerPeer'
  <2>1. linked' = linked /\ peer' = [peer EXCEPT ![at[t]] = {}]
    BY <1>5 DEF Free, lockVars
  <2>2. \A u \in linked : peer'[u] \subseteq peer[u]
    BY <1>0, <2>1 DEF SockTypes
  <2>. QED  BY <2>1, <2>2
<1>6. ASSUME NEW t \in Apps, FreeUnlink(t)
      PROVE  OneSocketPerPeer'
  BY <1>1, <1>6 DEF FreeUnlink, Unlinked, sockVars
<1>7. ASSUME NEW t \in Apps,
             \/ Call(t) \/ FindBegin(t) \/ Find(t)
             \/ Bind(t) \/ Listen(t) \/ AcceptBegin(t) \/ Accept(t)
             \/ ConnectReturn(t) \/ ConnectBad(t)
             \/ IoBegin(t) \/ IoSpin(t) \/ IoCopy(t)
             \/ CloseBegin(t) \/ CloseSpin(t)
      PROVE  OneSocketPerPeer'
  <2>1. linked' = linked /\ peer' = peer
    BY <1>7 DEF Call, FindBegin, Find, Bind, Listen, AcceptBegin, Accept, ConnectReturn,
                ConnectBad, IoBegin, IoSpin, IoCopy, CloseBegin, CloseSpin, lockVars, sockVars
  <2>. QED  BY <1>1, <2>1
<1>8. ASSUME NEW p, \/ HandleIgnored(p) \/ HandleHandshake(p) \/ HandleEstablished(p)
                    \/ HandleListen(p)
      PROVE  OneSocketPerPeer'
  <2>1. linked' = linked /\ peer' = peer
    BY <1>8 DEF HandleIgnored, HandleHandshake, HandleEstablished, HandleListen, Handled,
                lockVars, sockVars
  <2>. QED  BY <1>1, <2>1
<1>9. CASE PacketComes \/ MatchBegin \/ Match \/ MatchListener \/ AsyncBegin \/ Async
  <2>1. linked' = linked /\ peer' = peer
    BY <1>9 DEF PacketComes, MatchBegin, Match, MatchListener, AsyncBegin, Async, lockVars,
                sockVars
  <2>. QED  BY <1>1, <2>1
<1>10. CASE UNCHANGED vars
  BY <1>1, <1>10 DEF vars, lockVars, sockVars
<1>. QED  BY <1>2, <1>3, <1>4, <1>5, <1>6, <1>7, <1>8, <1>9, <1>10 DEF Next

\* A remote end never has two sockets in the list, however often its SYN comes:
\* the search for its connection sees every socket that is in the list, and
\* while the listening socket is locked no other child can be made.
THEOREM OnePeerOneSocket == Spec => []OneSocketPerPeer
<1>1. Init => OneSocketPerPeer
  BY DEF Init, OneSocketPerPeer
<1>. QED  BY <1>1, SockInit, SockStep, OnePeerStep, PTL DEF Spec

\* The order of the locks, list before socket, is kept by all but two: connect()
\* with a wrong address, and the handler of a listening socket that is called by
\* a remote end.  Where neither comes about no threads wait in a circle.
THEOREM NoCircleWithoutListeners ==
  ASSUME Callers = {}, "connectBad" \notin Ops
  PROVE  Spec => []NoCircularWait
<1>1. SockInv => NoCircularWait
  <2>. SUFFICES ASSUME SockInv, NEW S \in (SUBSET Threads) \ {{}}
                PROVE  \E t \in S : BlockedBy(t) \cap S = {}
    BY DEF NoCircularWait
  <2>0. /\ SockTypes /\ PlacesOK /\ LocksOK /\ PacketOK
        /\ \A u \in Threads : ThreadOK(u)
    BY DEF SockInv
  <2>1. \A u \in Threads : pc[u] \in Holding => BlockedBy(u) = {}
    <3>1. pc["loop"] # "child"
      BY <2>0 DEF PacketOK
    <3>2. \A u \in Apps : pc[u] # "child"
      BY <2>0 DEF PlacesOK, AppPlaces, Owning
    <3>. QED  BY <3>1, <3>2, ThreadNames DEF BlockedBy, Holding
  <2>2. ASSUME NEW u \in Threads, pc[u] \in Walking \cup {"copy", "free"}, u \in S
        PROVE  \E t \in S : BlockedBy(t) \cap S = {}
    <3>1. BlockedBy(u) = {lock[at[u]]} \ {Nobody} /\ at[u] \in Sockets
      BY <2>2, Exclusive DEF BlockedBy, Walking, Owning
    <3>2. lock[at[u]] # Nobody => BlockedBy(lock[at[u]]) = {}
      BY <2>0, <2>1, <3>1 DEF LocksOK, SockTypes
    <3>. QED  BY <2>2, <3>1, <3>2
  <2>3. PICK t \in S : t \in Threads
    OBVIOUS
  <2>4. CASE pc[t] \in Walking \cup {"copy", "free"}
    BY <2>2, <2>3, <2>4
  <2>5. CASE pc[t] \notin Walking \cup {"copy", "free"}
    <3>1. BlockedBy(t) \subseteq {listLock} \ {Nobody}
      BY <2>5 DEF BlockedBy, Walking
    <3>2. CASE listLock \in S /\ listLock # Nobody
      BY <2>0, <2>2, <3>2 DEF LocksOK
    <3>. QED  BY <2>3, <3>1, <3>2
  <2>. QED  BY <2>4, <2>5
<1>. QED  BY <1>1, SockInit, SockStep, PTL DEF Spec
=============================================================================
