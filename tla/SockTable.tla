------------------------------ MODULE SockTable ------------------------------
(***************************************************************************)
(* The socket list of one host (transport/mainthread.c, loopthread.c) and  *)
(* its locks: the list's mutex, which every walk over the list holds, and  *)
(* one mutex per socket, which a walk takes at each socket it looks at.    *)
(* The walkers are the loop thread, which matches packets to sockets and   *)
(* sends for all of them, and the application threads in their calls.      *)
(* Taking a lock is a step; what is done under it up to the next lock, or  *)
(* up to a busy-wait loop, is part of that step.                           *)
(*                                                                         *)
(* A socket is known by its number, counted from NETSTACK_FD_START: they   *)
(* are appended to the list as they are numbered, so that the list is a    *)
(* set, in the order of the numbers.  What the packets of a connection     *)
(* carry is TcpConn's matter: here any packet may come at any time.        *)
(***************************************************************************)
EXTENDS Integers, FiniteSets

CONSTANTS
  Apps,       \* application threads
  Ops,        \* the calls they make
  Callers,    \* remote ends that send to the port applications bind
  MaxSocket   \* bound: sockets made in all

ASSUME TableAssumption ==
  /\ Ops \subseteq {"socket", "bind", "listen", "accept", "connect",
                    "connectBad", "io", "close"}
  /\ IsFiniteSet(Apps)
  /\ MaxSocket \in Nat
  /\ Callers \cap 1 .. MaxSocket = {}
  /\ {"loop", "nobody"} \cap Apps = {}

Threads == Apps \cup {"loop"}
Sockets == 1 .. MaxSocket
\* A remote end that is called is known by the socket that calls it: getPort
\* gives each a port of its own.
Peers == Callers \cup Sockets
Nobody == "nobody"
Packet == [from : Peers, ctrl : SUBSET {"SYN", "ACK"}]

VARIABLES
  linked,    \* the sockets that are linked into the list
  nextFd,    \* socketList.nextFd
  listLock,  \* who holds socketList.mutex
  lock,      \* who holds the mutex of a socket
  state,     \* enum TCPState; NONE before the socket is made, FREED after
  bound,     \* srcport is the port applications bind
  peer,      \* the remote end, {} or the set of one
  parent,    \* parentListenFd; 0: none
  clstate,   \* enum CLOSEState: CALL, and CLOSE when all bits of CL_CLOSE are set
  pc, at,    \* where a thread is, and the socket it waits for or holds
  op, fd,    \* the call an application thread makes and its argument
  packet,    \* what the loop thread handles: {} or the set of one
  user,      \* history: the thread that names the socket in its calls
  accepted   \* history: how often accept() has returned the socket

lockVars == <<linked, nextFd, listLock, lock>>
sockVars == <<state, bound, peer, parent, clstate>>
histVars == <<user, accepted>>
vars == <<lockVars, sockVars, pc, at, op, fd, packet, histVars>>

Init ==
  /\ linked = {} /\ nextFd = 1
  /\ listLock = Nobody
  /\ lock = [s \in Sockets |-> Nobody]
  /\ state = [s \in Sockets |-> "NONE"]
  /\ bound = [s \in Sockets |-> FALSE]
  /\ peer = [s \in Sockets |-> {}]
  /\ parent = [s \in Sockets |-> 0]
  /\ clstate = [s \in Sockets |-> {}]
  /\ pc = [t \in Threads |-> "idle"]
  /\ at = [t \in Threads |-> 0]
  /\ op = [t \in Apps |-> "none"]
  /\ fd = [t \in Apps |-> 0]
  /\ packet = {}
  /\ user = [s \in Sockets |-> Nobody]
  /\ accepted = [s \in Sockets |-> 0]

-----------------------------------------------------------------------------
(* Walks over the list.                                                    *)

\* it->next; 0, the head's number, to begin and NULL to end with.
NextAfter(s) ==
  LET later == {u \in linked : u > s}
  IN IF later = {} THEN 0 ELSE CHOOSE u \in later : \A v \in later : u <= v

\* The thread goes on elsewhere; when its call is over, op and fd are forgotten.
Goto(t, where, s) ==
  /\ pc' = [pc EXCEPT ![t] = where]
  /\ at' = [at EXCEPT ![t] = s]
  /\ op' = [u \in Apps |-> IF u = t /\ where = "idle" THEN "none" ELSE op[u]]
  /\ fd' = [u \in Apps |-> IF u = t /\ where = "idle" THEN 0 ELSE fd[u]]

\* The walk comes to s, or to the end: the list is unlocked, the call is over.
WalkTo(t, walk, s) ==
  IF s # 0 THEN listLock' = t /\ Goto(t, walk, s)
           ELSE listLock' = Nobody /\ Goto(t, "idle", 0)

\* The list is locked and the walk begins.
Begin(t, wait, walk) ==
  /\ pc[t] = wait /\ listLock = Nobody
  /\ WalkTo(t, walk, NextAfter(0))

\* The walk has its turn at the mutex of the socket it has come to.
Visits(t, walk) == pc[t] = walk /\ lock[at[t]] = Nobody

\* The socket that was looked for: it stays locked and the list is unlocked.
Hit(t, where) ==
  /\ lock' = [lock EXCEPT ![at[t]] = t]
  /\ listLock' = Nobody
  /\ Goto(t, where, at[t])

\* The thread unlocks the socket it holds.
Unlock(t, where, s) ==
  /\ lock' = [lock EXCEPT ![at[t]] = Nobody]
  /\ Goto(t, where, s)

-----------------------------------------------------------------------------
(* Application threads.                                                    *)

\* Sockets that a call or a SYN under way is going to make.
Due == Cardinality({t \in Apps : pc[t] = "socket"})
         + Cardinality({p \in packet : p.from \in Callers /\ "SYN" \in p.ctrl})
Room == nextFd + Due <= MaxSocket

\* What an application calls: its own sockets, each in its turn, connect and
\* bind while the socket is new, listen when it is bound; accept on any that
\* listens.
May(t, o, s) ==
  LET new == state[s] = "CLOSED" /\ peer[s] = {} IN
  CASE o \in {"bind", "connect", "connectBad"} -> user[s] = t /\ new /\ ~bound[s]
    [] o = "listen" -> user[s] = t /\ new /\ bound[s]
    [] o = "accept" -> state[s] = "LISTEN"
    [] o = "io" -> user[s] = t /\ ~new /\ state[s] # "LISTEN"
    [] o = "close" -> user[s] = t

Call(t) ==
  /\ pc[t] = "idle"
  /\ \/ /\ "socket" \in Ops /\ Room
        /\ Goto(t, "socket", 0)
     \/ \E o \in Ops \ {"socket"}, s \in Sockets :
          /\ May(t, o, s)
          /\ pc' = [pc EXCEPT ![t] = "call"]
          /\ op' = [op EXCEPT ![t] = o]
          /\ fd' = [fd EXCEPT ![t] = s]
          /\ UNCHANGED at
  /\ UNCHANGED <<lockVars, sockVars, packet, histVars>>

\* socketLab: allocSocket links a new socket under the list's mutex.
Socket(t) ==
  LET s == nextFd IN
  /\ pc[t] = "socket" /\ listLock = Nobody
  /\ linked' = linked \cup {s} /\ nextFd' = s + 1
  /\ state' = [state EXCEPT ![s] = "CLOSED"]
  /\ user' = [user EXCEPT ![s] = t]
  /\ Goto(t, "idle", 0)
  /\ UNCHANGED <<listLock, lock, bound, peer, parent, clstate, packet,
                 accepted>>

\* findSocket, which begins every call on a socket.  If it finds none the call
\* returns -1.
FindBegin(t) ==
  /\ Begin(t, "call", "find")
  /\ UNCHANGED <<linked, nextFd, lock, sockVars, packet, histVars>>

\* Mutant of Finds: the list stays locked.
FindsNoUnlock(t) ==
  /\ lock' = [lock EXCEPT ![at[t]] = t]
  /\ listLock' = listLock
  /\ Goto(t, "found", at[t])
Finds(t) == Hit(t, "found")

Find(t) ==
  /\ Visits(t, "find")
  /\ IF at[t] = fd[t] THEN Finds(t)
     ELSE WalkTo(t, "find", NextAfter(at[t])) /\ lock' = lock
  /\ UNCHANGED <<linked, nextFd, sockVars, packet, histVars>>

Found(t, o) == pc[t] = "found" /\ op[t] = o

Bind(t) ==
  /\ Found(t, "bind")
  /\ bound' = [bound EXCEPT ![at[t]] = TRUE]
  /\ Unlock(t, "idle", 0)
  /\ UNCHANGED <<linked, nextFd, listLock, state, peer, parent, clstate,
                 packet, histVars>>

Listen(t) ==
  /\ Found(t, "listen")
  /\ state' = [state EXCEPT ![at[t]] = "LISTEN"]
  /\ Unlock(t, "idle", 0)
  /\ UNCHANGED <<linked, nextFd, listLock, bound, peer, parent, clstate,
                 packet, histVars>>

\* acceptLab only looks whether there is such a socket.
AcceptBegin(t) ==
  /\ Found(t, "accept")
  /\ Unlock(t, "accept", 0)
  /\ UNCHANGED <<linked, nextFd, listLock, sockVars, packet, histVars>>

\* Mutant of ParentTaken: the child stays to be accepted again.
ParentKept(s) == parent[s]
ParentTaken(s) == 0

\* One turn of acceptLab's loop that finds a child.  It reads the sockets under
\* the list's mutex but without theirs.
Accept(t) ==
  /\ pc[t] = "accept" /\ listLock = Nobody
  /\ \E s \in linked :
       LET ready(u) == parent[u] = fd[t] /\ state[u] = "ESTABLISHED" IN
       /\ ready(s) /\ \A u \in linked : ready(u) => s <= u
       /\ parent' = [parent EXCEPT ![s] = ParentTaken(s)]
       /\ accepted' = [accepted EXCEPT ![s] = @ + 1]
       /\ user' = [user EXCEPT ![s] = t]
  /\ Goto(t, "idle", 0)
  /\ UNCHANGED <<lockVars, state, bound, peer, clstate, packet>>

\* connectLab, up to its wait on mutex2.
Connect(t) ==
  /\ Found(t, "connect")
  /\ peer' = [peer EXCEPT ![at[t]] = {at[t]}]
  /\ state' = [state EXCEPT ![at[t]] = "SYS_SENT"]
  /\ Unlock(t, "connect", at[t])
  /\ UNCHANGED <<linked, nextFd, listLock, bound, parent, clstate,
                 packet, histVars>>

\* TCPHandleSyssent has unlocked mutex2.
ConnectReturn(t) ==
  /\ pc[t] = "connect" /\ state[at[t]] # "SYS_SENT"
  /\ Goto(t, "idle", 0)
  /\ UNCHANGED <<lockVars, sockVars, packet, histVars>>

\* connectLab finds fault with the address or its length: it returns with the
\* socket it has found still locked.
ConnectBad(t) ==
  /\ Found(t, "connectBad")
  /\ Goto(t, "idle", 0)
  /\ UNCHANGED <<lockVars, sockVars, packet, histVars>>

\* readLab and writeLab: the busy-wait without the mutex, which ends when there
\* are bytes or room or the socket is closed, and the copy under it.
IoBegin(t) ==
  /\ Found(t, "io")
  /\ Unlock(t, "spin", at[t])
  /\ UNCHANGED <<linked, nextFd, listLock, sockVars, packet, histVars>>

IoSpin(t) ==
  /\ pc[t] = "spin"
  /\ \/ Goto(t, "copy", at[t])
     \/ state[at[t]] = "CLOSED" /\ Goto(t, "idle", 0)
  /\ UNCHANGED <<lockVars, sockVars, packet, histVars>>

IoCopy(t) ==
  /\ Visits(t, "copy")
  /\ Goto(t, "idle", 0)
  /\ UNCHANGED <<lockVars, sockVars, packet, histVars>>

CloseBegin(t) ==
  /\ Found(t, "close")
  /\ clstate' = [clstate EXCEPT ![at[t]] = @ \cup {"CALL"}]
  /\ Unlock(t, "closing", at[t])
  /\ UNCHANGED <<linked, nextFd, listLock, state, bound, peer, parent,
                 packet, histVars>>

CloseSpin(t) ==
  /\ pc[t] = "closing"
  /\ clstate[at[t]] = {"CALL", "CLOSE"} \/ state[at[t]] = "CLOSED"
  /\ Goto(t, "unlink", at[t])
  /\ UNCHANGED <<lockVars, sockVars, packet, histVars>>

\* Mutant of FreeUnlink: the socket stays in the list.
Linked(s) == linked \cup {s}
Unlinked(s) == linked \ {s}

\* freeSocket: first out of the list, ...
FreeUnlink(t) ==
  /\ pc[t] = "unlink" /\ listLock = Nobody
  /\ linked' = Unlinked(at[t])
  /\ Goto(t, "free", at[t])
  /\ UNCHANGED <<nextFd, listLock, lock, sockVars, packet, histVars>>

\* Mutant of FreeEnters: the socket's mutex is not taken.
FreeEntersAny(t) == pc[t] = "free"
FreeEnters(t) == Visits(t, "free")

\* ... then, when whoever holds it is done with it, freed, with all it holds.
Free(t) ==
  LET s == at[t] IN
  /\ FreeEnters(t)
  /\ state' = [state EXCEPT ![s] = "FREED"]
  /\ bound' = [bound EXCEPT ![s] = FALSE]
  /\ peer' = [peer EXCEPT ![s] = {}]
  /\ parent' = [parent EXCEPT ![s] = 0]
  /\ clstate' = [clstate EXCEPT ![s] = {}]
  /\ Goto(t, "idle", 0)
  /\ UNCHANGED <<lockVars, packet, histVars>>

-----------------------------------------------------------------------------
(* The loop thread.                                                        *)

\* Whatever a caller sends, or the other end of a socket that has connected.
PacketComes ==
  /\ pc["loop"] = "idle"
  /\ \E p \in Packet :
       /\ IF p.from \in Callers THEN "SYN" \in p.ctrl => Room
                                ELSE peer[p.from] # {}
       /\ packet' = {p}
  /\ Goto("loop", "packet", 0)
  /\ UNCHANGED <<lockVars, sockVars, histVars>>

\* A packet that the loop thread is done with is forgotten.
PacketAfter == packet' = IF pc'["loop"] = "idle" THEN {} ELSE packet

MatchBegin ==
  /\ Begin("loop", "packet", "match")
  /\ PacketAfter
  /\ UNCHANGED <<linked, nextFd, lock, sockVars, histVars>>

\* Mutant of SamePeer: only established sockets are matched by their peer.
SamePeerEstablished(s, p) == p.from \in peer[s] /\ state[s] = "ESTABLISHED"
SamePeer(s, p) == p.from \in peer[s]

\* matchSocket: the first walk looks for the packet's connection, ...
Match ==
  LET s == at["loop"] IN
  /\ Visits("loop", "match")
  /\ IF \E p \in packet : SamePeer(s, p) THEN Hit("loop", "handle")
     ELSE /\ lock' = lock
          /\ IF NextAfter(s) # 0 THEN WalkTo("loop", "match", NextAfter(s))
             ELSE WalkTo("loop", "listener", NextAfter(0))
  /\ UNCHANGED <<linked, nextFd, sockVars, packet, histVars>>

\* ... the second for a socket that listens on its port.
MatchListener ==
  LET s == at["loop"] IN
  /\ Visits("loop", "listener")
  /\ IF /\ \E p \in packet : p.from \in Callers
        /\ bound[s] /\ state[s] = "LISTEN"
     THEN Hit("loop", "handle")
     ELSE WalkTo("loop", "listener", NextAfter(s)) /\ lock' = lock
  /\ PacketAfter
  /\ UNCHANGED <<linked, nextFd, sockVars, histVars>>

Handles(p) == pc["loop"] = "handle" /\ packet = {p}

\* A handler leaves the socket it was called with as now and cl say, and the
\* loop thread unlocks it.
Handled(now, cl) ==
  LET s == at["loop"] IN
  /\ state' = [state EXCEPT ![s] = now]
  /\ clstate' = [clstate EXCEPT ![s] = cl]
  /\ Unlock("loop", "idle", 0)
  /\ packet' = {}
  /\ UNCHANGED <<linked, nextFd, listLock, bound, peer, parent, histVars>>

\* The handlers of the states that ignore the packet.
HandleIgnored(p) ==
  LET s == at["loop"] IN
  /\ Handles(p)
  /\ \/ state[s] = "CLOSED"
     \/ state[s] = "LISTEN" /\ "SYN" \notin p.ctrl
     \/ state[s] = "SYS_SENT" /\ p.ctrl # {"SYN", "ACK"}
     \/ state[s] = "SYS_RECV" /\ "ACK" \notin p.ctrl
  /\ Handled(state[s], clstate[s])

HandleHandshake(p) ==
  LET s == at["loop"] IN
  /\ Handles(p)
  /\ \/ state[s] = "SYS_SENT" /\ p.ctrl = {"SYN", "ACK"}
     \/ state[s] = "SYS_RECV" /\ "ACK" \in p.ctrl
  /\ Handled("ESTABLISHED", clstate[s])

\* Any packet may be the one that completes CL_CLOSE: close() here sends a FIN,
\* and so does the other end's FIN.  An acknowledgement that finds it complete
\* closes the socket.
HandleEstablished(p) ==
  LET s == at["loop"] IN
  /\ Handles(p) /\ state[s] = "ESTABLISHED"
  /\ \E cl \in {clstate[s], clstate[s] \cup {"CLOSE"}} :
       \/ "ACK" \in p.ctrl /\ "CLOSE" \in cl /\ Handled("CLOSED", cl)
       \/ ~("ACK" \in p.ctrl /\ "CLOSE" \in clstate[s]) /\ Handled(state[s], cl)

\* TCPHandleListen, with the listening socket locked, calls allocSocket.
HandleListen(p) ==
  /\ Handles(p)
  /\ state[at["loop"]] = "LISTEN" /\ "SYN" \in p.ctrl
  /\ Goto("loop", "child", at["loop"])
  /\ UNCHANGED <<lockVars, sockVars, packet, histVars>>

\* allocSocket has the list's mutex: the child is made and the listening
\* socket unlocked.
Child ==
  LET s == at["loop"]  child == nextFd IN
  /\ pc["loop"] = "child" /\ listLock = Nobody
  /\ linked' = linked \cup {child} /\ nextFd' = child + 1
  /\ state' = [state EXCEPT ![child] = "SYS_RECV"]
  /\ bound' = [bound EXCEPT ![child] = bound[s]]
  /\ peer' = [peer EXCEPT ![child] = {p.from : p \in packet}]
  /\ parent' = [parent EXCEPT ![child] = s]
  /\ Unlock("loop", "idle", 0)
  /\ packet' = {}
  /\ UNCHANGED <<listLock, clstate, histVars>>

\* asyncSendTCPPacket: every socket in turn.
AsyncBegin ==
  /\ Begin("loop", "idle", "async")
  /\ UNCHANGED <<linked, nextFd, lock, sockVars, packet, histVars>>

Async ==
  /\ Visits("loop", "async")
  /\ WalkTo("loop", "async", NextAfter(at["loop"]))
  /\ UNCHANGED <<linked, nextFd, lock, sockVars, packet, histVars>>

Next ==
  \/ \E t \in Apps :
       \/ Call(t) \/ Socket(t) \/ FindBegin(t) \/ Find(t)
       \/ Bind(t) \/ Listen(t) \/ AcceptBegin(t) \/ Accept(t)
       \/ Connect(t) \/ ConnectReturn(t) \/ ConnectBad(t)
       \/ IoBegin(t) \/ IoSpin(t) \/ IoCopy(t)
       \/ CloseBegin(t) \/ CloseSpin(t) \/ FreeUnlink(t) \/ Free(t)
  \/ \E p \in packet :
       \/ HandleIgnored(p) \/ HandleHandshake(p) \/ HandleEstablished(p)
       \/ HandleListen(p)
  \/ PacketComes \/ MatchBegin \/ Match \/ MatchListener \/ Child
  \/ AsyncBegin \/ Async

Spec == Init /\ [][Next]_vars

-----------------------------------------------------------------------------
\* What runs is scheduled, and a lock that is free again and again is got in
\* the end: nobody keeps one while it waits for the network.
AppStep(t) ==
  \/ Socket(t) \/ FindBegin(t) \/ Find(t)
  \/ Bind(t) \/ Listen(t) \/ AcceptBegin(t) \/ Accept(t)
  \/ Connect(t) \/ ConnectReturn(t) \/ ConnectBad(t)
  \/ IoBegin(t) \/ IoCopy(t)
  \/ CloseBegin(t) \/ CloseSpin(t) \/ FreeUnlink(t) \/ Free(t)
LoopStep ==
  \/ \E p \in packet :
       \/ HandleIgnored(p) \/ HandleHandshake(p) \/ HandleEstablished(p)
       \/ HandleListen(p)
  \/ MatchBegin \/ Match \/ MatchListener \/ Child \/ Async

FairSpec == Spec /\ SF_vars(LoopStep) /\ \A t \in Apps : SF_vars(AppStep(t))

-----------------------------------------------------------------------------
(* Properties.                                                             *)

\* What is in the list exists and has not been freed.
TypeOK ==
  /\ nextFd \in 1 .. MaxSocket + 1
  /\ linked \subseteq {s \in Sockets : state[s] \notin {"NONE", "FREED"}}
  /\ listLock \in Threads \cup {Nobody}
  /\ lock \in [Sockets -> Threads \cup {Nobody}]
  /\ state \in [Sockets -> {"NONE", "CLOSED", "LISTEN", "SYS_SENT", "SYS_RECV",
                            "ESTABLISHED", "FREED"}]
  /\ bound \in [Sockets -> BOOLEAN]
  /\ peer \in [Sockets -> SUBSET Peers]
  /\ parent \in [Sockets -> {0} \cup Sockets]
  /\ clstate \in [Sockets -> SUBSET {"CALL", "CLOSE"}]
  /\ at \in [Threads -> {0} \cup Sockets]
  /\ fd \in [Apps -> {0} \cup Sockets]
  /\ packet \in SUBSET Packet /\ Cardinality(packet) <= 1
  /\ user \in [Sockets -> Apps \cup {Nobody}]
  /\ accepted \in [Sockets -> Nat]

\* A thread that waits for a socket's mutex, holds it, or reads the socket in
\* a busy-wait, does so while the socket has not been freed.
NoUseAfterFree == \A t \in Threads : at[t] # 0 => state[at[t]] # "FREED"

\* accept() returns a connection once, to one of the threads that wait for one.
AcceptedOnce == \A s \in Sockets : accepted[s] <= 1

\* A remote end has one socket here, however often it sends its SYN: packets
\* of a connection find their socket, not the listening one.
OneSocketPerPeer ==
  \A s, u \in linked : peer[s] \cap peer[u] # {} => s = u

\* Whom a thread waits for.
BlockedBy(t) ==
  CASE pc[t] \in {"socket", "call", "accept", "unlink", "packet", "child"} ->
         {listLock} \ {Nobody}
    [] pc[t] \in {"find", "copy", "free", "match", "listener", "async"} ->
         {lock[at[t]]} \ {Nobody}
    [] OTHER -> {}

\* Threads never wait for each other in a circle.
NoCircularWait ==
  \A S \in (SUBSET Threads) \ {{}} : \E t \in S : BlockedBy(t) \cap S = {}

\* The search that begins a call ends.
FindReturns ==
  \A t \in Apps : pc[t] \in {"call", "find"} ~> pc[t] \notin {"call", "find"}
=============================================================================
