------------------------------ MODULE TcpConn -------------------------------
(***************************************************************************)
(* One TCP connection of the stack, from connect() to the release of both  *)
(* sockets: the client's socket, the child socket the server's listener    *)
(* creates for it, the loop thread of each host (packet handlers and       *)
(* asyncSendTCPPacket, transport/loopthread.c) and the application threads *)
(* (readLab, writeLab, closeLab..., transport/mainthread.c).               *)
(*                                                                         *)
(* What runs under a socket's mutex is one step.  What an application      *)
(* thread reads without the mutex, the busy-wait loops of read, write and  *)
(* close, is a step of its own, so that the loop thread may run between    *)
(* the test of a loop and the copy under the lock that follows it.         *)
(*                                                                         *)
(* The path between the hosts is a FIFO channel each way that may lose     *)
(* packets of the kinds in Lossy.  A byte is its position in the stream    *)
(* (1, 2, ...); Garbage is what an uninitialised cell of a buffer holds.   *)
(***************************************************************************)
EXTENDS RingWord

CONSTANTS
  MSS,        \* MAX_TCP_LEN: the most bytes one segment carries
  Threads,    \* application threads
  Owner,      \* Owner[t]: the end whose application runs thread t
  Calls,      \* Calls[t]: the calls thread t makes on the connection
  IoSizes,    \* the nbyte arguments of read and write
  Lossy,      \* the kinds of packet the network may lose
  MaxWrite,   \* bound: bytes the application of each end writes in all
  MaxNet      \* bound: the timer sends nothing with this much in flight

Ends == {"client", "server"}
Kinds == {"SYN", "FIN", "ACK", "DATA"}
Garbage == 0

ASSUME ConnAssumption ==
  /\ MSS \in Word \ {0}
  /\ Owner \in [Threads -> Ends]
  /\ Calls \in [Threads -> SUBSET {"read", "write", "close", "closeAtEof"}]
  \* A thread that frees a socket is the only one that uses it.
  /\ \A t, u \in Threads :
       t # u /\ Owner[t] = Owner[u] =>
         Calls[t] \cap {"close", "closeAtEof"} = {}
  /\ IoSizes \subseteq Word \ {0}
  /\ Lossy \subseteq Kinds
  /\ MaxWrite \in [Ends -> Nat]
  /\ MaxNet \in Nat

VARIABLES
  state,         \* enum TCPState of the socket; NONE and FREED: no socket
  clstate,       \* enum CLOSEState, as the set of its bits
  isConnection,
  sendFront, sendBack, ackFront, ackBack,  \* the write buffer's cursors
  recvFront, recvBack,                     \* the read buffer's cursors
  seqNum, ackNum,
  readBuffer, writeBuffer,
  net,           \* net[e]: the packets on their way to e, oldest first
  app,           \* how far the application of an end has opened it
  pc, arg,       \* per thread: where it is, and its nbyte/recvByte/sendByte
  written,       \* history: bytes write() has accepted at an end
  readLog,       \* history: the bytes read() has returned at an end
  eof            \* history: read() has returned 0 at an end

ctlVars == <<state, clstate, isConnection>>
sendVars == <<sendFront, sendBack, ackFront, ackBack, seqNum, writeBuffer>>
recvVars == <<recvFront, recvBack, ackNum, readBuffer>>
threadVars == <<pc, arg>>
histVars == <<written, readLog, eof>>
vars == <<ctlVars, sendVars, recvVars, net, app, threadVars, histVars>>

-----------------------------------------------------------------------------
Peer(e) == IF e = "client" THEN "server" ELSE "client"

States == {"NONE", "CLOSED", "SYS_SENT", "SYS_RECV", "ESTABLISHED", "FREED"}
CloseBits == {"CALL", "FIN_SENT", "ACK_SENT", "FIN_RECV", "ACK_RECV"}
CL_CLOSE == {"FIN_SENT", "ACK_SENT", "FIN_RECV", "ACK_RECV"}
Byte == Nat
Buffer == [Word -> Byte]

Packet == [ctrl : SUBSET {"SYN", "ACK", "FIN"}, seq : SeqNo, ack : SeqNo,
           window : Word, data : Seq(Byte)]

\* What the network tells packets apart by.  randomDrop() looks at the
\* control byte: the packets it may drop, control bits all clear, are DATA.
KindOf(p) == IF "SYN" \in p.ctrl THEN "SYN"
             ELSE IF "FIN" \in p.ctrl THEN "FIN"
             ELSE IF "ACK" \in p.ctrl THEN "ACK" ELSE "DATA"

Segment(ctrl, seq, ack, window, data) ==
  [ctrl |-> ctrl, seq |-> seq, ack |-> ack, window |-> window, data |-> data]

-----------------------------------------------------------------------------
Init ==
  /\ state = [e \in Ends |-> IF e = "client" THEN "CLOSED" ELSE "NONE"]
  /\ clstate = [e \in Ends |-> {}]
  /\ isConnection = [e \in Ends |-> FALSE]
  /\ sendFront = [e \in Ends |-> 0]
  /\ sendBack = [e \in Ends |-> 0]
  /\ ackFront = [e \in Ends |-> 0]
  /\ ackBack = [e \in Ends |-> 0]
  /\ recvFront = [e \in Ends |-> 0]
  /\ recvBack = [e \in Ends |-> 0]
  /\ seqNum = [e \in Ends |-> Zero]
  /\ ackNum = [e \in Ends |-> Zero]
  /\ readBuffer = [e \in Ends |-> [k \in Word |-> Garbage]]
  /\ writeBuffer = [e \in Ends |-> [k \in Word |-> Garbage]]
  /\ net = [e \in Ends |-> <<>>]
  /\ app = [e \in Ends |-> "opening"]
  /\ pc = [t \in Threads |-> "idle"]
  /\ arg = [t \in Threads |-> 0]
  /\ written = [e \in Ends |-> 0]
  /\ readLog = [e \in Ends |-> <<>>]
  /\ eof = [e \in Ends |-> FALSE]

-----------------------------------------------------------------------------
(* Opening: connectLab, the listener's handler, the handshake handlers.    *)

\* connectLab up to the wait on mutex2: the SYN goes out once, never again.
Connect ==
  /\ app["client"] = "opening" /\ state["client"] = "CLOSED"
  /\ app' = [app EXCEPT !["client"] = "waiting"]
  /\ state' = [state EXCEPT !["client"] = "SYS_SENT"]
  /\ seqNum' = [seqNum EXCEPT !["client"] = MinusOne]
  /\ ackNum' = [ackNum EXCEPT !["client"] = Zero]
  /\ net' = [net EXCEPT !["server"] =
               Append(@, Segment({"SYN"}, MinusOne, Zero, M - 1, <<>>))]
  /\ UNCHANGED <<clstate, isConnection, sendFront, sendBack, ackFront,
                 ackBack, writeBuffer, recvFront, recvBack, readBuffer,
                 threadVars, histVars>>

\* connectLab returns once TCPHandleSyssent has unlocked mutex2.
ConnectReturn ==
  /\ app["client"] = "waiting" /\ state["client"] # "SYS_SENT"
  /\ app' = [app EXCEPT !["client"] = "open"]
  /\ UNCHANGED <<ctlVars, sendVars, recvVars, net, threadVars, histVars>>

\* acceptLab finds the child of its listener in ESTABLISTED, in that state
\* only, and clears its parentListenFd.
Accept ==
  /\ app["server"] = "opening" /\ state["server"] = "ESTABLISHED"
  /\ app' = [app EXCEPT !["server"] = "open"]
  /\ UNCHANGED <<ctlVars, sendVars, recvVars, net, threadVars, histVars>>

\* The handler takes the head of net[e] and sends `replies`.
Handled(e, replies) ==
  net' = [net EXCEPT ![e] = Tail(@), ![Peer(e)] = @ \o replies]

\* TCPHandleListen: a SYN makes the child socket and answers SYN|ACK.
HandleListen(e, p) ==
  /\ e = "server" /\ state[e] = "NONE" /\ "SYN" \in p.ctrl
  /\ state' = [state EXCEPT ![e] = "SYS_RECV"]
  /\ clstate' = [clstate EXCEPT ![e] = {}]
  /\ seqNum' = [seqNum EXCEPT ![e] = MinusOne]
  /\ ackNum' = [ackNum EXCEPT ![e] = Adv(p.seq, 1)]
  /\ Handled(e, <<Segment({"SYN", "ACK"}, MinusOne, Adv(p.seq, 1),
                          M - 1, <<>>)>>)
  /\ UNCHANGED <<isConnection, sendFront, sendBack, ackFront, ackBack,
                 writeBuffer, recvFront, recvBack, readBuffer, app,
                 threadVars, histVars>>

\* What TCPHandleSyssent and TCPHandleSysrecv both do to open the buffers.
OpenBuffers(e) ==
  /\ sendFront' = [sendFront EXCEPT ![e] = 0]
  /\ sendBack' = [sendBack EXCEPT ![e] = 0]
  /\ ackFront' = [ackFront EXCEPT ![e] = M - 1]
  /\ ackBack' = [ackBack EXCEPT ![e] = 0]
  /\ recvFront' = [recvFront EXCEPT ![e] = 0]
  /\ recvBack' = [recvBack EXCEPT ![e] = 0]
  /\ readBuffer' = [readBuffer EXCEPT ![e] = [k \in Word |-> Garbage]]
  /\ writeBuffer' = [writeBuffer EXCEPT ![e] = [k \in Word |-> Garbage]]
  /\ seqNum' = [seqNum EXCEPT ![e] = Adv(@, 1)]
  /\ isConnection' = [isConnection EXCEPT ![e] = TRUE]
  /\ state' = [state EXCEPT ![e] = "ESTABLISHED"]

HandleSyssent(e, p) ==
  /\ state[e] = "SYS_SENT" /\ {"SYN", "ACK"} \subseteq p.ctrl
  /\ OpenBuffers(e)
  /\ ackNum' = [ackNum EXCEPT ![e] = Adv(p.seq, 1)]
  /\ Handled(e, <<Segment({"ACK"}, Zero, Adv(p.seq, 1), M - 1, <<>>)>>)
  /\ UNCHANGED <<clstate, app, threadVars, histVars>>

HandleSysrecv(e, p) ==
  /\ state[e] = "SYS_RECV" /\ "ACK" \in p.ctrl
  /\ OpenBuffers(e)
  /\ Handled(e, <<>>)
  /\ UNCHANGED <<clstate, ackNum, app, threadVars, histVars>>

\* Packets no handler reacts to: the socket is CLOSED, freed or not made
\* yet, or the control bits are not those its state waits for.
HandleIgnored(e, p) ==
  /\ \/ state[e] \in {"CLOSED", "FREED"}
     \/ state[e] = "NONE" /\ "SYN" \notin p.ctrl
     \/ state[e] = "SYS_SENT" /\ ~({"SYN", "ACK"} \subseteq p.ctrl)
     \/ state[e] = "SYS_RECV" /\ "ACK" \notin p.ctrl
  /\ Handled(e, <<>>)
  /\ UNCHANGED <<ctlVars, sendVars, recvVars, app, threadVars, histVars>>
-----------------------------------------------------------------------------
\* TCPHandleEstablished, in the order of the code: the acknowledgement, then
\* the FIN, then the data.  Each part works on what the part before it left.

\* Mutant of AckHit: an acknowledgement is not compared with sendBack.
AckHitAny(e, p) == "ACK" \in p.ctrl

\* The acknowledgement counts when its low 16 bits are exactly sendBack.
AckHit(e, p) == "ACK" \in p.ctrl /\ p.ack.lo = sendBack[e]

\* Mutants: the difference is taken from the other direction's number; the
\* window is counted from the old ackBack.
AckDiffOfAckNum(e, p) == Sub(p.ack.lo, ackNum[e].lo)
AckFrontOfOldBack(e, p) == Add(ackBack[e], p.window)

\* ackBack moves on by the difference of the sequence numbers, and the window
\* counts from there.
AckDiff(e, p) == Sub(p.ack.lo, seqNum[e].lo)
AckBackAfter(e, p) == Add(ackBack[e], AckDiff(e, p))
AckFrontAfter(e, p) == Add(AckBackAfter(e, p), p.window)

\* clstate after the ACK part: any ACK at all answers a FIN that was sent.
ClAfterAck(e, p) ==
  clstate[e] \cup (IF "ACK" \in p.ctrl /\ "FIN_SENT" \in clstate[e]
                   THEN {"ACK_RECV"} ELSE {})

\* Mutant of Closes: close() was called and an ACK comes.
ClosesOnCall(e, p) == "ACK" \in p.ctrl /\ "CALL" \in clstate[e]

\* The connection closes only when an ACK arrives and all four bits are set.
Closes(e, p) == "ACK" \in p.ctrl /\ CL_CLOSE \subseteq ClAfterAck(e, p)

\* Mutant of InOrder: the sequence number is not looked at.
InOrderNever(e, p) == p.seq \in SeqNo

\* Data is taken only in order; what does not fit would be cut off.
InOrder(e, p) == p.seq = ackNum[e]
Window(e) == Space(recvBack[e], recvFront[e])
ValidLen(e, p) == IF InOrder(e, p) THEN Min2(Len(p.data), Window(e)) ELSE 0

HandleEstablished(e, p) ==
  LET seq1    == IF AckHit(e, p) THEN p.ack ELSE seqNum[e]
      n       == ValidLen(e, p)
      takes   == p.data # <<>> /\ InOrder(e, p)
      probe   == ~takes /\ p.ctrl = {} /\ InOrder(e, p)
      ackNum1 == Adv(ackNum[e], n)
      front1  == Add(recvFront[e], n)
  IN
  /\ state[e] = "ESTABLISHED"
  /\ IF AckHit(e, p)
     THEN /\ ackBack' = [ackBack EXCEPT ![e] = AckBackAfter(e, p)]
          /\ ackFront' = [ackFront EXCEPT ![e] = AckFrontAfter(e, p)]
          /\ seqNum' = [seqNum EXCEPT ![e] = p.ack]
     ELSE UNCHANGED <<ackBack, ackFront, seqNum>>
  /\ clstate' = [clstate EXCEPT ![e] = ClAfterAck(e, p) \cup
                   (IF "FIN" \in p.ctrl THEN {"FIN_RECV", "ACK_SENT"} ELSE {})]
  /\ IF Closes(e, p)
     THEN /\ isConnection' = [isConnection EXCEPT ![e] = FALSE]
          /\ state' = [state EXCEPT ![e] = "CLOSED"]
     ELSE UNCHANGED <<isConnection, state>>
  /\ readBuffer' = [readBuffer EXCEPT ![e] =
                      RingWrite(@, recvFront[e], SubSeq(p.data, 1, n))]
  /\ ackNum' = [ackNum EXCEPT ![e] = ackNum1]
  /\ recvFront' = [recvFront EXCEPT ![e] = front1]
  /\ Handled(e,
       (IF "FIN" \in p.ctrl
        THEN <<Segment({"ACK"}, seq1, Adv(ackNum[e], 1), Window(e), <<>>)>>
        ELSE <<>>) \o
       (IF takes \/ probe
        THEN <<Segment({"ACK"}, seq1, ackNum1,
                       Space(recvBack[e], front1), <<>>)>>
        ELSE <<>>))
  /\ UNCHANGED <<sendFront, sendBack, writeBuffer, recvBack, app,
                 threadVars, histVars>>

\* handleTCPPacket and handleTCPMain: the oldest packet on its way to e goes
\* to the handler of the state of the socket it matches.
Receive(e) ==
  /\ net[e] # <<>>
  /\ LET p == Head(net[e]) IN
     \/ HandleListen(e, p)
     \/ HandleSyssent(e, p)
     \/ HandleSysrecv(e, p)
     \/ HandleEstablished(e, p)
     \/ HandleIgnored(e, p)

\* The network loses the packet.
Lose(e) ==
  /\ net[e] # <<>> /\ KindOf(Head(net[e])) \in Lossy
  /\ net' = [net EXCEPT ![e] = Tail(@)]
  /\ UNCHANGED <<ctlVars, sendVars, recvVars, app, threadVars, histVars>>

-----------------------------------------------------------------------------
(* asyncSendTCPPacket: one visit of the loop thread to the socket of e.    *)
(* `expired` stands for resendTime < nowtime.                              *)

Unacked(e) == sendBack[e] # ackBack[e]
WindowShut(e) == ackBack[e] = ackFront[e]

\* Mutant of NewLen: the peer's window is not looked at.
NewLenNoWindow(e) ==
  IF Unacked(e) THEN 0 ELSE Min2(MSS, Sub(sendFront[e], sendBack[e]))

\* Stop and wait: there is new data to send only when all that was sent is
\* acknowledged and the window is open.
NewLen(e) ==
  IF Unacked(e) \/ WindowShut(e) THEN 0
  ELSE Min2(MSS, Min2(Sub(sendFront[e], sendBack[e]),
                      Sub(ackFront[e], sendBack[e])))

\* Mutants of SendsData: no window probe; no resend.
SendsDataNoProbe(e, expired) == (Unacked(e) /\ expired) \/ NewLen(e) > 0
SendsDataOnce(e, expired) == (WindowShut(e) /\ expired) \/ NewLen(e) > 0

\* The data part sends: a resend of all that is not acknowledged, a window
\* probe (which is empty), or new data.  Each of them arms the timer.
SendsData(e, expired) ==
  \/ (Unacked(e) \/ WindowShut(e)) /\ expired
  \/ NewLen(e) > 0

\* Mutant of DataSegment: a resend starts at sendBack.
DataSegmentOfSendBack(e) ==
  Segment({}, seqNum[e], ackNum[e], M - 1,
          RingRead(writeBuffer[e], sendBack[e],
                   Sub(Add(sendBack[e], NewLen(e)), ackBack[e])))

DataSegment(e) ==
  Segment({}, seqNum[e], ackNum[e], M - 1,
          RingRead(writeBuffer[e], ackBack[e],
                   Sub(Add(sendBack[e], NewLen(e)), ackBack[e])))

\* Mutants of SendsFin: what is written and not sent yet is forgotten; the
\* peer's FIN is not a reason to send one; no reason is asked for.
SendsFinEarly(e, expired) ==
  /\ ~Unacked(e) /\ "FIN_SENT" \notin clstate[e]
  /\ {"FIN_RECV", "ACK_SENT"} \subseteq clstate[e] \/ "CALL" \in clstate[e]
SendsFinOnCall(e, expired) ==
  /\ ~Unacked(e) /\ sendBack[e] = sendFront[e]
  /\ "CALL" \in clstate[e] /\ "FIN_SENT" \notin clstate[e]
SendsFinUnasked(e, expired) ==
  /\ ~Unacked(e) /\ sendBack[e] = sendFront[e]
  /\ "FIN_SENT" \notin clstate[e]

\* The FIN part, on what the data part left: everything written is
\* acknowledged, and the peer's FIN is answered or close() was called.
SendsFin(e, expired) ==
  /\ ~Unacked(e) /\ sendBack[e] = sendFront[e]
  /\ {"FIN_RECV", "ACK_SENT"} \subseteq clstate[e] \/ "CALL" \in clstate[e]
  /\ \/ "FIN_SENT" \notin clstate[e]
     \/ /\ "ACK_RECV" \notin clstate[e]
        /\ expired /\ ~SendsData(e, expired)

FinSegment(e) == Segment({"FIN"}, seqNum[e], ackNum[e], M - 1, <<>>)

AsyncSend(e) ==
  \E expired \in BOOLEAN :
    /\ isConnection[e]
    /\ SendsData(e, expired) \/ SendsFin(e, expired)
    /\ expired => Len(net[e]) + Len(net[Peer(e)]) < MaxNet
    /\ sendBack' = [sendBack EXCEPT ![e] = Add(@, NewLen(e))]
    /\ clstate' = [clstate EXCEPT ![e] =
                     IF SendsFin(e, expired) THEN @ \cup {"FIN_SENT"} ELSE @]
    /\ net' = [net EXCEPT ![Peer(e)] = @ \o
                 (IF SendsData(e, expired) THEN <<DataSegment(e)>> ELSE <<>>) \o
                 (IF SendsFin(e, expired) THEN <<FinSegment(e)>> ELSE <<>>)]
    /\ UNCHANGED <<state, isConnection, sendFront, ackFront, ackBack, seqNum,
                   writeBuffer, recvVars, app, threadVars, histVars>>

-----------------------------------------------------------------------------
(* The application's calls.  A thread runs one call at a time.             *)

\* Thread t enters the call: findSocket finds the socket.
Enters(t, call) ==
  /\ pc[t] = "idle" /\ call \in Calls[t]
  /\ app[Owner[t]] = "open" /\ state[Owner[t]] # "FREED"

Goto(t, label) == pc' = [pc EXCEPT ![t] = label]

\* writeLab up to the unlock: the checks, under the mutex.
\* `socket->state & CL_CALL` tests a bit ST_ESTABLISTED does not have.
WriteCall(t) ==
  \E nbyte \in IoSizes : LET e == Owner[t] IN
    /\ Enters(t, "write") /\ written[e] + nbyte <= MaxWrite[e]
    /\ state[e] = "ESTABLISHED" /\ "FIN_RECV" \notin clstate[e]
    /\ Goto(t, "wspin") /\ arg' = [arg EXCEPT ![t] = nbyte]
    /\ UNCHANGED <<ctlVars, sendVars, recvVars, net, app, histVars>>

\* The busy-wait loop, without the mutex: the space, then the state.
SendSpace(e) == Space(ackBack[e], sendFront[e])

\* Mutant of WriteSpin: once there is room, all of nbyte is copied.
WriteSpinAll(t) ==
  /\ pc[t] = "wspin" /\ SendSpace(Owner[t]) > 0
  /\ Goto(t, "wcopy")
  /\ UNCHANGED <<ctlVars, sendVars, recvVars, net, app, arg, histVars>>

WriteSpin(t) ==
  /\ pc[t] = "wspin"
  /\ LET sendByte == Min2(arg[t], SendSpace(Owner[t])) IN
     IF sendByte > 0
     THEN Goto(t, "wcopy") /\ arg' = [arg EXCEPT ![t] = sendByte]
     ELSE Goto(t, "wstate") /\ UNCHANGED arg
  /\ UNCHANGED <<ctlVars, sendVars, recvVars, net, app, histVars>>

WriteState(t) ==
  /\ pc[t] = "wstate"
  /\ IF state[Owner[t]] = "CLOSED"
     THEN Goto(t, "idle") /\ arg' = [arg EXCEPT ![t] = 0]
     ELSE Goto(t, "wspin") /\ UNCHANGED arg
  /\ UNCHANGED <<ctlVars, sendVars, recvVars, net, app, histVars>>

\* The copy, under the mutex again, with nothing checked again.
WriteCopy(t) ==
  LET e == Owner[t] IN
  /\ pc[t] = "wcopy"
  /\ writeBuffer' = [writeBuffer EXCEPT ![e] =
       RingWrite(@, sendFront[e], [i \in 1 .. arg[t] |-> written[e] + i])]
  /\ sendFront' = [sendFront EXCEPT ![e] = Add(@, arg[t])]
  /\ written' = [written EXCEPT ![e] = @ + arg[t]]
  /\ Goto(t, "idle") /\ arg' = [arg EXCEPT ![t] = 0]
  /\ UNCHANGED <<ctlVars, sendBack, ackFront, ackBack, seqNum, recvVars, net,
                 app, readLog, eof>>

\* readLab: the bytes there are, then the state, without the mutex...
ReadCall(t) ==
  \E nbyte \in IoSizes :
    /\ Enters(t, "read") /\ ~eof[Owner[t]]
    /\ Goto(t, "rspin") /\ arg' = [arg EXCEPT ![t] = nbyte]
    /\ UNCHANGED <<ctlVars, sendVars, recvVars, net, app, histVars>>

RecvSpace(e) == Sub(recvFront[e], recvBack[e])

\* Mutant of ReadSpin: once there is a byte, nbyte of them are copied.
ReadSpinAll(t) ==
  /\ pc[t] = "rspin" /\ RecvSpace(Owner[t]) > 0
  /\ Goto(t, "rcopy")
  /\ UNCHANGED <<ctlVars, sendVars, recvVars, net, app, arg, histVars>>

ReadSpin(t) ==
  /\ pc[t] = "rspin"
  /\ LET recvByte == Min2(arg[t], RecvSpace(Owner[t])) IN
     IF recvByte > 0
     THEN Goto(t, "rcopy") /\ arg' = [arg EXCEPT ![t] = recvByte]
     ELSE Goto(t, "rstate") /\ UNCHANGED arg
  /\ UNCHANGED <<ctlVars, sendVars, recvVars, net, app, histVars>>

ReadState(t) ==
  /\ pc[t] = "rstate"
  /\ IF state[Owner[t]] = "CLOSED"
     THEN /\ Goto(t, "idle") /\ arg' = [arg EXCEPT ![t] = 0]
          /\ eof' = [eof EXCEPT ![Owner[t]] = TRUE]
     ELSE Goto(t, "rspin") /\ UNCHANGED <<arg, eof>>
  /\ UNCHANGED <<ctlVars, sendVars, recvVars, net, app, written, readLog>>

\* ...then the copy under it.
ReadCopy(t) ==
  LET e == Owner[t] IN
  /\ pc[t] = "rcopy"
  /\ readLog' = [readLog EXCEPT ![e] =
                   @ \o RingRead(readBuffer[e], recvBack[e], arg[t])]
  /\ recvBack' = [recvBack EXCEPT ![e] = Add(@, arg[t])]
  /\ Goto(t, "idle") /\ arg' = [arg EXCEPT ![t] = 0]
  /\ UNCHANGED <<ctlVars, sendVars, recvFront, ackNum, readBuffer, net, app,
                 written, eof>>

\* closeLab: the call is recorded, then the thread waits for the connection
\* to close, sleeps and frees the socket, which no packet matches from then on.
\* A thread with "close" closes at any time; one with "closeAtEof" closes as
\* the programs of test/lab3 do, when read has returned 0.
CloseCall(t) ==
  /\ \/ Enters(t, "close")
     \/ Enters(t, "closeAtEof") /\ eof[Owner[t]]
  /\ clstate' = [clstate EXCEPT ![Owner[t]] = @ \cup {"CALL"}]
  /\ Goto(t, "cspin") /\ UNCHANGED arg
  /\ UNCHANGED <<state, isConnection, sendVars, recvVars, net, app, histVars>>

CloseSpin(t) ==
  /\ pc[t] = "cspin"
  /\ clstate[Owner[t]] = CloseBits \/ state[Owner[t]] = "CLOSED"
  /\ Goto(t, "cfree") /\ UNCHANGED arg
  /\ UNCHANGED <<ctlVars, sendVars, recvVars, net, app, histVars>>

CloseFree(t) ==
  /\ pc[t] = "cfree"
  /\ state' = [state EXCEPT ![Owner[t]] = "FREED"]
  /\ isConnection' = [isConnection EXCEPT ![Owner[t]] = FALSE]
  /\ Goto(t, "done") /\ UNCHANGED arg
  /\ UNCHANGED <<clstate, sendVars, recvVars, net, app, histVars>>

-----------------------------------------------------------------------------
\* What goes on by itself, and what the application decides.
Work(t) == \/ WriteSpin(t) \/ WriteState(t) \/ WriteCopy(t)
           \/ ReadSpin(t) \/ ReadState(t) \/ ReadCopy(t)
           \/ CloseSpin(t) \/ CloseFree(t)
Call(t) == WriteCall(t) \/ ReadCall(t) \/ CloseCall(t)

Next ==
  \/ Connect \/ ConnectReturn \/ Accept
  \/ \E e \in Ends : Receive(e) \/ Lose(e) \/ AsyncSend(e)
  \/ \E t \in Threads : Call(t) \/ Work(t)

Spec == Init /\ [][Next]_vars

\* The kernel schedules every thread: the loop thread comes back to the
\* socket and takes what has arrived, and a thread inside a call goes on.  A
\* packet of a kind that may get lost is not lost every time it is sent.
ReceiveKind(e, k) == net[e] # <<>> /\ KindOf(Head(net[e])) = k /\ Receive(e)

FairSystem ==
  /\ WF_vars(Connect) /\ WF_vars(ConnectReturn) /\ WF_vars(Accept)
  /\ \A e \in Ends : WF_vars(Receive(e)) /\ WF_vars(AsyncSend(e))
  /\ \A e \in Ends : \A k \in Lossy : SF_vars(ReceiveKind(e, k))
  /\ \A t \in Threads : WF_vars(Work(t))

\* An application that goes on calling read.
FairReader == \A t \in Threads : WF_vars(ReadCall(t))

FairSpec == Spec /\ FairSystem /\ FairReader

-----------------------------------------------------------------------------
(* Properties.                                                             *)

Labels == {"idle", "wspin", "wstate", "wcopy", "rspin", "rstate", "rcopy",
           "cspin", "cfree", "done"}

\* Every field of struct Socket, every packet and every thread keeps the type
\* and the width the code gives it.
TypeOK ==
  /\ state \in [Ends -> States]
  /\ clstate \in [Ends -> SUBSET CloseBits]
  /\ isConnection \in [Ends -> BOOLEAN]
  /\ sendFront \in [Ends -> Word] /\ sendBack \in [Ends -> Word]
  /\ ackFront \in [Ends -> Word] /\ ackBack \in [Ends -> Word]
  /\ recvFront \in [Ends -> Word] /\ recvBack \in [Ends -> Word]
  /\ seqNum \in [Ends -> SeqNo] /\ ackNum \in [Ends -> SeqNo]
  /\ readBuffer \in [Ends -> Buffer] /\ writeBuffer \in [Ends -> Buffer]
  /\ net \in [Ends -> Seq(Packet)]
  /\ app \in [Ends -> {"opening", "waiting", "open"}]
  /\ pc \in [Threads -> Labels] /\ arg \in [Threads -> Word]
  /\ written \in [Ends -> Nat] /\ readLog \in [Ends -> Seq(Byte)]
  /\ eof \in [Ends -> BOOLEAN]

\* How far each end is in the stream, counted from its first byte: what e has
\* sent and knows to be received, and what has arrived at e.
SentBytes(e) == written[e] - Sub(sendFront[e], sendBack[e])
AckedBytes(e) == SentBytes(e) - Sub(sendBack[e], ackBack[e])
ReceivedBytes(e) == Len(readLog[e]) + RecvSpace(e)
\* The last byte the peer's window lets e send.
SendLimit(e) == AckedBytes(e) + Sub(ackFront[e], ackBack[e])

\* The assertion on ackBack of TCPHandleEstablished (line 165) holds for the
\* packet an established socket takes next: moving ackBack by the difference
\* of the 32-bit numbers brings it to the low half of the acknowledgement.
AckAssertHolds ==
  \A e \in Ends : state[e] = "ESTABLISHED" /\ net[e] # <<>> =>
    LET p == Head(net[e]) IN
    AckHit(e, p) => AckBackAfter(e, p) = p.ack.lo

\* So does the one on the length (line 199): a sender that keeps to the window
\* it was last given never sends in order what the read buffer cannot hold.
LenAssertHolds ==
  \A e \in Ends : state[e] = "ESTABLISHED" /\ net[e] # <<>> =>
    LET p == Head(net[e]) IN InOrder(e, p) => Len(p.data) <= Window(e)

\* One thread at most reads, and one writes, at each end: readLab notes that
\* concurrent callers are still to be dealt with ("TODO", line 232).
OneThreadPerCall ==
  \A t, u \in Threads : \A call \in {"read", "write"} :
    Owner[t] = Owner[u] /\ call \in Calls[t] /\ call \in Calls[u] => t = u

\* "From here on our side may not call write" (the comment at loopthread.c:181,
\* where a FIN is taken): no call of write() accepts a byte any more.
NoWriteAfterFin ==
  [][\A e \in Ends : "FIN_RECV" \in clstate[e] => written'[e] = written[e]]_vars

\* Nor does it accept one when its own end's FIN has gone, which would stand
\* behind the last thing this end says.
SilentStep ==
  \A e \in Ends : "FIN_SENT" \in clstate[e] => written'[e] = written[e]
SilentAfterFin == [][SilentStep]_vars

\* The applications that are sure to keep to it: an end that writes has a peer that
\* closes only when it has read to the end, as the programs of test/lab3 do.  A
\* peer that closes by itself may send its FIN while write() is between its test
\* of the state and its copy (line 287).
WriterCloses ==
  \A t, u \in Threads :
    "write" \in Calls[t] /\ "close" \in Calls[u] => Owner[t] = Owner[u]

\* The count a thread took without the mutex is still good when it copies
\* under it: a write has the room, a read has the bytes, whatever the loop
\* thread has done in between.
CopiesFit ==
  \A t \in Threads : LET e == Owner[t] IN
    /\ pc[t] = "wcopy" => arg[t] <= SendSpace(e)
    /\ pc[t] = "rcopy" => arg[t] <= RecvSpace(e)

\* What read() returns at an end is what write() took at the other: the bytes
\* 1, 2, 3, ... in order, none twice, none left out, none made up.
Integrity ==
  \A e \in Ends : /\ readLog[e] = [i \in 1 .. Len(readLog[e]) |-> i]
                  /\ Len(readLog[e]) <= written[Peer(e)]

\* A byte an end believes acknowledged, whose cell writeLab may then reuse,
\* is in the other end's read buffer or past it; and nothing is received
\* that was not sent.
NoFalseAck ==
  \A e \in Ends : /\ AckedBytes(e) <= ReceivedBytes(Peer(e))
                  /\ ReceivedBytes(Peer(e)) <= SentBytes(e)

\* The right edge of the window, once given, is never taken back, however the
\* acknowledgements, window updates and probe answers follow one another.
WindowNotRetracted ==
  [][\A e \in Ends : isConnection[e] => SendLimit(e)' >= SendLimit(e)]_vars

\* FIN is the last thing an end says: when it has come, all that the peer
\* ever writes has been received.
FinIsLast ==
  \A e \in Ends : "FIN_RECV" \in clstate[e] =>
                    ReceivedBytes(e) = written[Peer(e)]

\* An end whose stack takes the connection for closed has nothing left to
\* send, and the peer has all of it.
ClosedMeansDelivered ==
  \A e \in Ends : state[e] \in {"CLOSED", "FREED"} /\ app[e] # "opening" =>
                    ReceivedBytes(Peer(e)) = written[e]

\* slow_perf_client.c takes a read() of 0 for the end of the stream ("// EOF").
\* By then every byte of the peer has come in.  It need not have been read:
\* readLab looks at the buffer, then at the state, and the last bytes and the
\* close may come in between the two.
EofMeansArrived ==
  \A e \in Ends : eof[e] => ReceivedBytes(e) = written[Peer(e)]

\* What is written at one end is in the end read at the other, once both
\* applications have the connection.
AllDelivered ==
  \A e \in Ends : \A k \in 1 .. MaxWrite[e] :
    written[e] >= k /\ app[Peer(e)] = "open"
      ~> Len(readLog[Peer(e)]) >= k

\* close() "waits until [the connection] is completely closed" (mainthread.c,
\* line 314), and then returns.
CloseReturns == \A t \in Threads : pc[t] = "cspin" ~> pc[t] = "done"

-----------------------------------------------------------------------------
\* The connection seen as two byte streams.  It is over for an end when its
\* stack has closed it, which takes the peer's FIN.
Stream == INSTANCE ByteStream WITH
  Capacity <- M - 1,
  accepted <- written,
  arrived  <- [e \in Ends |-> ReceivedBytes(e)],
  returned <- readLog,
  closed   <- [e \in Ends |-> state[e] \in {"CLOSED", "FREED"}
                              /\ "FIN_RECV" \in clstate[e]]

\* Each step of the connection is a step of the two streams or leaves them as
\* they are: retransmissions, probes, stale acknowledgements and the races of
\* the unlocked loops do not show, and an end closes with both streams whole.
ImplementsStream == Stream!Spec

\* The same, and the streams get there.
ImplementsReliableStream == Stream!FairSpec
=============================================================================
