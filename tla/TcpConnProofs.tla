---------------------------- MODULE TcpConnProofs ---------------------------
(***************************************************************************)
(* What TLAPS proves of TcpConn, for every buffer size, segment size,      *)
(* amount of data, number of threads and set of losses.                    *)
(***************************************************************************)
EXTENDS TcpConn, SequenceTheorems, TLAPS

-----------------------------------------------------------------------------
(* Arithmetic of the fixed-width counters.                                 *)

\* Sums and differences of words are words, and what a call carries over from
\* one half of a sequence number to the other stays in range.
LEMMA WordClosed ==
  /\ \A x, y \in Word : /\ Add(x, y) \in Word /\ Sub(x, y) \in Word
                       /\ Space(x, y) \in Word
  /\ 0 \in Word /\ 1 \in Word /\ M - 1 \in Word
BY WordAssumption DEF Word, Add, Sub, Space

LEMMA SeqNoClosed ==
  /\ \A s \in SeqNo, n \in Word : Adv(s, n) \in SeqNo
  /\ Zero \in SeqNo /\ MinusOne \in SeqNo
  /\ Adv(MinusOne, 1) = Zero
BY WordAssumption DEF SeqNo, Word, Adv, Add, Zero, MinusOne

\* Reading n cells of a buffer gives n bytes; writing bytes leaves a buffer.
LEMMA RingClosed ==
  ASSUME NEW buf \in Buffer, NEW at \in Word
  PROVE  /\ \A n \in Word : /\ RingRead(buf, at, n) \in Seq(Byte)
                            /\ Len(RingRead(buf, at, n)) = n
         /\ \A data \in Seq(Byte) : RingWrite(buf, at, data) \in Buffer
<1>1. ASSUME NEW n \in Word
      PROVE  RingRead(buf, at, n) \in Seq(Byte) /\ Len(RingRead(buf, at, n)) = n
  <2>1. n \in Nat
    BY WordAssumption DEF Word
  <2>2. \A i \in 1 .. n : buf[Add(at, i - 1)] \in Byte
    BY WordAssumption DEF Buffer, Word, Add
  <2>. QED  BY <2>1, <2>2 DEF RingRead
<1>2. ASSUME NEW data \in Seq(Byte)
      PROVE  RingWrite(buf, at, data) \in Buffer
  <2>1. ASSUME NEW k \in Word, Sub(k, at) < Len(data)
        PROVE  data[Sub(k, at) + 1] \in Byte
    <3>1. Sub(k, at) + 1 \in 1 .. Len(data)
      BY <2>1, WordAssumption DEF Word, Sub
    <3>. QED  BY <3>1
  <2>. QED  BY <2>1 DEF RingWrite, Buffer
<1>. QED  BY <1>1, <1>2

-----------------------------------------------------------------------------
(* Type correctness.                                                       *)

LEMMA Singleton == \A x \in Packet : <<x>> \in Seq(Packet)
OBVIOUS

LEMMA HandledType ==
  ASSUME TypeOK, NEW e \in Ends, net[e] # <<>>,
         NEW replies \in Seq(Packet), Handled(e, replies)
  PROVE  net' \in [Ends -> Seq(Packet)]
<1>0. net \in [Ends -> Seq(Packet)]
  BY DEF TypeOK
<1>1. Tail(net[e]) \in Seq(Packet)
  BY <1>0
<1>2. net[Peer(e)] \o replies \in Seq(Packet)
  BY <1>0 DEF Peer, Ends
<1>. QED  BY <1>0, <1>1, <1>2 DEF Handled

LEMMA TypeInit == Init => TypeOK
BY WordClosed, SeqNoClosed, ConnAssumption
DEF Init, TypeOK, Ends, States, CloseBits, Buffer, Byte, Garbage, Labels, Word

\* The steps that open the connection keep the types.
LEMMA TypeOpen ==
  ASSUME TypeOK, Connect \/ ConnectReturn \/ Accept
  PROVE  TypeOK'
<1>1. CASE Connect
  <2>1. Segment({"SYN"}, MinusOne, Zero, M - 1, <<>>) \in Packet
    BY SeqNoClosed, WordClosed DEF Segment, Packet
  <2>2. Append(net["server"], Segment({"SYN"}, MinusOne, Zero, M - 1, <<>>))
          \in Seq(Packet)
    BY <2>1 DEF TypeOK, Ends
  <2>3. net' \in [Ends -> Seq(Packet)]
    BY <1>1, <2>2 DEF Connect, TypeOK, Ends
  <2>. QED
    BY <1>1, <2>3, SeqNoClosed
    DEF Connect, TypeOK, States, threadVars, histVars
<1>2. CASE ConnectReturn \/ Accept
  BY <1>2
  DEF ConnectReturn, Accept, TypeOK, ctlVars, sendVars, recvVars, threadVars,
      histVars
<1>. QED  BY <1>1, <1>2

\* So does every packet handler of a socket being opened or not there.
LEMMA TypeHandshake ==
  ASSUME TypeOK, NEW e \in Ends, net[e] # <<>>, NEW p \in Packet,
         \/ HandleListen(e, p) \/ HandleSyssent(e, p)
         \/ HandleSysrecv(e, p) \/ HandleIgnored(e, p)
  PROVE  TypeOK'
<1>1. Adv(p.seq, 1) \in SeqNo
  BY SeqNoClosed, WordClosed DEF Packet
<1>2. /\ Segment({"SYN", "ACK"}, MinusOne, Adv(p.seq, 1), M - 1, <<>>) \in Packet
      /\ Segment({"ACK"}, Zero, Adv(p.seq, 1), M - 1, <<>>) \in Packet
  BY <1>1, SeqNoClosed, WordClosed DEF Segment, Packet
<1>3. ASSUME OpenBuffers(e)
      PROVE  /\ sendFront' \in [Ends -> Word] /\ sendBack' \in [Ends -> Word]
             /\ ackFront' \in [Ends -> Word] /\ ackBack' \in [Ends -> Word]
             /\ recvFront' \in [Ends -> Word] /\ recvBack' \in [Ends -> Word]
             /\ readBuffer' \in [Ends -> Buffer]
             /\ writeBuffer' \in [Ends -> Buffer]
             /\ seqNum' \in [Ends -> SeqNo]
             /\ isConnection' \in [Ends -> BOOLEAN]
             /\ state' \in [Ends -> States]
  <2>1. Adv(seqNum[e], 1) \in SeqNo
    BY SeqNoClosed, WordClosed DEF TypeOK
  <2>2. [k \in Word |-> Garbage] \in Buffer
    BY DEF Buffer, Byte, Garbage
  <2>. QED  BY <1>3, <2>1, <2>2, WordClosed DEF OpenBuffers, TypeOK, States
<1>4. CASE HandleListen(e, p)
  <2>0. Handled(e, <<Segment({"SYN", "ACK"}, MinusOne, Adv(p.seq, 1), M - 1,
                             <<>>)>>)
    BY <1>4 DEF HandleListen
  <2>1. net' \in [Ends -> Seq(Packet)]
    BY <1>2, <2>0, Singleton, HandledType
  <2>. QED  BY <1>1, <1>4, <2>1, SeqNoClosed
            DEF HandleListen, TypeOK, States, CloseBits, threadVars, histVars
<1>5. CASE HandleSyssent(e, p)
  <2>0. Handled(e, <<Segment({"ACK"}, Zero, Adv(p.seq, 1), M - 1, <<>>)>>)
    BY <1>5 DEF HandleSyssent
  <2>1. net' \in [Ends -> Seq(Packet)]
    BY <1>2, <2>0, Singleton, HandledType
  <2>. QED  BY <1>1, <1>3, <1>5, <2>1 DEF HandleSyssent, TypeOK, threadVars, histVars
<1>6. CASE HandleSysrecv(e, p)
  <2>0. Handled(e, <<>>) /\ <<>> \in Seq(Packet)
    BY <1>6 DEF HandleSysrecv
  <2>1. net' \in [Ends -> Seq(Packet)]
    BY <2>0, HandledType
  <2>. QED  BY <1>3, <1>6, <2>1 DEF HandleSysrecv, TypeOK, threadVars, histVars
<1>7. CASE HandleIgnored(e, p)
  <2>0. Handled(e, <<>>) /\ <<>> \in Seq(Packet)
    BY <1>7 DEF HandleIgnored
  <2>1. net' \in [Ends -> Seq(Packet)]
    BY <2>0, HandledType
  <2>. QED
    BY <1>7, <2>1
    DEF HandleIgnored, TypeOK, ctlVars, sendVars, recvVars, threadVars, histVars
<1>. QED  BY <1>4, <1>5, <1>6, <1>7

\* What HandleEstablished takes of the data is a word and no more than there is.
LEMMA ValidLenType ==
  ASSUME TypeOK, NEW e \in Ends, NEW p \in Packet
  PROVE  /\ Window(e) \in Word /\ ValidLen(e, p) \in Word
         /\ ValidLen(e, p) <= Len(p.data) /\ ValidLen(e, p) <= Window(e)
<1>1. Window(e) \in Word
  BY WordClosed DEF Window, TypeOK
<1>2. Len(p.data) \in Nat
  BY DEF Packet
<1>. QED  BY <1>1, <1>2, WordAssumption DEF ValidLen, Min2, Word

\* The handler of an established socket keeps the types.
LEMMA TypeEstablished ==
  ASSUME TypeOK, NEW e \in Ends, net[e] # <<>>, NEW p \in Packet,
         HandleEstablished(e, p)
  PROVE  TypeOK'
<1>. DEFINE seq1 == IF AckHit(e, p) THEN p.ack ELSE seqNum[e]
            n == ValidLen(e, p)
            takes == p.data # <<>> /\ InOrder(e, p)
            probe == ~takes /\ p.ctrl = {} /\ InOrder(e, p)
            ackNum1 == Adv(ackNum[e], n)
            front1 == Add(recvFront[e], n)
            finAck == IF "FIN" \in p.ctrl
                      THEN <<Segment({"ACK"}, seq1, Adv(ackNum[e], 1),
                                     Window(e), <<>>)>> ELSE <<>>
            dataAck == IF takes \/ probe
                       THEN <<Segment({"ACK"}, seq1, ackNum1,
                                      Space(recvBack[e], front1), <<>>)>>
                       ELSE <<>>
<1>0. p.ack \in SeqNo /\ p.ack.lo \in Word /\ p.window \in Word
      /\ p.data \in Seq(Byte) /\ seqNum[e].lo \in Word
  BY DEF Packet, SeqNo, TypeOK
<1>1. n \in Word /\ n <= Len(p.data) /\ Window(e) \in Word
  BY ValidLenType
<1>2. AckBackAfter(e, p) \in Word /\ AckFrontAfter(e, p) \in Word
  BY <1>0, WordClosed DEF TypeOK, AckDiff, AckBackAfter, AckFrontAfter
<1>3. seq1 \in SeqNo /\ ackNum1 \in SeqNo /\ Adv(ackNum[e], 1) \in SeqNo
  BY <1>0, <1>1, WordClosed, SeqNoClosed DEF TypeOK
<1>4. front1 \in Word /\ Space(recvBack[e], front1) \in Word
  BY <1>1, WordClosed DEF TypeOK
<1>5. RingWrite(readBuffer[e], recvFront[e], SubSeq(p.data, 1, n)) \in Buffer
  <2>1. SubSeq(p.data, 1, n) \in Seq(Byte)
    BY <1>0, <1>1, WordAssumption DEF Word
  <2>. QED  BY <2>1, RingClosed DEF TypeOK
<1>6. net' \in [Ends -> Seq(Packet)]
  <2>0. /\ Segment({"ACK"}, seq1, Adv(ackNum[e], 1), Window(e), <<>>) \in Packet
        /\ Segment({"ACK"}, seq1, ackNum1, Space(recvBack[e], front1), <<>>)
             \in Packet
    BY <1>1, <1>3, <1>4 DEF Segment, Packet
  <2>1. finAck \in Seq(Packet) /\ dataAck \in Seq(Packet)
    BY <2>0, Singleton
  <2>2. finAck \o dataAck \in Seq(Packet)
    BY <2>1
  <2>3. Handled(e, finAck \o dataAck)
    BY DEF HandleEstablished
  <2>. QED  BY <2>2, <2>3, HandledType
<1>7. ackBack' \in [Ends -> Word] /\ ackFront' \in [Ends -> Word]
      /\ seqNum' \in [Ends -> SeqNo]
  <2>1. CASE AckHit(e, p)
    <3>1. /\ ackBack' = [ackBack EXCEPT ![e] = AckBackAfter(e, p)]
          /\ ackFront' = [ackFront EXCEPT ![e] = AckFrontAfter(e, p)]
          /\ seqNum' = [seqNum EXCEPT ![e] = p.ack]
      BY <2>1 DEF HandleEstablished
    <3>. QED  BY <1>0, <1>2, <3>1 DEF TypeOK
  <2>2. CASE ~AckHit(e, p)
    BY <2>2 DEF HandleEstablished, TypeOK
  <2>. QED  BY <2>1, <2>2
<1>8. clstate' \in [Ends -> SUBSET CloseBits]
      /\ state' \in [Ends -> States] /\ isConnection' \in [Ends -> BOOLEAN]
  BY DEF HandleEstablished, TypeOK, ClAfterAck, CloseBits, States
<1>9. readBuffer' \in [Ends -> Buffer] /\ ackNum' \in [Ends -> SeqNo]
      /\ recvFront' \in [Ends -> Word]
  BY <1>3, <1>4, <1>5 DEF HandleEstablished, TypeOK
<1>. QED  BY <1>6, <1>7, <1>8, <1>9 DEF HandleEstablished, TypeOK, threadVars, histVars

\* The whole dispatch keeps the types, and so does the network.
LEMMA TypeNetwork ==
  ASSUME TypeOK, NEW e \in Ends, Receive(e) \/ Lose(e)
  PROVE  TypeOK'
<1>1. CASE Receive(e)
  <2>1. net[e] # <<>>
    BY <1>1 DEF Receive
  <2>2. net[e] \in Seq(Packet)
    BY DEF TypeOK
  <2>3. Head(net[e]) \in Packet
    BY <2>1, <2>2
  <2>4. PICK p \in Packet :
          \/ HandleListen(e, p) \/ HandleSyssent(e, p) \/ HandleSysrecv(e, p)
          \/ HandleIgnored(e, p) \/ HandleEstablished(e, p)
    BY <1>1, <2>3 DEF Receive
  <2>. QED  BY <2>1, <2>4, TypeHandshake, TypeEstablished
<1>2. CASE Lose(e)
  <2>1. net[e] \in Seq(Packet) /\ net[e] # <<>>
    BY <1>2 DEF TypeOK, Lose
  <2>2. Tail(net[e]) \in Seq(Packet)
    BY <2>1
  <2>. QED  BY <1>2, <2>2 DEF Lose, TypeOK, ctlVars, sendVars, recvVars,
                             threadVars, histVars
<1>. QED  BY <1>1, <1>2

\* asyncSendTCPPacket keeps the types.
LEMMA NewLenType ==
  ASSUME TypeOK, NEW e \in Ends
  PROVE  /\ NewLen(e) \in Word
         /\ NewLen(e) <= Sub(sendFront[e], sendBack[e])
         /\ NewLen(e) > 0 => sendBack[e] = ackBack[e]
<1>1. /\ Sub(sendFront[e], sendBack[e]) \in Word
      /\ Sub(ackFront[e], sendBack[e]) \in Word
  BY WordClosed DEF TypeOK
<1>. QED  BY <1>1, ConnAssumption, WordAssumption
          DEF NewLen, Min2, Word, Unacked

LEMMA TypeAsyncSend ==
  ASSUME TypeOK, NEW e \in Ends, AsyncSend(e)
  PROVE  TypeOK'
<1>1. PICK expired \in BOOLEAN :
        /\ sendBack' = [sendBack EXCEPT ![e] = Add(@, NewLen(e))]
        /\ clstate' = [clstate EXCEPT ![e] =
             IF SendsFin(e, expired) THEN @ \cup {"FIN_SENT"} ELSE @]
        /\ net' = [net EXCEPT ![Peer(e)] = @ \o
             (IF SendsData(e, expired) THEN <<DataSegment(e)>> ELSE <<>>) \o
             (IF SendsFin(e, expired) THEN <<FinSegment(e)>> ELSE <<>>)]
        /\ UNCHANGED <<state, isConnection, sendFront, ackFront, ackBack,
                       seqNum, writeBuffer, recvVars, app, threadVars,
                       histVars>>
  BY DEF AsyncSend
<1>2. Add(sendBack[e], NewLen(e)) \in Word
  BY NewLenType, WordClosed DEF TypeOK
<1>3. Sub(Add(sendBack[e], NewLen(e)), ackBack[e]) \in Word
  BY <1>2, WordClosed DEF TypeOK
<1>4. DataSegment(e) \in Packet
  <2>1. writeBuffer[e] \in Buffer /\ ackBack[e] \in Word
    BY DEF TypeOK
  <2>2. RingRead(writeBuffer[e], ackBack[e],
                 Sub(Add(sendBack[e], NewLen(e)), ackBack[e])) \in Seq(Byte)
    BY <1>3, <2>1, RingClosed
  <2>. QED  BY <2>2, WordClosed DEF DataSegment, Segment, Packet, TypeOK
<1>5. FinSegment(e) \in Packet
  BY WordClosed DEF FinSegment, Segment, Packet, TypeOK
<1>6. net' \in [Ends -> Seq(Packet)]
  <2>. DEFINE d == IF SendsData(e, expired) THEN <<DataSegment(e)>> ELSE <<>>
              f == IF SendsFin(e, expired) THEN <<FinSegment(e)>> ELSE <<>>
  <2>1. d \in Seq(Packet) /\ f \in Seq(Packet)
    BY <1>4, <1>5, Singleton
  <2>2. net \in [Ends -> Seq(Packet)] /\ Peer(e) \in Ends
    BY DEF TypeOK, Peer, Ends
  <2>3. net' = [net EXCEPT ![Peer(e)] = @ \o d \o f]
    BY <1>1
  <2>. HIDE DEF d, f
  <2>4. net[Peer(e)] \o d \o f \in Seq(Packet)
    BY <2>1, <2>2
  <2>. QED  BY <2>2, <2>3, <2>4
<1>7. clstate' \in [Ends -> SUBSET CloseBits]
  BY <1>1 DEF TypeOK, CloseBits
<1>. QED  BY <1>1, <1>2, <1>6, <1>7 DEF TypeOK, recvVars, threadVars, histVars

\* A thread goes on to another place in its code, its count set or kept.
LEMMA GotoType ==
  ASSUME pc \in [Threads -> Labels], arg \in [Threads -> Word],
         NEW t \in Threads, NEW label \in Labels, Goto(t, label)
  PROVE  /\ pc' \in [Threads -> Labels]
         /\ UNCHANGED arg => arg' \in [Threads -> Word]
         /\ \A n \in Word : arg' = [arg EXCEPT ![t] = n] => arg' \in [Threads -> Word]
BY DEF Goto

\* So does every step of an application's thread.
LEMMA TypeThread ==
  ASSUME TypeOK, NEW t \in Threads, Call(t) \/ Work(t)
  PROVE  TypeOK'
<1>. DEFINE e == Owner[t]
<1>0. e \in Ends /\ IoSizes \subseteq Word /\ 0 \in Word
  BY ConnAssumption, WordClosed
<1>. /\ pc \in [Threads -> Labels] /\ arg \in [Threads -> Word]
     /\ {"idle", "wspin", "rspin", "cspin", "cfree", "done"} \subseteq Labels
  BY DEF TypeOK, Labels
<1>1. CASE WriteCall(t) \/ ReadCall(t)
  <2>1. arg' \in [Threads -> Word] /\ pc' \in [Threads -> Labels]
    <3>1. PICK nbyte \in IoSizes :
            /\ Goto(t, "wspin") \/ Goto(t, "rspin")
            /\ arg' = [arg EXCEPT ![t] = nbyte]
      BY <1>1 DEF WriteCall, ReadCall
    <3>. QED  BY <1>0, <3>1, GotoType
  <2>2. UNCHANGED <<ctlVars, sendVars, recvVars, net, app, histVars>>
    BY <1>1 DEF WriteCall, ReadCall
  <2>. QED
    BY <2>1, <2>2 DEF TypeOK, ctlVars, sendVars, recvVars, histVars
<1>2. CASE WriteSpin(t) \/ ReadSpin(t)
  <2>1. /\ Min2(arg[t], SendSpace(e)) \in Word
        /\ Min2(arg[t], RecvSpace(e)) \in Word
    BY <1>0, WordClosed DEF Min2, SendSpace, RecvSpace, TypeOK
  <2>2. arg' \in [Threads -> Word] /\ pc' \in [Threads -> Labels]
    BY <1>2, <2>1 DEF WriteSpin, ReadSpin, Goto, Labels, TypeOK
  <2>. QED  BY <1>2, <2>2 DEF WriteSpin, ReadSpin, TypeOK, ctlVars, sendVars,
                             recvVars, histVars
<1>3. CASE WriteState(t) \/ ReadState(t)
  <2>1. /\ Goto(t, "idle") \/ Goto(t, "wspin") \/ Goto(t, "rspin")
        /\ arg' = [arg EXCEPT ![t] = 0] \/ UNCHANGED arg
        /\ eof' = [eof EXCEPT ![e] = TRUE] \/ UNCHANGED eof
        /\ UNCHANGED <<ctlVars, sendVars, recvVars, net, app, written, readLog>>
    BY <1>3 DEF WriteState, ReadState, histVars
  <2>2. arg' \in [Threads -> Word] /\ pc' \in [Threads -> Labels]
    BY <1>0, <2>1, GotoType
  <2>3. eof' \in [Ends -> BOOLEAN]
    BY <1>0, <2>1 DEF TypeOK
  <2>. QED  BY <2>1, <2>2, <2>3 DEF TypeOK, ctlVars, sendVars, recvVars
<1>4. CASE WriteCopy(t)
  <2>1. [i \in 1 .. arg[t] |-> written[e] + i] \in Seq(Byte)
    <3>1. arg[t] \in Nat /\ written[e] \in Nat
      BY <1>0, WordAssumption DEF TypeOK, Word
    <3>. HIDE DEF e
    <3>. QED  BY <3>1 DEF Byte
  <2>2. RingWrite(writeBuffer[e], sendFront[e],
                  [i \in 1 .. arg[t] |-> written[e] + i]) \in Buffer
    BY <1>0, <2>1, RingClosed DEF TypeOK
  <2>3. Add(sendFront[e], arg[t]) \in Word /\ 0 \in Word
    BY <1>0, WordClosed DEF TypeOK
  <2>4. written[e] + arg[t] \in Nat
    <3>1. written[e] \in Nat /\ arg[t] \in Nat
      BY <1>0, WordAssumption DEF TypeOK, Word
    <3>. HIDE DEF e
    <3>. QED  BY <3>1
  <2>. QED  BY <1>4, <2>2, <2>3, <2>4
            DEF WriteCopy, Goto, Labels, TypeOK, ctlVars, recvVars
<1>5. CASE ReadCopy(t)
  <2>1. RingRead(readBuffer[e], recvBack[e], arg[t]) \in Seq(Byte)
    BY <1>0, RingClosed DEF TypeOK
  <2>2. readLog[e] \o RingRead(readBuffer[e], recvBack[e], arg[t]) \in Seq(Byte)
    BY <1>0, <2>1 DEF TypeOK
  <2>3. Add(recvBack[e], arg[t]) \in Word /\ 0 \in Word
    BY <1>0, WordClosed DEF TypeOK
  <2>. QED  BY <1>5, <2>2, <2>3
            DEF ReadCopy, Goto, Labels, TypeOK, ctlVars, sendVars
<1>6. CASE CloseCall(t) \/ CloseSpin(t) \/ CloseFree(t)
  <2>1. pc' \in [Threads -> Labels]
    <3>1. Goto(t, "cspin") \/ Goto(t, "cfree") \/ Goto(t, "done")
      BY <1>6 DEF CloseCall, CloseSpin, CloseFree
    <3>. QED  BY <3>1, GotoType
  <2>2. CASE CloseCall(t)
    <3>1. clstate' = [clstate EXCEPT ![e] = @ \cup {"CALL"}]
      BY <2>2 DEF CloseCall
    <3>2. clstate' \in [Ends -> SUBSET CloseBits]
      BY <1>0, <3>1 DEF TypeOK, CloseBits
    <3>. QED  BY <2>1, <2>2, <3>2 DEF CloseCall, TypeOK, sendVars, recvVars,
                                      histVars
  <2>3. CASE CloseSpin(t)
    BY <2>1, <2>3 DEF CloseSpin, TypeOK, ctlVars, sendVars, recvVars, histVars
  <2>4. CASE CloseFree(t)
    BY <1>0, <2>1, <2>4 DEF CloseFree, States, TypeOK, sendVars, recvVars,
                            histVars
  <2>. QED  BY <1>6, <2>2, <2>3, <2>4
<1>. QED  BY <1>1, <1>2, <1>3, <1>4, <1>5, <1>6 DEF Call, Work

LEMMA TypeStutter == TypeOK /\ UNCHANGED vars => TypeOK'
BY DEF TypeOK, vars, ctlVars, sendVars, recvVars, threadVars, histVars

LEMMA TypeStep == TypeOK /\ [Next]_vars => TypeOK'
BY TypeOpen, TypeNetwork, TypeAsyncSend, TypeThread, TypeStutter DEF Next

\* Every variable of the connection keeps its type and its width: no cursor
\* leaves the buffer, no sequence number its 32 bits.
THEOREM TypeCorrect == Spec => []TypeOK
BY TypeInit, TypeStep, PTL DEF Spec

-----------------------------------------------------------------------------
(* The assertion on ackBack.  It holds because seqNum and ackBack move     *)
(* together from the moment the buffers are opened, which is a fact about  *)
(* the handshake: both ends start at the same initial sequence number.     *)

SeqAgrees ==
  \A e \in Ends :
    /\ state[e] \in {"SYS_SENT", "SYS_RECV"} => seqNum[e] = MinusOne
    /\ state[e] = "ESTABLISHED" => seqNum[e].lo = ackBack[e]

\* x + (y - x) is y, in words.
LEMMA AddSub == \A x, y \in Word : Add(x, Sub(y, x)) = y
BY WordAssumption DEF Word, Add, Sub

LEMMA SeqAgreesInit == Init => SeqAgrees
BY DEF Init, SeqAgrees, Ends

LEMMA OpenBuffersSeq ==
  ASSUME TypeOK, SeqAgrees, NEW e \in Ends, OpenBuffers(e),
         state[e] \in {"SYS_SENT", "SYS_RECV"}
  PROVE  SeqAgrees'
<1>1. seqNum[e] = MinusOne
  BY DEF SeqAgrees
<1>2. seqNum' = [seqNum EXCEPT ![e] = Zero]
  BY <1>1, SeqNoClosed DEF OpenBuffers
<1>. QED  BY <1>2 DEF OpenBuffers, SeqAgrees, TypeOK, Zero

LEMMA SeqAgreesReceive ==
  ASSUME TypeOK, SeqAgrees, NEW e \in Ends, Receive(e)
  PROVE  SeqAgrees'
<1>1. net[e] # <<>> /\ net[e] \in Seq(Packet)
  BY DEF Receive, TypeOK
<1>2. PICK p \in Packet :
        \/ HandleListen(e, p) \/ HandleSyssent(e, p) \/ HandleSysrecv(e, p)
        \/ HandleEstablished(e, p) \/ HandleIgnored(e, p)
  <2>1. Head(net[e]) \in Packet
    BY <1>1
  <2>. QED  BY <2>1 DEF Receive
<1>3. CASE HandleListen(e, p)
  BY <1>3 DEF HandleListen, SeqAgrees, TypeOK
<1>4. CASE HandleSyssent(e, p) \/ HandleSysrecv(e, p)
  BY <1>4, OpenBuffersSeq DEF HandleSyssent, HandleSysrecv
<1>5. CASE HandleEstablished(e, p)
  <2>1. state[e] = "ESTABLISHED" /\ seqNum[e].lo = ackBack[e]
    BY <1>5 DEF HandleEstablished, SeqAgrees
  <2>2. CASE AckHit(e, p)
    <3>1. p.ack.lo \in Word /\ ackBack[e] \in Word
      BY DEF TypeOK, Packet, SeqNo
    <3>2. ackBack' = [ackBack EXCEPT ![e] = p.ack.lo]
      BY <1>5, <2>1, <2>2, <3>1, AddSub
      DEF HandleEstablished, AckDiff, AckBackAfter
    <3>3. seqNum' = [seqNum EXCEPT ![e] = p.ack]
      BY <1>5, <2>2 DEF HandleEstablished
    <3>4. \A f \in Ends : f # e => state'[f] = state[f]
      BY <1>5 DEF HandleEstablished, TypeOK
    <3>5. state'[e] \in {"ESTABLISHED", "CLOSED"}
      BY <1>5 DEF HandleEstablished, TypeOK
    <3>. QED  BY <3>2, <3>3, <3>4, <3>5 DEF SeqAgrees, TypeOK
  <2>3. CASE ~AckHit(e, p)
    <3>1. UNCHANGED <<ackBack, seqNum>>
      BY <1>5, <2>3 DEF HandleEstablished
    <3>2. \A f \in Ends : state'[f] = state[f] \/ state'[f] = "CLOSED"
      BY <1>5 DEF HandleEstablished, TypeOK
    <3>. QED  BY <3>1, <3>2 DEF SeqAgrees
  <2>. QED  BY <2>2, <2>3
<1>6. CASE HandleIgnored(e, p)
  BY <1>6 DEF HandleIgnored, SeqAgrees, ctlVars, sendVars
<1>. QED  BY <1>2, <1>3, <1>4, <1>5, <1>6

LEMMA SeqAgreesStep ==
  ASSUME TypeOK, SeqAgrees, [Next]_vars
  PROVE  SeqAgrees'
<1>1. CASE Connect
  BY <1>1 DEF Connect, SeqAgrees, TypeOK, Ends
<1>2. CASE ConnectReturn \/ Accept
  BY <1>2 DEF ConnectReturn, Accept, SeqAgrees, ctlVars, sendVars
<1>3. ASSUME NEW e \in Ends, Receive(e)
      PROVE  SeqAgrees'
  BY <1>3, SeqAgreesReceive
<1>4. ASSUME NEW e \in Ends, Lose(e) \/ AsyncSend(e)
      PROVE  SeqAgrees'
  BY <1>4 DEF Lose, AsyncSend, SeqAgrees, ctlVars, sendVars
<1>5. ASSUME NEW t \in Threads, Call(t) \/ Work(t)
      PROVE  SeqAgrees'
  <2>1. CASE CloseFree(t)
    BY <2>1 DEF CloseFree, SeqAgrees, TypeOK, sendVars
  <2>2. CASE ~CloseFree(t)
    BY <1>5, <2>2
    DEF Call, Work, WriteCall, ReadCall, CloseCall, WriteSpin, WriteState,
        WriteCopy, ReadSpin, ReadState, ReadCopy, CloseSpin, SeqAgrees,
        ctlVars, sendVars
  <2>. QED  BY <2>1, <2>2
<1>6. CASE UNCHANGED vars
  BY <1>6 DEF vars, SeqAgrees, ctlVars, sendVars
<1>. QED  BY <1>1, <1>2, <1>3, <1>4, <1>5, <1>6 DEF Next

LEMMA AckAssertFromSeq == TypeOK /\ SeqAgrees => AckAssertHolds
<1>. SUFFICES ASSUME TypeOK, SeqAgrees,
                     NEW e \in Ends, state[e] = "ESTABLISHED", net[e] # <<>>
              PROVE  LET p == Head(net[e]) IN AckBackAfter(e, p) = p.ack.lo
  BY DEF AckAssertHolds
<1>1. Head(net[e]) \in Packet
  BY DEF TypeOK
<1>2. Head(net[e]).ack.lo \in Word /\ ackBack[e] \in Word
  BY <1>1 DEF Packet, SeqNo, TypeOK
<1>. QED  BY <1>2, AddSub DEF SeqAgrees, AckDiff, AckBackAfter

\* The assertion of loopthread.c line 165 never fails: whatever packets come,
\* lost, late or repeated, ackBack lands on the acknowledgement it accepts.
THEOREM AckAssertion == Spec => []AckAssertHolds
<1>1. Init => TypeOK /\ SeqAgrees
  BY TypeInit, SeqAgreesInit
<1>2. TypeOK /\ SeqAgrees /\ [Next]_vars => (TypeOK /\ SeqAgrees)'
  BY TypeStep, SeqAgreesStep
<1>. QED  BY <1>1, <1>2, AckAssertFromSeq, PTL DEF Spec

-----------------------------------------------------------------------------
(* The unlocked tests of read and write.  The count a thread took stays    *)
(* good because the loop thread only moves the other cursor of the ring,   *)
(* and only the way that makes room (or bytes) more; that in turn rests on *)
(* the order of the cursors, and on no handler opening the buffers again   *)
(* while a call is on.                                                     *)

\* No call is on while the connection is being opened.
Opening ==
  /\ \A e \in Ends : state[e] \in {"NONE", "SYS_SENT", "SYS_RECV"} =>
                       app[e] # "open"
  /\ state["client"] \notin {"NONE", "SYS_RECV"}
  /\ \A t \in Threads : pc[t] # "idle" => app[Owner[t]] = "open"

\* A thread is in the calls it makes.
Callers ==
  \A t \in Threads :
    /\ pc[t] \in {"wspin", "wstate", "wcopy"} => "write" \in Calls[t]
    /\ pc[t] \in {"rspin", "rstate", "rcopy"} => "read" \in Calls[t]

\* ackBack, sendBack and sendFront follow one another around the ring.
CursorOrder ==
  \A e \in Ends : Sub(sendBack[e], ackBack[e]) <= Sub(sendFront[e], ackBack[e])

CopyInv == SeqAgrees /\ Opening /\ Callers /\ CursorOrder /\ CopiesFit

\* The facts on rings: acknowledging up to sendBack frees room; sending new
\* bytes, and appending bytes there is room for, keep the cursors in order;
\* receiving bytes there is room for adds them to what can be read.
LEMMA AckFrees ==
  \A a, b, f \in Word : Sub(b, a) <= Sub(f, a) =>
    /\ Space(a, f) <= Space(b, f)
    /\ Sub(b, b) <= Sub(f, b)
BY WordAssumption DEF Word, Sub, Space

LEMMA SendInOrder ==
  \A b, f, n \in Word : n <= Sub(f, b) => Sub(Add(b, n), b) <= Sub(f, b)
BY WordAssumption DEF Word, Sub, Add

LEMMA AppendInOrder ==
  \A a, b, f, n \in Word :
    Sub(b, a) <= Sub(f, a) /\ n <= Space(a, f) => Sub(b, a) <= Sub(Add(f, n), a)
BY WordAssumption DEF Word, Sub, Add, Space

LEMMA ReceiveAdds ==
  \A back, front, n \in Word : n <= Space(back, front) =>
    Sub(front, back) <= Sub(Add(front, n), back)
BY WordAssumption DEF Word, Sub, Add, Space

\* A step that leaves the threads alone and takes neither room nor bytes from
\* any end keeps the copies good.
LEMMA CopiesKept ==
  ASSUME TypeOK, CopiesFit, UNCHANGED threadVars, TypeOK',
         \A e \in Ends : /\ SendSpace(e) <= SendSpace(e)'
                         /\ RecvSpace(e) <= RecvSpace(e)'
  PROVE  CopiesFit'
<1>. SUFFICES ASSUME NEW t \in Threads
              PROVE  /\ pc[t] = "wcopy" => arg[t] <= SendSpace(Owner[t])'
                     /\ pc[t] = "rcopy" => arg[t] <= RecvSpace(Owner[t])'
  BY DEF CopiesFit, threadVars
<1>1. Owner[t] \in Ends
  BY ConnAssumption
<1>2. arg[t] \in Word /\ SendSpace(Owner[t]) \in Word /\ RecvSpace(Owner[t]) \in Word
  BY <1>1, WordClosed DEF SendSpace, RecvSpace, TypeOK
<1>3. SendSpace(Owner[t])' \in Word /\ RecvSpace(Owner[t])' \in Word
  BY <1>1, WordClosed DEF SendSpace, RecvSpace, TypeOK
<1>4. Word \subseteq Int
  BY WordAssumption DEF Word
<1>5. /\ SendSpace(Owner[t]) <= SendSpace(Owner[t])'
      /\ RecvSpace(Owner[t]) <= RecvSpace(Owner[t])'
  BY <1>1
<1>6. /\ pc[t] = "wcopy" => arg[t] <= SendSpace(Owner[t])
      /\ pc[t] = "rcopy" => arg[t] <= RecvSpace(Owner[t])
  BY DEF CopiesFit
<1>7. \A x, y, z \in Word : x <= y /\ y <= z => x <= z
  BY <1>4
<1>. QED  BY <1>2, <1>3, <1>5, <1>6, <1>7

LEMMA CopyInvInit == Init => CopyInv
BY SeqAgreesInit, ConnAssumption, WordAssumption
DEF Init, CopyInv, Opening, Callers, CursorOrder, CopiesFit, Ends, Sub, Word

\* Opening the buffers: no call is on, and the empty ring is in order.
LEMMA CopyInvOpen ==
  ASSUME TypeOK, CopyInv, NEW e \in Ends, OpenBuffers(e),
         state[e] \in {"SYS_SENT", "SYS_RECV"},
         UNCHANGED <<app, threadVars>>
  PROVE  Opening' /\ Callers' /\ CursorOrder' /\ CopiesFit'
<1>1. app[e] # "open"
  BY DEF CopyInv, Opening
<1>2. \A t \in Threads : Owner[t] = e => pc[t] = "idle"
  BY <1>1 DEF CopyInv, Opening
<1>3. Opening' /\ Callers'
  BY <1>1 DEF CopyInv, Opening, Callers, OpenBuffers, TypeOK, threadVars
<1>4. CursorOrder'
  <2>1. sendBack'[e] = 0 /\ ackBack'[e] = 0 /\ sendFront'[e] = 0
    BY DEF OpenBuffers, TypeOK
  <2>2. \A f \in Ends : f # e =>
          UNCHANGED <<sendBack[f], ackBack[f], sendFront[f]>>
    BY DEF OpenBuffers, TypeOK
  <2>3. Sub(0, 0) <= Sub(0, 0)
    BY DEF Sub
  <2>. QED  BY <2>1, <2>2, <2>3 DEF CopyInv, CursorOrder
<1>5. CopiesFit'
  <2>. SUFFICES ASSUME NEW t \in Threads, pc[t] # "idle"
                PROVE  /\ pc[t] = "wcopy" => arg[t] <= SendSpace(Owner[t])'
                       /\ pc[t] = "rcopy" => arg[t] <= RecvSpace(Owner[t])'
    BY DEF CopiesFit, threadVars
  <2>1. Owner[t] # e /\ Owner[t] \in Ends
    BY <1>2, ConnAssumption
  <2>2. UNCHANGED <<SendSpace(Owner[t]), RecvSpace(Owner[t])>>
    BY <2>1 DEF OpenBuffers, SendSpace, RecvSpace, TypeOK
  <2>. QED  BY <2>2 DEF CopyInv, CopiesFit
<1>. QED  BY <1>3, <1>4, <1>5

\* The handler of an established socket: an accepted acknowledgement brings
\* ackBack up to sendBack, and data in order fills the read buffer.
LEMMA CopyInvEstablished ==
  ASSUME TypeOK, TypeOK', CopyInv, NEW e \in Ends, NEW p \in Packet,
         HandleEstablished(e, p)
  PROVE  Opening' /\ Callers' /\ CursorOrder' /\ CopiesFit'
<1>1. /\ UNCHANGED <<sendFront, sendBack, recvBack, app, pc, arg>>
      /\ \A f \in Ends : f # e => /\ state'[f] = state[f]
                                  /\ ackBack'[f] = ackBack[f]
                                  /\ recvFront'[f] = recvFront[f]
      /\ state[e] = "ESTABLISHED" /\ state'[e] \in {"ESTABLISHED", "CLOSED"}
  BY DEF HandleEstablished, TypeOK, threadVars
<1>2. /\ sendFront[e] \in Word /\ sendBack[e] \in Word /\ ackBack[e] \in Word
      /\ recvFront[e] \in Word /\ recvBack[e] \in Word
  BY DEF TypeOK
<1>3. ackBack'[e] = ackBack[e] \/ ackBack'[e] = sendBack[e]
  <2>1. CASE AckHit(e, p)
    <3>1. p.ack.lo \in Word /\ p.ack.lo = sendBack[e]
      BY <2>1 DEF AckHit, Packet, SeqNo
    <3>2. seqNum[e].lo = ackBack[e]
      BY <1>1 DEF CopyInv, SeqAgrees
    <3>3. ackBack'[e] = Add(ackBack[e], Sub(p.ack.lo, seqNum[e].lo))
      BY <2>1 DEF HandleEstablished, TypeOK, AckDiff, AckBackAfter
    <3>. QED  BY <1>2, <3>1, <3>2, <3>3, AddSub
  <2>2. CASE ~AckHit(e, p)
    BY <2>2 DEF HandleEstablished
  <2>. QED  BY <2>1, <2>2
<1>4. PICK n \in Word : /\ n <= Window(e)
                        /\ recvFront'[e] = Add(recvFront[e], n)
  <2>1. recvFront'[e] = Add(recvFront[e], ValidLen(e, p))
    BY DEF HandleEstablished, TypeOK
  <2>. QED  BY <2>1, ValidLenType
<1>5. Sub(sendBack[e], ackBack[e]) <= Sub(sendFront[e], ackBack[e])
  BY DEF CopyInv, CursorOrder
<1>6. CursorOrder'
  <2>1. Sub(sendBack[e], ackBack'[e]) <= Sub(sendFront[e], ackBack'[e])
    BY <1>2, <1>3, <1>5, AckFrees
  <2>. QED  BY <1>1, <2>1 DEF CopyInv, CursorOrder
<1>7. CopiesFit'
  <2>1. \A x \in Word : x <= x
    BY WordAssumption DEF Word
  <2>2. \A f \in Ends : SendSpace(f) \in Word /\ RecvSpace(f) \in Word
    BY WordClosed DEF SendSpace, RecvSpace, TypeOK
  <2>3. \A f \in Ends : f # e => UNCHANGED <<SendSpace(f), RecvSpace(f)>>
    BY <1>1 DEF SendSpace, RecvSpace
  <2>4. SendSpace(e) <= SendSpace(e)'
    BY <1>1, <1>2, <1>3, <1>5, <2>1, <2>2, AckFrees DEF SendSpace
  <2>5. RecvSpace(e) <= RecvSpace(e)'
    BY <1>1, <1>2, <1>4, ReceiveAdds DEF RecvSpace, Window
  <2>6. \A f \in Ends : /\ SendSpace(f) <= SendSpace(f)'
                        /\ RecvSpace(f) <= RecvSpace(f)'
    BY <2>1, <2>2, <2>3, <2>4, <2>5
  <2>. QED  BY <1>1, <2>6, CopiesKept DEF CopyInv, threadVars
<1>8. Opening' /\ Callers'
  <2>1. \A f \in Ends : state'[f] \in {"NONE", "SYS_SENT", "SYS_RECV"} =>
                         state'[f] = state[f]
    BY <1>1
  <2>2. "client" \in Ends
    BY DEF Ends
  <2>3. \A f \in Ends : state'[f] \in {"NONE", "SYS_SENT", "SYS_RECV"} =>
                         app'[f] # "open"
    BY <1>1, <2>1 DEF CopyInv, Opening
  <2>4. state'["client"] \notin {"NONE", "SYS_RECV"}
    BY <2>1, <2>2 DEF CopyInv, Opening
  <2>. QED  BY <1>1, <2>3, <2>4 DEF CopyInv, Opening, Callers
<1>. QED  BY <1>6, <1>7, <1>8

\* What a step owes to CopyInv when it moves no cursor and no thread.
LEMMA CopyInvIdle ==
  ASSUME CopyInv,
         UNCHANGED <<sendFront, sendBack, ackBack, recvFront, recvBack,
                     threadVars>>
  PROVE  Callers' /\ CursorOrder' /\ CopiesFit'
BY DEF CopyInv, Callers, CursorOrder, CopiesFit, SendSpace, RecvSpace,
       threadVars

LEMMA CopyInvReceive ==
  ASSUME TypeOK, TypeOK', CopyInv, NEW e \in Ends, Receive(e) \/ Lose(e)
  PROVE  Opening' /\ Callers' /\ CursorOrder' /\ CopiesFit'
<1>1. CASE Lose(e)
  <2>1. Opening'
    BY <1>1 DEF Lose, CopyInv, Opening, ctlVars, threadVars
  <2>. QED  BY <1>1, <2>1, CopyInvIdle DEF Lose, sendVars, recvVars
<1>2. CASE Receive(e)
  <2>1. net[e] # <<>> /\ net[e] \in Seq(Packet)
    BY <1>2 DEF Receive, TypeOK
  <2>2. PICK p \in Packet :
          \/ HandleListen(e, p) \/ HandleSyssent(e, p) \/ HandleSysrecv(e, p)
          \/ HandleEstablished(e, p) \/ HandleIgnored(e, p)
    <3>1. Head(net[e]) \in Packet
      BY <2>1
    <3>. QED  BY <1>2, <3>1 DEF Receive
  <2>3. CASE HandleListen(e, p)
    <3>1. Opening'
      BY <2>3 DEF HandleListen, CopyInv, Opening, TypeOK, threadVars
    <3>. QED  BY <2>3, <3>1, CopyInvIdle DEF HandleListen
  <2>4. CASE HandleSyssent(e, p) \/ HandleSysrecv(e, p)
    BY <2>4, CopyInvOpen DEF HandleSyssent, HandleSysrecv
  <2>5. CASE HandleEstablished(e, p)
    BY <2>5, CopyInvEstablished
  <2>6. CASE HandleIgnored(e, p)
    <3>1. Opening'
      BY <2>6 DEF HandleIgnored, CopyInv, Opening, ctlVars, threadVars
    <3>. QED  BY <2>6, <3>1, CopyInvIdle DEF HandleIgnored, sendVars, recvVars
  <2>. QED  BY <2>2, <2>3, <2>4, <2>5, <2>6
<1>. QED  BY <1>1, <1>2

\* asyncSendTCPPacket moves sendBack towards sendFront and not past it.
LEMMA CopyInvAsyncSend ==
  ASSUME TypeOK, CopyInv, NEW e \in Ends, AsyncSend(e)
  PROVE  Opening' /\ Callers' /\ CursorOrder' /\ CopiesFit'
<1>1. /\ UNCHANGED <<state, app, sendFront, ackBack, recvFront, recvBack,
                     pc, arg>>
      /\ sendBack' = [sendBack EXCEPT ![e] = Add(@, NewLen(e))]
  BY DEF AsyncSend, recvVars, threadVars
<1>2. Opening' /\ Callers'
  BY <1>1 DEF CopyInv, Opening, Callers
<1>3. CopiesFit'
  BY <1>1 DEF CopyInv, CopiesFit, SendSpace, RecvSpace
<1>4. CursorOrder'
  <2>1. sendBack[e] \in Word /\ sendFront[e] \in Word /\ ackBack[e] \in Word
    BY DEF TypeOK
  <2>2. Sub(sendBack'[e], ackBack[e]) <= Sub(sendFront[e], ackBack[e])
    <3>1. CASE NewLen(e) > 0
      <4>1. NewLen(e) \in Word /\ NewLen(e) <= Sub(sendFront[e], sendBack[e])
            /\ sendBack[e] = ackBack[e]
        BY <3>1, NewLenType
      <4>. QED  BY <1>1, <2>1, <4>1, SendInOrder DEF TypeOK
    <3>2. CASE ~(NewLen(e) > 0)
      <4>1. NewLen(e) = 0
        BY <3>2, NewLenType, WordAssumption DEF Word
      <4>2. sendBack'[e] = sendBack[e]
        BY <1>1, <2>1, <4>1, WordAssumption DEF TypeOK, Add, Word
      <4>. QED  BY <4>2 DEF CopyInv, CursorOrder
    <3>. QED  BY <3>1, <3>2
  <2>. QED  BY <1>1, <2>2 DEF CopyInv, CursorOrder, TypeOK
<1>. QED  BY <1>2, <1>3, <1>4

\* The steps of the application's threads.
LEMMA CopyInvThread ==
  ASSUME OneThreadPerCall, TypeOK, TypeOK', CopyInv, NEW t \in Threads,
         Call(t) \/ Work(t)
  PROVE  Opening' /\ Callers' /\ CursorOrder' /\ CopiesFit'
<1>. DEFINE e == Owner[t]
<1>0. e \in Ends
  BY ConnAssumption
<1>1. CASE WriteCall(t) \/ ReadCall(t) \/ CloseCall(t)
  <2>1. /\ UNCHANGED <<state, app, sendVars, recvVars>>
        /\ app[e] = "open"
        /\ \/ pc' = [pc EXCEPT ![t] = "wspin"] /\ "write" \in Calls[t]
           \/ pc' = [pc EXCEPT ![t] = "rspin"] /\ "read" \in Calls[t]
           \/ pc' = [pc EXCEPT ![t] = "cspin"]
        /\ \A u \in Threads : u # t => arg'[u] = arg[u]
    BY <1>1 DEF WriteCall, ReadCall, CloseCall, Enters, Goto, ctlVars, TypeOK
  <2>2. /\ pc'[t] \in {"wspin", "rspin", "cspin"}
        /\ \A u \in Threads : u # t => pc'[u] = pc[u]
    BY <2>1 DEF TypeOK
  <2>3. Opening' /\ Callers'
    BY <2>1, <2>2 DEF CopyInv, Opening, Callers, TypeOK
  <2>4. CursorOrder'
    BY <2>1 DEF CopyInv, CursorOrder, sendVars
  <2>5. CopiesFit'
    BY <2>1, <2>2
    DEF CopyInv, CopiesFit, SendSpace, RecvSpace, sendVars, recvVars
  <2>. QED  BY <2>3, <2>4, <2>5
<1>2. CASE \/ WriteSpin(t) \/ WriteState(t) \/ ReadSpin(t) \/ ReadState(t)
           \/ CloseSpin(t)
  <2>1. /\ UNCHANGED <<state, app, sendVars, recvVars>>
        /\ \A u \in Threads : u # t => pc'[u] = pc[u] /\ arg'[u] = arg[u]
    BY <1>2 DEF WriteSpin, WriteState, ReadSpin, ReadState, CloseSpin, Goto,
                ctlVars, TypeOK
  <2>2. pc[t] # "idle"
    BY <1>2 DEF WriteSpin, WriteState, ReadSpin, ReadState, CloseSpin
  <2>3. /\ pc'[t] \in {"wspin", "wstate", "wcopy"} =>
             pc[t] \in {"wspin", "wstate", "wcopy"}
        /\ pc'[t] \in {"rspin", "rstate", "rcopy"} =>
             pc[t] \in {"rspin", "rstate", "rcopy"}
    BY <1>2 DEF WriteSpin, WriteState, ReadSpin, ReadState, CloseSpin, Goto,
                TypeOK
  <2>4. /\ pc'[t] = "wcopy" => arg'[t] <= SendSpace(e)
        /\ pc'[t] = "rcopy" => arg'[t] <= RecvSpace(e)
    <3>0. /\ arg[t] \in Word /\ SendSpace(e) \in Word /\ RecvSpace(e) \in Word
      BY <1>0, WordClosed DEF SendSpace, RecvSpace, TypeOK
    <3>1. /\ arg[t] \in Int /\ SendSpace(e) \in Int /\ RecvSpace(e) \in Int
      BY <3>0, WordAssumption DEF Word
    <3>2. /\ Min2(arg[t], SendSpace(e)) <= SendSpace(e)
          /\ Min2(arg[t], RecvSpace(e)) <= RecvSpace(e)
      BY <3>1 DEF Min2
    <3>. QED  BY <1>2, <3>2 DEF WriteSpin, WriteState, ReadSpin, ReadState,
                                CloseSpin, Goto, TypeOK
  <2>5. Opening'
    BY <2>1, <2>2 DEF CopyInv, Opening
  <2>6. Callers'
    BY <2>1, <2>3 DEF CopyInv, Callers
  <2>7. CursorOrder'
    BY <2>1 DEF CopyInv, CursorOrder, sendVars
  <2>8. CopiesFit'
    BY <2>1, <2>4
    DEF CopyInv, CopiesFit, SendSpace, RecvSpace, sendVars, recvVars
  <2>. QED  BY <2>5, <2>6, <2>7, <2>8
<1>3. CASE WriteCopy(t)
  <2>1. /\ UNCHANGED <<state, app, ackBack, sendBack, recvVars>>
        /\ sendFront' = [sendFront EXCEPT ![e] = Add(@, arg[t])]
        /\ pc[t] = "wcopy" /\ pc'[t] = "idle"
        /\ \A u \in Threads : u # t => pc'[u] = pc[u] /\ arg'[u] = arg[u]
    BY <1>3 DEF WriteCopy, Goto, ctlVars, TypeOK
  <2>2. \A u \in Threads : u # t /\ pc[u] = "wcopy" => Owner[u] # e
    BY <2>1 DEF CopyInv, Callers, OneThreadPerCall
  <2>3. Opening' /\ Callers'
    BY <2>1 DEF CopyInv, Opening, Callers
  <2>4. CursorOrder'
    <3>1. /\ arg[t] \in Word /\ sendFront[e] \in Word
          /\ ackBack[e] \in Word /\ sendBack[e] \in Word
          /\ sendFront'[e] = Add(sendFront[e], arg[t])
      BY <1>0, <2>1 DEF TypeOK
    <3>2. arg[t] <= Space(ackBack[e], sendFront[e])
      BY <2>1 DEF CopyInv, CopiesFit, SendSpace
    <3>3. Sub(sendBack[e], ackBack[e]) <= Sub(sendFront[e], ackBack[e])
      BY <1>0 DEF CopyInv, CursorOrder
    <3>4. Sub(sendBack[e], ackBack[e]) <= Sub(sendFront'[e], ackBack[e])
      BY <3>1, <3>2, <3>3, AppendInOrder
    <3>. QED  BY <2>1, <3>4 DEF CopyInv, CursorOrder, TypeOK
  <2>5. CopiesFit'
    <3>1. \A u \in Threads : Owner[u] \in Ends
      BY ConnAssumption
    <3>2. \A f \in Ends : f # e => sendFront'[f] = sendFront[f]
      BY <2>1 DEF TypeOK
    <3>. QED  BY <2>1, <2>2, <3>1, <3>2
              DEF CopyInv, CopiesFit, SendSpace, RecvSpace, recvVars
  <2>. QED  BY <2>3, <2>4, <2>5
<1>4. CASE ReadCopy(t)
  <2>1. /\ UNCHANGED <<state, app, sendVars, recvFront>>
        /\ \A f \in Ends : f # e => recvBack'[f] = recvBack[f]
        /\ pc[t] = "rcopy" /\ pc'[t] = "idle"
        /\ \A u \in Threads : u # t => pc'[u] = pc[u] /\ arg'[u] = arg[u]
    BY <1>4 DEF ReadCopy, Goto, ctlVars, TypeOK
  <2>2. \A u \in Threads : u # t /\ pc[u] = "rcopy" => Owner[u] # e
    BY <2>1 DEF CopyInv, Callers, OneThreadPerCall
  <2>3. Opening' /\ Callers'
    BY <2>1 DEF CopyInv, Opening, Callers
  <2>4. CursorOrder'
    BY <2>1 DEF CopyInv, CursorOrder, sendVars
  <2>5. CopiesFit'
    <3>1. \A u \in Threads : Owner[u] \in Ends
      BY ConnAssumption
    <3>. QED  BY <2>1, <2>2, <3>1
              DEF CopyInv, CopiesFit, SendSpace, RecvSpace, sendVars
  <2>. QED  BY <2>3, <2>4, <2>5
<1>5. CASE CloseFree(t)
  <2>1. /\ UNCHANGED <<app, sendVars, recvVars>>
        /\ state' = [state EXCEPT ![e] = "FREED"]
        /\ pc[t] = "cfree" /\ pc'[t] = "done"
        /\ \A u \in Threads : u # t => pc'[u] = pc[u] /\ arg'[u] = arg[u]
    BY <1>5 DEF CloseFree, Goto, TypeOK
  <2>2. \A f \in Ends : state'[f] \in {"NONE", "SYS_SENT", "SYS_RECV"} =>
                        state'[f] = state[f]
    BY <2>1 DEF TypeOK
  <2>3. Opening'
    BY <2>1, <2>2 DEF CopyInv, Opening, Ends
  <2>4. Callers'
    BY <2>1 DEF CopyInv, Callers
  <2>5. CursorOrder' /\ CopiesFit'
    BY <2>1 DEF CopyInv, CursorOrder, CopiesFit, SendSpace, RecvSpace,
                sendVars, recvVars
  <2>. QED  BY <2>3, <2>4, <2>5
<1>. QED  BY <1>1, <1>2, <1>3, <1>4, <1>5 DEF Call, Work

LEMMA CopyInvStep ==
  ASSUME OneThreadPerCall, TypeOK, CopyInv, [Next]_vars
  PROVE  CopyInv'
<1>0. TypeOK' /\ SeqAgrees'
  BY TypeStep, SeqAgreesStep DEF CopyInv
<1>1. CASE Connect \/ ConnectReturn \/ Accept
  <2>0. \A t \in Threads : Owner[t] \in Ends
    BY ConnAssumption
  <2>1. Opening'
    <3>1. CASE Connect
      BY <2>0, <3>1 DEF Connect, CopyInv, Opening, TypeOK, Ends, threadVars
    <3>2. CASE ConnectReturn
      BY <2>0, <3>2 DEF ConnectReturn, CopyInv, Opening, TypeOK, Ends,
                        ctlVars, threadVars
    <3>3. CASE Accept
      BY <2>0, <3>3 DEF Accept, CopyInv, Opening, TypeOK, Ends, ctlVars,
                        threadVars
    <3>. QED  BY <1>1, <3>1, <3>2, <3>3
  <2>. QED  BY <1>0, <1>1, <2>1, CopyInvIdle
            DEF Connect, ConnectReturn, Accept, CopyInv, sendVars, recvVars
<1>2. ASSUME NEW e \in Ends, Receive(e) \/ Lose(e) \/ AsyncSend(e)
      PROVE  CopyInv'
  BY <1>0, <1>2, CopyInvReceive, CopyInvAsyncSend DEF CopyInv
<1>3. ASSUME NEW t \in Threads, Call(t) \/ Work(t)
      PROVE  CopyInv'
  BY <1>0, <1>3, CopyInvThread DEF CopyInv
<1>4. CASE UNCHANGED vars
  <2>1. Opening'
    BY <1>4 DEF vars, CopyInv, Opening, ctlVars, threadVars
  <2>. QED  BY <1>0, <1>4, <2>1, CopyInvIdle
            DEF vars, CopyInv, sendVars, recvVars
<1>. QED  BY <1>1, <1>2, <1>3, <1>4 DEF Next

\* The room, or the bytes, a thread saw in the unlocked loops of writeLab and
\* readLab are there when it copies under the lock, for every size of buffer,
\* number of losses and order of steps, if no two threads make the same call
\* on one socket.
THEOREM CopiesStayGood ==
  ASSUME OneThreadPerCall
  PROVE  Spec => []CopiesFit
<1>1. Init => TypeOK /\ CopyInv
  BY TypeInit, CopyInvInit
<1>2. TypeOK /\ CopyInv /\ [Next]_vars => (TypeOK /\ CopyInv)'
  BY OneThreadPerCall, TypeStep, CopyInvStep
<1>3. CopyInv => CopiesFit
  BY DEF CopyInv
<1>. QED  BY <1>1, <1>2, <1>3, PTL DEF Spec
=============================================================================
