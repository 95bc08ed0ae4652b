--------------------------- MODULE TcpStreamProofs ---------------------------
(***************************************************************************)
(* That the connection carries two byte streams: what TcpConn promises of  *)
(* the bytes, proved by TLAPS for every buffer size, segment size, amount  *)
(* of data and set of losses, and from it that TcpConn implements          *)
(* ByteStream.                                                             *)
(*                                                                         *)
(* The theorems are about the behaviours in which no write() accepts bytes *)
(* after the FIN of its own end (SilentAfterFin): such bytes are behind    *)
(* the last thing the end says.  WritersAreSilent, at the end, says for    *)
(* which applications that is every behaviour.                             *)
(***************************************************************************)
EXTENDS TcpConnProofs

\* The cursor, or the low half of a sequence number, at the n-th byte.
At(n) == n % M

-----------------------------------------------------------------------------
(* Arithmetic: a cursor stands for its count of bytes as long as the       *)
(* counts that are compared are less than a buffer apart.                  *)

LEMMA Quotient == \A n \in Nat : \E q \in Nat : n = q * M + At(n)
<1>. SUFFICES ASSUME NEW n \in Nat PROVE \E q \in Nat : n = q * M + At(n)
  OBVIOUS
<1>1. n \div M \in Nat /\ n = (n \div M) * M + At(n)
  BY WordAssumption DEF At
<1>. QED  BY <1>1

LEMMA SmallMultiple ==
  ASSUME NEW q \in Int, NEW r \in Int, -M < r, r < M, q * M + r = 0
  PROVE  q = 0 /\ r = 0
<1>0. M \in Nat /\ M >= 2
  BY WordAssumption
<1>1. CASE q >= 1
  <2>1. q * M >= M
    BY <1>0, <1>1
  <2>. QED  BY <1>0, <2>1
<1>2. CASE q <= -1
  <2>1. (-q) * M >= M
    BY <1>0, <1>2
  <2>2. (-q) * M = -(q * M)
    BY <1>0
  <2>. QED  BY <1>0, <2>1, <2>2
<1>3. CASE q = 0
  BY <1>0, <1>3
<1>. QED  BY <1>1, <1>2, <1>3

LEMMA AtWord == /\ \A n \in Nat : At(n) \in Word
                /\ At(0) = 0
BY WordAssumption DEF At, Word

\* The cursor of a count is the only word that differs from it by a multiple
\* of the buffer.
LEMMA AtUnique ==
  ASSUME NEW n \in Nat, NEW w \in Word, NEW q \in Int, n = q * M + w
  PROVE  At(n) = w
<1>1. PICK d \in Nat : n = d * M + At(n)
  BY Quotient
<1>2. At(n) \in Word /\ M \in Nat
  BY AtWord, WordAssumption
<1>3. At(n) \in Int /\ w \in Int /\ -M < At(n) - w /\ At(n) - w < M
  BY <1>2 DEF Word
<1>4. (d - q) * M + (At(n) - w) = 0
  <2>1. (d - q) * M = d * M - q * M
    BY <1>2
  <2>. QED  BY <1>1, <1>2, <1>3, <2>1
<1>5. At(n) - w = 0
  BY <1>3, <1>4, SmallMultiple
<1>. QED  BY <1>3, <1>5

LEMMA AtAdd == \A n \in Nat, k \in Word : Add(At(n), k) = At(n + k)
<1>. SUFFICES ASSUME NEW n \in Nat, NEW k \in Word
              PROVE  Add(At(n), k) = At(n + k)
  OBVIOUS
<1>1. PICK q \in Nat : n = q * M + At(n)
  BY Quotient
<1>2. At(n) \in Word /\ Add(At(n), k) \in Word /\ M \in Nat
  BY AtWord, WordClosed, WordAssumption
<1>3. n + k \in Nat
  BY <1>2 DEF Word
<1>4. CASE At(n) + k < M
  <2>1. n + k = q * M + Add(At(n), k)
    BY <1>1, <1>2, <1>4 DEF Add, Word
  <2>. QED  BY <1>2, <1>3, <2>1, AtUnique
<1>5. CASE ~(At(n) + k < M)
  <2>1. PICK r \in Int : r = q + 1
    OBVIOUS
  <2>2. r * M = q * M + M
    BY <1>2, <2>1
  <2>3. n + k = r * M + Add(At(n), k)
    BY <1>1, <1>2, <1>5, <2>2 DEF Add, Word
  <2>. QED  BY <1>2, <1>3, <2>3, AtUnique
<1>. QED  BY <1>4, <1>5

\* Distances of counts less than a buffer apart, forwards and around the ring.
LEMMA AtSub ==
  \A m, n \in Nat : m <= n /\ n - m < M =>
    /\ Sub(At(n), At(m)) = n - m
    /\ m # n => Sub(At(m), At(n)) = M - (n - m)
    /\ At(m) = At(n) => m = n
<1>. SUFFICES ASSUME NEW m \in Nat, NEW n \in Nat, m <= n, n - m < M
              PROVE  /\ Sub(At(n), At(m)) = n - m
                     /\ m # n => Sub(At(m), At(n)) = M - (n - m)
                     /\ At(m) = At(n) => m = n
  OBVIOUS
<1>1. n - m \in Word /\ M \in Nat /\ At(m) \in Word /\ At(n) \in Word
  BY AtWord, WordAssumption DEF Word
<1>2. At(n) = Add(At(m), n - m)
  <2>1. m + (n - m) = n
    OBVIOUS
  <2>. QED  BY <1>1, <2>1, AtAdd
<1>. QED  BY <1>1, <1>2 DEF Add, Sub, Word

\* A word is the cursor of the first count from n on that it can stand for.
LEMMA AtFrom == \A n \in Nat, x \in Word : At(n + Sub(x, At(n))) = x
<1>. SUFFICES ASSUME NEW n \in Nat, NEW x \in Word
              PROVE  At(n + Sub(x, At(n))) = x
  OBVIOUS
<1>1. At(n) \in Word /\ Sub(x, At(n)) \in Word
  BY AtWord, WordClosed
<1>. QED  BY <1>1, AtAdd, AddSub

\* The room in a ring.
LEMMA SpaceIs == \A x, y \in Word : Space(x, y) = M - 1 - Sub(y, x)
BY WordAssumption DEF Word, Space, Sub

\* Cells written at a count n0 hold the data, the others of the last buffer's
\* length before its end what they held.
LEMMA StoredAt ==
  ASSUME NEW buf \in Buffer, NEW n0 \in Nat, NEW data \in Seq(Byte),
         Len(data) < M, NEW k \in Nat
  PROVE  /\ n0 <= k /\ k < n0 + Len(data) =>
              RingWrite(buf, At(n0), data)[At(k)] = data[k - n0 + 1]
         /\ k < n0 /\ n0 + Len(data) - k <= M =>
              RingWrite(buf, At(n0), data)[At(k)] = buf[At(k)]
<1>1. At(k) \in Word /\ At(n0) \in Word /\ M \in Nat /\ Len(data) \in Nat
  BY AtWord, WordAssumption
<1>2. RingWrite(buf, At(n0), data)[At(k)] =
        IF Sub(At(k), At(n0)) < Len(data) THEN data[Sub(At(k), At(n0)) + 1]
                                          ELSE buf[At(k)]
  BY <1>1 DEF RingWrite
<1>3. CASE n0 <= k /\ k < n0 + Len(data)
  <2>1. Sub(At(k), At(n0)) = k - n0
    BY <1>1, <1>3, AtSub
  <2>. QED  BY <1>1, <1>2, <1>3, <2>1
<1>4. CASE k < n0 /\ n0 + Len(data) - k <= M
  <2>1. CASE n0 - k < M
    <3>1. Sub(At(k), At(n0)) = M - (n0 - k)
      BY <1>1, <1>4, <2>1, AtSub
    <3>. QED  BY <1>1, <1>2, <1>4, <3>1
  <2>2. CASE n0 - k >= M
    <3>1. Len(data) = 0
      BY <1>1, <1>4, <2>2
    <3>2. Sub(At(k), At(n0)) \in Int /\ Sub(At(k), At(n0)) >= 0
      BY <1>1 DEF Word, Sub
    <3>3. ~(Sub(At(k), At(n0)) < Len(data))
      BY <3>1, <3>2
    <3>4. RingWrite(buf, At(n0), data)[At(k)] = buf[At(k)]
      BY <1>2, <3>3
    <3>. QED  BY <1>4, <3>4
  <2>. QED  BY <1>1, <2>1, <2>2
<1>. QED  BY <1>3, <1>4

\* The i-th cell of a ring that is read from a count on.
LEMMA ReadAt ==
  \A n0 \in Nat, n \in Word : \A i \in 1 .. n : Add(At(n0), i - 1) = At(n0 + i - 1)
<1>. SUFFICES ASSUME NEW n0 \in Nat, NEW n \in Word, NEW i \in 1 .. n
              PROVE  Add(At(n0), i - 1) = At(n0 + i - 1)
  OBVIOUS
<1>1. i - 1 \in Word /\ n0 + (i - 1) = n0 + i - 1
  BY WordAssumption DEF Word
<1>. QED  BY <1>1, AtAdd

-----------------------------------------------------------------------------
(* The invariant.                                                          *)

Returned(e) == Len(readLog[e])

\* The end has no connection yet: its buffers have not been opened.
Unopened(e) == \/ state[e] \in {"NONE", "SYS_SENT", "SYS_RECV"}
               \/ e = "client" /\ app[e] = "opening"

SynSegment == Segment({"SYN"}, MinusOne, Zero, M - 1, <<>>)
SynAckSegment == Segment({"SYN", "ACK"}, MinusOne, Zero, M - 1, <<>>)

\* The network while the client waits for the answer to its SYN.
SynOnly ==
  \/ net["client"] = <<>> /\ net["server"] = <<>>
  \/ /\ state["server"] = "NONE"
     /\ net["client"] = <<>> /\ net["server"] = <<SynSegment>>
  \/ /\ state["server"] = "SYS_RECV"
     /\ net["server"] = <<>> /\ net["client"] = <<SynAckSegment>>

\* The handshake: one SYN, one SYN|ACK, and nothing else on the path until the
\* client has opened its buffers; only its ACKs until the server has.
Handshake ==
  /\ app["client"] = "opening" =>
       /\ state["client"] = "CLOSED" /\ state["server"] = "NONE"
       /\ net["client"] = <<>> /\ net["server"] = <<>>
  /\ state["server"] = "NONE" =>
       app["client"] = "opening" \/ state["client"] = "SYS_SENT"
  /\ state["client"] = "SYS_SENT" =>
       /\ app["client"] # "opening" /\ state["server"] \in {"NONE", "SYS_RECV"}
       /\ SynOnly
  /\ state["client"] # "SYS_SENT" =>
       \A e \in Ends : \A i \in 1 .. Len(net[e]) : "SYN" \notin net[e][i].ctrl
  /\ state["server"] = "SYS_RECV" /\ state["client"] # "SYS_SENT" =>
       /\ net["client"] = <<>>
       /\ \A i \in 1 .. Len(net["server"]) : LET p == net["server"][i] IN
            "ACK" \in p.ctrl => p.ack.lo = 0 /\ p.window = M - 1
  /\ state["server"] # "SYS_SENT"

\* What an end is before its buffers are opened.
Blank ==
  /\ \A e \in Ends : isConnection[e] => state[e] = "ESTABLISHED"
  /\ \A e \in Ends : Unopened(e) =>
       /\ clstate[e] = {} /\ ackNum[e] = Zero
       /\ sendFront[e] = 0 /\ sendBack[e] = 0 /\ ackBack[e] = 0
       /\ ackFront[e] = 0 /\ recvFront[e] = 0 /\ recvBack[e] = 0
       /\ written[e] = 0 /\ readLog[e] = <<>> /\ ~eof[e]

\* Closing: who has called close() makes no other call, and a FIN goes when all that
\* its end has written is acknowledged.
Closing ==
  /\ \A t \in Threads :
       /\ "CALL" \in clstate[Owner[t]] => pc[t] \in {"cspin", "cfree", "done"}
       /\ pc[t] = "cfree" => CL_CLOSE \subseteq clstate[Owner[t]]
  /\ \A e \in Ends :
       /\ state[e] \in {"CLOSED", "FREED"} /\ ~Unopened(e) =>
            CL_CLOSE \subseteq clstate[e]
       /\ eof[e] => "FIN_RECV" \in clstate[e]
       /\ "FIN_RECV" \in clstate[e] => "FIN_SENT" \in clstate[Peer(e)]
       /\ "FIN_SENT" \in clstate[e] => AckedBytes(e) = written[e]

\* Every cursor is where its count of bytes says.
Cursors ==
  \A e \in Ends :
    /\ sendFront[e] = At(written[e])
    /\ sendBack[e] = At(SentBytes(e))
    /\ ackBack[e] = At(AckedBytes(e))
    /\ recvBack[e] = At(Returned(e))
    /\ recvFront[e] = At(ReceivedBytes(e)) /\ ackNum[e].lo = recvFront[e]
    /\ 0 <= AckedBytes(e) /\ written[e] - AckedBytes(e) <= M - 1

\* The counts of the two ends of a stream, and the window.
Flow ==
  \A e \in Ends :
    /\ AckedBytes(e) <= ReceivedBytes(Peer(e))
    /\ ReceivedBytes(Peer(e)) <= SentBytes(e)
    /\ SentBytes(e) <= SendLimit(e)
    /\ SendLimit(e) <= Returned(Peer(e)) + M - 1

\* The byte k is in its cell of the write buffer from write() until it is
\* acknowledged, in that of the read buffer until read() has returned it.
Content ==
  \A e \in Ends :
    /\ \A k \in AckedBytes(e) + 1 .. written[e] : writeBuffer[e][At(k - 1)] = k
    /\ \A k \in Returned(e) + 1 .. ReceivedBytes(e) :
         readBuffer[e][At(k - 1)] = k
    /\ readLog[e] = [i \in 1 .. Returned(e) |-> i]

\* A segment with data carries bytes of the stream, none beyond what was sent,
\* and at least up to what has been received.
Before(p) == p.data[1] - 1
End(p) == Before(p) + Len(p.data)
DataOK(e, p) ==
  /\ Before(p) \in Nat /\ Len(p.data) < M
  /\ p.data = [i \in 1 .. Len(p.data) |-> Before(p) + i]
  /\ p.seq.lo = At(Before(p))
  /\ Before(p) <= ReceivedBytes(e) /\ ReceivedBytes(e) <= End(p)
  /\ End(p) <= SentBytes(Peer(e))

\* An acknowledgement is of a byte received and not acknowledged before, or it is
\* the answer to the FIN, which counts one more than there are bytes.
AckPos(e, p) == AckedBytes(e) + Sub(p.ack.lo, ackBack[e])
AckEdge(e, p) == AckPos(e, p) + p.window
FinAck(e, p) == "FIN_SENT" \in clstate[e] /\ p.ack.lo = Add(sendFront[e], 1)
AckOK(e, p) ==
  /\ AckPos(e, p) <= ReceivedBytes(Peer(e))
  /\ SendLimit(e) <= AckEdge(e, p)
  /\ AckEdge(e, p) <= Returned(Peer(e)) + M - 1

PacketOK(e, p) ==
  /\ "SYN" \notin p.ctrl => p.ctrl \in {{}, {"ACK"}, {"FIN"}}
  /\ p.ctrl # {} => p.data = <<>>
  /\ "FIN" \in p.ctrl => "FIN_SENT" \in clstate[Peer(e)]
  /\ p.data # <<>> => DataOK(e, p)
  /\ p.ctrl = {"ACK"} => FinAck(e, p) \/ AckOK(e, p)

\* Of two packets on the path, p ahead of q, the later says no less.
InTurn(e, p, q) ==
  /\ p.data # <<>> /\ q.data # <<>> => End(p) <= End(q)
  /\ p.ctrl = {"ACK"} /\ q.ctrl = {"ACK"} /\ ~FinAck(e, p) /\ ~FinAck(e, q) =>
       AckPos(e, p) <= AckPos(e, q) /\ AckEdge(e, p) <= AckEdge(e, q)

Packets ==
  \A e \in Ends :
    /\ \A i \in 1 .. Len(net[e]) : PacketOK(e, net[e][i])
    /\ \A i, j \in 1 .. Len(net[e]) : i < j => InTurn(e, net[e][i], net[e][j])

StreamInv == /\ Handshake /\ Blank /\ Closing
             /\ Cursors /\ Flow /\ Content /\ Packets

-----------------------------------------------------------------------------
(* Facts about single states.                                              *)

LEMMA Peers ==
  /\ \A e \in Ends : Peer(e) \in Ends /\ Peer(e) # e /\ Peer(Peer(e)) = e
  /\ \A e, f \in Ends : f # e => f = Peer(e)
BY DEF Peer, Ends

LEMMA SubBounds ==
  \A x, y \in Word : Sub(x, y) \in Int /\ 0 <= Sub(x, y) /\ Sub(x, y) <= M - 1
BY WordAssumption DEF Word, Sub

\* The counts are integers, the distances between them words.
LEMMA Counts ==
  ASSUME TypeOK, NEW e \in Ends
  PROVE  /\ written[e] \in Nat /\ Returned(e) \in Nat /\ M \in Nat /\ M >= 2
         /\ SentBytes(e) \in Int /\ AckedBytes(e) \in Int
         /\ ReceivedBytes(e) \in Nat /\ SendLimit(e) \in Int
         /\ SentBytes(e) <= written[e] /\ AckedBytes(e) <= SentBytes(e)
         /\ Returned(e) <= ReceivedBytes(e)
         /\ ReceivedBytes(e) - Returned(e) <= M - 1
         /\ AckedBytes(e) <= SendLimit(e)
<1>1. written[e] \in Nat /\ Len(readLog[e]) \in Nat /\ M \in Nat /\ M >= 2
  BY WordAssumption DEF TypeOK
<1>2. /\ sendFront[e] \in Word /\ ackBack[e] \in Word /\ sendBack[e] \in Word
      /\ recvFront[e] \in Word /\ recvBack[e] \in Word /\ ackFront[e] \in Word
  BY DEF TypeOK
<1>. DEFINE a == Sub(sendFront[e], sendBack[e])  b == Sub(sendBack[e], ackBack[e])
            c == Sub(recvFront[e], recvBack[e])  d == Sub(ackFront[e], ackBack[e])
<1>3. /\ a \in Int /\ 0 <= a /\ a <= M - 1 /\ b \in Int /\ 0 <= b /\ b <= M - 1
      /\ c \in Int /\ 0 <= c /\ c <= M - 1 /\ d \in Int /\ 0 <= d /\ d <= M - 1
  BY <1>2, SubBounds
<1>4. /\ SentBytes(e) = written[e] - a /\ AckedBytes(e) = SentBytes(e) - b
      /\ ReceivedBytes(e) = Returned(e) + c /\ SendLimit(e) = AckedBytes(e) + d
      /\ Returned(e) \in Nat
  BY <1>1 DEF SentBytes, AckedBytes, ReceivedBytes, SendLimit, Returned, RecvSpace
<1>. HIDE DEF a, b, c, d
<1>5. SentBytes(e) \in Int /\ SentBytes(e) <= written[e]
  BY <1>1, <1>3, <1>4
<1>6. AckedBytes(e) \in Int /\ AckedBytes(e) <= SentBytes(e)
  BY <1>3, <1>4, <1>5
<1>7. SendLimit(e) \in Int /\ AckedBytes(e) <= SendLimit(e)
  BY <1>3, <1>4, <1>6
<1>8. /\ ReceivedBytes(e) \in Nat /\ Returned(e) <= ReceivedBytes(e)
      /\ ReceivedBytes(e) - Returned(e) <= M - 1
  BY <1>1, <1>3, <1>4
<1>. QED  BY <1>1, <1>4, <1>5, <1>6, <1>7, <1>8

\* With the cursors at their counts, the distances and the rooms.
LEMMA Distances ==
  ASSUME TypeOK, Cursors, NEW e \in Ends
  PROVE  /\ SentBytes(e) \in Nat /\ AckedBytes(e) \in Nat /\ SendLimit(e) \in Nat
         /\ Sub(sendFront[e], sendBack[e]) = written[e] - SentBytes(e)
         /\ Sub(sendBack[e], ackBack[e]) = SentBytes(e) - AckedBytes(e)
         /\ Sub(ackFront[e], ackBack[e]) = SendLimit(e) - AckedBytes(e)
         /\ RecvSpace(e) = ReceivedBytes(e) - Returned(e)
         /\ SendSpace(e) = M - 1 - (written[e] - AckedBytes(e))
         /\ Window(e) = M - 1 - (ReceivedBytes(e) - Returned(e))
<1>1. /\ written[e] \in Nat /\ Returned(e) \in Nat /\ M \in Nat
      /\ SentBytes(e) \in Int /\ AckedBytes(e) \in Int /\ SendLimit(e) \in Int
      /\ ReceivedBytes(e) \in Nat
      /\ SentBytes(e) <= written[e] /\ AckedBytes(e) <= SentBytes(e)
      /\ AckedBytes(e) <= SendLimit(e)
  BY Counts
<1>2. /\ 0 <= AckedBytes(e) /\ written[e] - AckedBytes(e) <= M - 1
      /\ sendFront[e] = At(written[e]) /\ ackBack[e] = At(AckedBytes(e))
  BY DEF Cursors
<1>3. /\ SentBytes(e) \in Nat /\ AckedBytes(e) \in Nat /\ SendLimit(e) \in Nat
  BY <1>1, <1>2
<1>4. /\ sendFront[e] \in Word /\ ackBack[e] \in Word /\ sendBack[e] \in Word
      /\ recvFront[e] \in Word /\ recvBack[e] \in Word /\ ackFront[e] \in Word
  BY DEF TypeOK
<1>. DEFINE a == Sub(sendFront[e], sendBack[e])  b == Sub(sendBack[e], ackBack[e])
            c == Sub(recvFront[e], recvBack[e])  d == Sub(ackFront[e], ackBack[e])
<1>5. /\ a \in Int /\ b \in Int /\ c \in Int /\ d \in Int
      /\ SentBytes(e) = written[e] - a /\ AckedBytes(e) = SentBytes(e) - b
      /\ ReceivedBytes(e) = Returned(e) + c /\ SendLimit(e) = AckedBytes(e) + d
      /\ RecvSpace(e) = c
  BY <1>4, SubBounds
     DEF SentBytes, AckedBytes, ReceivedBytes, SendLimit, Returned, RecvSpace
<1>6. Sub(sendFront[e], ackBack[e]) = written[e] - AckedBytes(e)
  BY <1>1, <1>2, <1>3, AtSub
<1>7. /\ SendSpace(e) = M - 1 - Sub(sendFront[e], ackBack[e])
      /\ Window(e) = M - 1 - RecvSpace(e)
  BY <1>4, SpaceIs DEF SendSpace, Window, RecvSpace
<1>8. /\ a = written[e] - SentBytes(e) /\ b = SentBytes(e) - AckedBytes(e)
      /\ d = SendLimit(e) - AckedBytes(e)
      /\ RecvSpace(e) = ReceivedBytes(e) - Returned(e)
  <2>. HIDE DEF a, b, c, d
  <2>. QED  BY <1>1, <1>5
<1>. QED  BY <1>3, <1>6, <1>7, <1>8

\* An end without a connection: all counts are 0.
LEMMA BlankCounts ==
  ASSUME TypeOK, Blank, NEW e \in Ends, Unopened(e)
  PROVE  /\ written[e] = 0 /\ Returned(e) = 0 /\ SentBytes(e) = 0
         /\ AckedBytes(e) = 0 /\ ReceivedBytes(e) = 0 /\ SendLimit(e) = 0
<1>1. Sub(0, 0) = 0
  BY DEF Sub
<1>. QED  BY <1>1 DEF Blank, SentBytes, AckedBytes, ReceivedBytes, SendLimit,
                      Returned, RecvSpace

LEMMA StreamInit == Init => StreamInv
<1>. SUFFICES ASSUME Init PROVE StreamInv
  OBVIOUS
<1>0. TypeOK /\ "client" \in Ends /\ "server" \in Ends
  BY TypeInit DEF Ends
<1>1. Handshake /\ Packets
  BY DEF Init, Handshake, Packets, Ends
<1>2. Blank
  BY DEF Init, Blank
<1>3. \A e \in Ends : Unopened(e)
  BY DEF Init, Unopened, Ends
<1>4. Closing
  BY <1>3, ConnAssumption DEF Init, Closing
<1>5. \A e \in Ends : /\ written[e] = 0 /\ Returned(e) = 0 /\ SentBytes(e) = 0
                      /\ AckedBytes(e) = 0 /\ ReceivedBytes(e) = 0
                      /\ SendLimit(e) = 0
  BY <1>0, <1>2, <1>3, BlankCounts
<1>6. Cursors
  BY <1>5, AtWord, WordAssumption DEF Init, Cursors, Zero
<1>7. Flow
  BY <1>5, Peers, WordAssumption DEF Flow
<1>8. Content
  BY <1>5 DEF Init, Content
<1>. QED  BY <1>1, <1>2, <1>4, <1>6, <1>7, <1>8 DEF StreamInv

-----------------------------------------------------------------------------
(* The packets on the path, whatever the step: some leave at the head,     *)
(* some are added at the end.                                              *)

countVars == <<sendFront, sendBack, ackFront, ackBack, recvFront, recvBack, ackNum,
               written, readLog>>

\* A step that moves no count leaves every packet as good as it was.
LEMMA PacketKept ==
  ASSUME UNCHANGED countVars,
         \A e \in Ends : "FIN_SENT" \in clstate[e] => "FIN_SENT" \in clstate'[e],
         NEW e \in Ends, NEW p, NEW q
  PROVE  /\ PacketOK(e, p) => PacketOK(e, p)'
         /\ InTurn(e, p, q) => InTurn(e, p, q)'
<1>1. \A f \in Ends :
        /\ AckedBytes(f)' = AckedBytes(f) /\ SentBytes(f)' = SentBytes(f)
        /\ ReceivedBytes(f)' = ReceivedBytes(f) /\ SendLimit(f)' = SendLimit(f)
        /\ Returned(f)' = Returned(f)
  BY DEF countVars, AckedBytes, SentBytes, ReceivedBytes, SendLimit, Returned,
         RecvSpace
<1>2. /\ AckPos(e, p)' = AckPos(e, p) /\ AckPos(e, q)' = AckPos(e, q)
      /\ AckEdge(e, p)' = AckEdge(e, p) /\ AckEdge(e, q)' = AckEdge(e, q)
  BY <1>1 DEF countVars, AckPos, AckEdge
<1>3. FinAck(e, p) => FinAck(e, p)'
  BY DEF FinAck, countVars
<1>4. FinAck(e, q) => FinAck(e, q)'
  BY DEF FinAck, countVars
<1>5. DataOK(e, p) => DataOK(e, p)'
  BY <1>1, Peers DEF DataOK
<1>6. AckOK(e, p) => AckOK(e, p)'
  BY <1>1, <1>2, Peers DEF AckOK
<1>7. PacketOK(e, p) => PacketOK(e, p)'
  BY <1>3, <1>5, <1>6, Peers DEF PacketOK
<1>8. InTurn(e, p, q) => InTurn(e, p, q)'
  BY <1>2, <1>3, <1>4 DEF InTurn
<1>. QED  BY <1>7, <1>8

LEMMA TailIs ==
  ASSUME NEW s \in Seq(Packet), s # <<>>
  PROVE  /\ Len(s) \in Nat /\ Len(s) >= 1 /\ Tail(s) # s /\ Head(s) = s[1]
         /\ Head(s) \in Packet /\ Tail(s) \in Seq(Packet)
         /\ Len(Tail(s)) = Len(s) - 1
         /\ \A i \in 1 .. Len(Tail(s)) : Tail(s)[i] = s[i + 1]
<1>1. /\ Len(s) \in Nat /\ Len(s) >= 1 /\ Head(s) = s[1]
      /\ Head(s) \in Packet /\ Tail(s) \in Seq(Packet)
      /\ Len(Tail(s)) = Len(s) - 1
  OBVIOUS
<1>2. \A i \in 1 .. Len(Tail(s)) : Tail(s)[i] = s[i + 1]
  BY <1>1
<1>3. ASSUME Tail(s) = s PROVE FALSE
  <2>1. Len(Tail(s)) = Len(s)
    BY <1>3
  <2>. QED  BY <1>1, <2>1
<1>. QED  BY <1>1, <1>2, <1>3

LEMMA PacketsStep ==
  ASSUME TypeOK, TypeOK', Packets, NEW e \in Ends, NEW more \in Seq(Packet),
         \/ net'[e] = net[e]
         \/ net[e] # <<>> /\ net'[e] = Tail(net[e]),
         net'[Peer(e)] = net[Peer(e)] \o more,
         \A f \in Ends, p \in Packet :
           PacketOK(f, p) /\ (f = e /\ net'[e] # net[e] => InTurn(e, Head(net[e]), p))
             => PacketOK(f, p)',
         \A f \in Ends, p, q \in Packet :
           /\ PacketOK(f, p) /\ PacketOK(f, q) /\ InTurn(f, p, q)
           /\ f = e /\ net'[e] # net[e] => /\ InTurn(e, Head(net[e]), p)
                                           /\ InTurn(e, Head(net[e]), q)
           => InTurn(f, p, q)',
         \A i \in 1 .. Len(more) :
           /\ PacketOK(Peer(e), more[i])'
           /\ \A p \in Packet : PacketOK(Peer(e), p) => InTurn(Peer(e), p, more[i])'
           /\ \A j \in 1 .. Len(more) :
                i < j => InTurn(Peer(e), more[i], more[j])'
  PROVE  Packets'
<1>. DEFINE f == Peer(e)
<1>0. /\ net[e] \in Seq(Packet) /\ net[f] \in Seq(Packet) /\ f \in Ends /\ f # e
      /\ \A g \in Ends : g = e \/ g = f
  BY Peers DEF TypeOK
<1>1. /\ \A i \in 1 .. Len(net[e]) : PacketOK(e, net[e][i])
      /\ \A i, j \in 1 .. Len(net[e]) : i < j => InTurn(e, net[e][i], net[e][j])
      /\ \A i \in 1 .. Len(net[f]) : PacketOK(f, net[f][i])
      /\ \A i, j \in 1 .. Len(net[f]) : i < j => InTurn(f, net[f][i], net[f][j])
  BY <1>0 DEF Packets
<1>2. /\ \A i \in 1 .. Len(net'[e]) : PacketOK(e, net[e][i])'
      /\ \A i, j \in 1 .. Len(net'[e]) : i < j => InTurn(e, net[e][i], net[e][j])'
  <2>1. CASE net'[e] = net[e]
    <3>1. ASSUME NEW i \in 1 .. Len(net[e]), NEW p, p = net[e][i]
          PROVE  p \in Packet /\ PacketOK(e, p)'
      <4>1. p \in Packet /\ PacketOK(e, p)
        BY <1>0, <1>1, <3>1
      <4>. QED  BY <2>1, <4>1
    <3>2. ASSUME NEW i \in 1 .. Len(net[e]), NEW j \in 1 .. Len(net[e]), i < j,
                 NEW p, p = net[e][i], NEW q, q = net[e][j]
          PROVE  InTurn(e, p, q)'
      <4>1. p \in Packet /\ PacketOK(e, p) /\ q \in Packet /\ PacketOK(e, q)
            /\ InTurn(e, p, q)
        BY <1>0, <1>1, <3>2
      <4>. QED  BY <2>1, <4>1
    <3>. QED  BY <2>1, <3>1, <3>2
  <2>2. CASE net[e] # <<>> /\ net'[e] = Tail(net[e])
    <3>0. /\ Len(net[e]) \in Nat /\ Len(net[e]) >= 1
          /\ Len(net'[e]) = Len(net[e]) - 1 /\ net'[e] # net[e]
          /\ \A i \in 1 .. Len(net'[e]) : net'[e][i] = net[e][i + 1]
          /\ Head(net[e]) = net[e][1]
      BY <1>0, <2>2, TailIs
    <3>1. ASSUME NEW i \in 1 .. Len(net'[e]), NEW p, p = net[e][i + 1]
          PROVE  /\ p \in Packet /\ PacketOK(e, p) /\ InTurn(e, Head(net[e]), p)
                 /\ PacketOK(e, p)'
      <4>1. 1 \in 1 .. Len(net[e]) /\ i + 1 \in 1 .. Len(net[e]) /\ 1 < i + 1
        BY <3>0, <3>1
      <4>2. p \in Packet /\ PacketOK(e, p) /\ InTurn(e, Head(net[e]), p)
        BY <1>0, <1>1, <3>0, <3>1, <4>1
      <4>. QED  BY <4>2
    <3>2. ASSUME NEW i \in 1 .. Len(net'[e]), NEW j \in 1 .. Len(net'[e]), i < j,
                 NEW p, p = net[e][i + 1], NEW q, q = net[e][j + 1]
          PROVE  InTurn(e, p, q)'
      <4>1. /\ i + 1 \in 1 .. Len(net[e]) /\ j + 1 \in 1 .. Len(net[e])
            /\ i + 1 < j + 1
        BY <3>0, <3>2
      <4>2. InTurn(e, p, q)
        BY <1>1, <3>2, <4>1
      <4>3. /\ p \in Packet /\ PacketOK(e, p) /\ InTurn(e, Head(net[e]), p)
            /\ q \in Packet /\ PacketOK(e, q) /\ InTurn(e, Head(net[e]), q)
        BY <3>1, <3>2
      <4>. QED  BY <4>2, <4>3
    <3>3. ASSUME NEW i \in 1 .. Len(net'[e])
          PROVE  PacketOK(e, net[e][i])'
      BY <3>0, <3>1
    <3>4. ASSUME NEW i \in 1 .. Len(net'[e]), NEW j \in 1 .. Len(net'[e]), i < j
          PROVE  InTurn(e, net[e][i], net[e][j])'
      BY <3>0, <3>2, <3>4
    <3>. QED  BY <3>3, <3>4
  <2>. QED  BY <2>1, <2>2
<1>3. ASSUME NEW i \in 1 .. Len(net[f]), NEW p, p = net[f][i]
      PROVE  p \in Packet /\ PacketOK(f, p) /\ PacketOK(f, p)'
  BY <1>0, <1>1, <1>3
<1>4. ASSUME NEW i \in 1 .. Len(net[f]), NEW j \in 1 .. Len(net[f]), i < j,
             NEW p, p = net[f][i], NEW q, q = net[f][j]
      PROVE  InTurn(f, p, q)'
  BY <1>0, <1>1, <1>3, <1>4
<1>5. /\ Len(net'[f]) = Len(net[f]) + Len(more)
      /\ Len(net[f]) \in Nat /\ Len(more) \in Nat
      /\ \A i \in 1 .. Len(net'[f]) :
           \/ i \in 1 .. Len(net[f]) /\ net'[f][i] = net[f][i]
           \/ i > Len(net[f]) /\ i - Len(net[f]) \in 1 .. Len(more)
              /\ net'[f][i] = more[i - Len(net[f])]
  BY <1>0
<1>6. ASSUME NEW i \in 1 .. Len(net'[f])
      PROVE  PacketOK(f, net[f][i])'
  BY <1>3, <1>5
<1>7. ASSUME NEW i \in 1 .. Len(net'[f]), NEW j \in 1 .. Len(net'[f]), i < j
      PROVE  InTurn(f, net[f][i], net[f][j])'
  <2>1. CASE j \in 1 .. Len(net[f])
    <3>1. i \in 1 .. Len(net[f])
      BY <1>5, <1>7, <2>1
    <3>2. net'[f][i] = net[f][i] /\ net'[f][j] = net[f][j]
      BY <1>5, <2>1, <3>1
    <3>. QED  BY <1>4, <1>7, <2>1, <3>1, <3>2
  <2>2. CASE j \notin 1 .. Len(net[f]) /\ i \in 1 .. Len(net[f])
    <3>1. /\ j - Len(net[f]) \in 1 .. Len(more)
          /\ net'[f][j] = more[j - Len(net[f])] /\ net'[f][i] = net[f][i]
      BY <1>5, <2>2
    <3>. QED  BY <1>3, <2>2, <3>1
  <2>3. CASE j \notin 1 .. Len(net[f]) /\ i \notin 1 .. Len(net[f])
    <3>1. /\ j - Len(net[f]) \in 1 .. Len(more) /\ i - Len(net[f]) \in 1 .. Len(more)
          /\ net'[f][j] = more[j - Len(net[f])] /\ net'[f][i] = more[i - Len(net[f])]
          /\ i - Len(net[f]) < j - Len(net[f])
      BY <1>5, <1>7, <2>3
    <3>. QED  BY <3>1
  <2>. QED  BY <2>1, <2>2, <2>3
<1>8. \A g \in Ends :
        /\ \A i \in 1 .. Len(net'[g]) : PacketOK(g, net[g][i])'
        /\ \A i, j \in 1 .. Len(net'[g]) : i < j => InTurn(g, net[g][i], net[g][j])'
  <2>. HIDE DEF f
  <2>. QED  BY <1>0, <1>2, <1>6, <1>7
<1>. QED  BY <1>8 DEF Packets

-----------------------------------------------------------------------------
(* Steps that move no count.                                               *)

LEMMA DataKept ==
  ASSUME UNCHANGED countVars, UNCHANGED <<readBuffer, writeBuffer>>,
         Cursors, Flow, Content
  PROVE  Cursors' /\ Flow' /\ Content'
<1>1. \A f \in Ends :
        /\ AckedBytes(f)' = AckedBytes(f) /\ SentBytes(f)' = SentBytes(f)
        /\ ReceivedBytes(f)' = ReceivedBytes(f) /\ SendLimit(f)' = SendLimit(f)
        /\ Returned(f)' = Returned(f)
  BY DEF countVars, AckedBytes, SentBytes, ReceivedBytes, SendLimit, Returned,
         RecvSpace
<1>2. Cursors'
  BY <1>1 DEF Cursors, countVars
<1>3. Flow'
  BY <1>1, Peers DEF Flow
<1>4. Content'
  BY <1>1 DEF Content, countVars
<1>. QED  BY <1>2, <1>3, <1>4

FinKept == \A e \in Ends : "FIN_SENT" \in clstate[e] => "FIN_SENT" \in clstate'[e]

LEMMA PacketsKept ==
  ASSUME Packets, UNCHANGED countVars, UNCHANGED net, FinKept
  PROVE  Packets'
BY PacketKept DEF Packets, FinKept

\* No packet comes or goes.
LEMMA PacketsStay ==
  ASSUME TypeOK, Packets, UNCHANGED net,
         \A e \in Ends, p \in Packet : PacketOK(e, p) => PacketOK(e, p)',
         \A e \in Ends, p, q \in Packet : InTurn(e, p, q) => InTurn(e, p, q)'
  PROVE  Packets'
<1>1. ASSUME NEW e \in Ends, NEW i \in 1 .. Len(net[e]), NEW p, p = net[e][i]
      PROVE  p \in Packet /\ PacketOK(e, p)'
  BY <1>1 DEF Packets, TypeOK
<1>2. ASSUME NEW e \in Ends, NEW i \in 1 .. Len(net[e]),
             NEW j \in 1 .. Len(net[e]), i < j,
             NEW p, p = net[e][i], NEW q, q = net[e][j]
      PROVE  InTurn(e, p, q)'
  BY <1>1, <1>2 DEF Packets
<1>. QED  BY <1>1, <1>2 DEF Packets

\* A packet is dropped, or taken without any effect on the counts.
LEMMA PacketsDropped ==
  ASSUME TypeOK, TypeOK', Packets, UNCHANGED countVars, FinKept,
         NEW e \in Ends, net[e] # <<>>, net' = [net EXCEPT ![e] = Tail(@)]
  PROVE  Packets'
<1>1. net'[e] = Tail(net[e]) /\ net'[Peer(e)] = net[Peer(e)]
  BY Peers DEF TypeOK
<1>2. <<>> \in Seq(Packet) /\ net'[Peer(e)] = net[Peer(e)] \o <<>>
  <2>1. net[Peer(e)] \in Seq(Packet)
    BY Peers DEF TypeOK
  <2>. QED  BY <1>1, <2>1
<1>3. \A f \in Ends, p \in Packet : PacketOK(f, p) => PacketOK(f, p)'
  BY PacketKept DEF FinKept
<1>4. \A f \in Ends, p, q \in Packet : InTurn(f, p, q) => InTurn(f, p, q)'
  BY PacketKept DEF FinKept
<1>5. \A f \in Ends, p \in Packet :
        PacketOK(f, p) /\ (f = e /\ net'[e] # net[e] => InTurn(e, Head(net[e]), p))
          => PacketOK(f, p)'
  BY <1>3
<1>6. \A f \in Ends, p, q \in Packet :
        /\ PacketOK(f, p) /\ PacketOK(f, q) /\ InTurn(f, p, q)
        /\ f = e /\ net'[e] # net[e] => /\ InTurn(e, Head(net[e]), p)
                                        /\ InTurn(e, Head(net[e]), q)
        => InTurn(f, p, q)'
  BY <1>4
<1>7. PICK none \in Seq(Packet) : none = <<>>
  BY <1>2
<1>8. net'[Peer(e)] = net[Peer(e)] \o none
  BY <1>2, <1>7
<1>9. \A i \in 1 .. Len(none) : FALSE
  BY <1>7
<1>. QED  BY <1>1, <1>5, <1>6, <1>8, <1>9, PacketsStep

\* An application has a connection only when its end has.
LEMMA OpenEnds ==
  ASSUME Opening, NEW e \in Ends, app[e] = "open"
  PROVE  ~Unopened(e)
BY DEF Opening, Unopened

\* The steps of the threads that copy nothing, as far as the handshake and closing
\* go.
LEMMA ThreadControl ==
  ASSUME TypeOK, TypeOK', CopyInv, Handshake, Blank, Closing, NEW t \in Threads,
         \/ WriteCall(t) \/ WriteSpin(t) \/ WriteState(t)
         \/ ReadCall(t) \/ ReadSpin(t) \/ ReadState(t)
         \/ CloseCall(t) \/ CloseSpin(t) \/ CloseFree(t)
  PROVE  Handshake' /\ Blank' /\ Closing' /\ FinKept
<1>. DEFINE e == Owner[t]
<1>0. e \in Ends /\ (\A u \in Threads : Owner[u] \in Ends) /\ "client" \in Ends
      /\ "server" \in Ends
  BY ConnAssumption DEF Ends
<1>1. app[e] = "open" /\ ~Unopened(e)
  <2>1. app[e] = "open"
    BY DEF WriteCall, WriteSpin, WriteState, ReadCall, ReadSpin, ReadState, CloseCall,
           CloseSpin, CloseFree, Enters, CopyInv, Opening
  <2>. QED  BY <1>0, <2>1, OpenEnds DEF CopyInv
<1>2. UNCHANGED countVars /\ UNCHANGED <<net, app, readBuffer, writeBuffer>>
  BY DEF WriteCall, WriteSpin, WriteState, ReadCall, ReadSpin, ReadState, CloseCall,
         CloseSpin, CloseFree, countVars, sendVars, recvVars, histVars
<1>3. \E l \in Labels : Goto(t, l)
  BY DEF WriteCall, WriteSpin, WriteState, ReadCall, ReadSpin, ReadState, CloseCall,
         CloseSpin, CloseFree, Labels
<1>4. \A u \in Threads : u # t => pc'[u] = pc[u]
  BY <1>3 DEF Goto, TypeOK
<1>5. \/ UNCHANGED <<ctlVars, eof>>
      \/ ReadState(t) /\ UNCHANGED ctlVars /\ state[e] = "CLOSED"
         /\ eof' = [eof EXCEPT ![e] = TRUE]
      \/ CloseCall(t) /\ UNCHANGED <<state, isConnection, eof>>
         /\ clstate' = [clstate EXCEPT ![e] = @ \cup {"CALL"}]
      \/ CloseFree(t) /\ UNCHANGED <<clstate, eof>>
         /\ state' = [state EXCEPT ![e] = "FREED"]
         /\ isConnection' = [isConnection EXCEPT ![e] = FALSE]
  BY DEF WriteCall, WriteSpin, WriteState, ReadCall, ReadSpin, ReadState, CloseCall,
         CloseSpin, CloseFree, ctlVars, histVars
<1>6. /\ \A f \in Ends : f # e => /\ state'[f] = state[f] /\ clstate'[f] = clstate[f]
                                  /\ isConnection'[f] = isConnection[f]
                                  /\ eof'[f] = eof[f]
      /\ state'[e] = state[e] \/ state'[e] = "FREED"
      /\ clstate[e] \subseteq clstate'[e]
      /\ isConnection'[e] = isConnection[e] \/ isConnection'[e] = FALSE
      /\ state'[e] # state[e] => isConnection'[e] = FALSE
  <2>1. CASE UNCHANGED <<state, clstate, isConnection>>
             /\ (UNCHANGED eof \/ eof' = [eof EXCEPT ![e] = TRUE])
    BY <1>0, <2>1 DEF TypeOK
  <2>2. CASE /\ UNCHANGED <<state, isConnection, eof>>
             /\ clstate' = [clstate EXCEPT ![e] = @ \cup {"CALL"}]
    BY <1>0, <2>2 DEF TypeOK
  <2>3. CASE /\ UNCHANGED <<clstate, eof>>
             /\ state' = [state EXCEPT ![e] = "FREED"]
             /\ isConnection' = [isConnection EXCEPT ![e] = FALSE]
    BY <1>0, <2>3 DEF TypeOK
  <2>. QED  BY <1>5, <2>1, <2>2, <2>3 DEF ctlVars
<1>7. \A f \in Ends : Unopened(f)' = Unopened(f)
  BY <1>1, <1>2, <1>6 DEF Unopened
<1>8. Handshake'
  <2>1. state["client"] # "SYS_SENT" => state'["client"] # "SYS_SENT"
    BY <1>0, <1>6
  <2>. QED  BY <1>0, <1>1, <1>2, <1>6, <2>1 DEF Handshake, Unopened, SynOnly
<1>9. Blank'
  <2>1. \A f \in Ends : isConnection'[f] => state'[f] = "ESTABLISHED"
    BY <1>0, <1>6 DEF Blank, TypeOK
  <2>. QED  BY <1>1, <1>2, <1>6, <1>7, <2>1 DEF Blank, countVars
<1>10. FinKept
  BY <1>6 DEF FinKept
<1>11. \A f \in Ends : clstate'[f] \subseteq clstate[f] \cup {"CALL"}
  BY <1>0, <1>5 DEF ctlVars, TypeOK
<1>12. \A f \in Ends : AckedBytes(f)' = AckedBytes(f) /\ written'[f] = written[f]
  BY <1>2 DEF countVars, AckedBytes, SentBytes
<1>13. ASSUME NEW u \in Threads, "CALL" \in clstate'[Owner[u]]
       PROVE  pc'[u] \in {"cspin", "cfree", "done"}
  <2>1. CASE CloseCall(t) /\ Owner[u] = e
    <3>1. u = t
      BY <2>1, ConnAssumption DEF CloseCall, Enters
    <3>. QED  BY <2>1, <3>1 DEF CloseCall, Goto, TypeOK
  <2>2. CASE ~(CloseCall(t) /\ Owner[u] = e)
    <3>1. "CALL" \in clstate[Owner[u]]
      BY <1>0, <1>5, <1>6, <1>13, <2>2 DEF ctlVars
    <3>2. pc[u] \in {"cspin", "cfree", "done"}
      BY <3>1 DEF Closing
    <3>3. CASE u = t
      BY <3>2, <3>3 DEF WriteCall, WriteSpin, WriteState, ReadCall, ReadSpin, ReadState,
           CloseCall, CloseSpin, CloseFree, Enters, Goto, TypeOK
    <3>. QED  BY <1>4, <3>2, <3>3
  <2>. QED  BY <2>1, <2>2
<1>14. ASSUME NEW u \in Threads, pc'[u] = "cfree"
       PROVE  CL_CLOSE \subseteq clstate'[Owner[u]]
  <2>1. CL_CLOSE \subseteq clstate[Owner[u]]
    <3>1. CASE u = t
      <4>1. CloseSpin(t)
        BY <1>14, <3>1 DEF WriteCall, WriteSpin, WriteState, ReadCall, ReadSpin,
             ReadState, CloseCall, CloseFree, Goto, TypeOK
      <4>. QED  BY <1>0, <1>1, <3>1, <4>1 DEF CloseSpin, Closing, CL_CLOSE, CloseBits
    <3>2. CASE u # t
      BY <1>4, <1>14, <3>2 DEF Closing
    <3>. QED  BY <3>1, <3>2
  <2>. QED  BY <1>0, <1>6, <2>1
<1>15. ASSUME NEW f \in Ends, state'[f] \in {"CLOSED", "FREED"}, ~Unopened(f)'
       PROVE  CL_CLOSE \subseteq clstate'[f]
  <2>1. CASE CloseFree(t) /\ f = e
    <3>1. CL_CLOSE \subseteq clstate[e]
      BY <2>1 DEF CloseFree, Closing
    <3>. QED  BY <1>6, <2>1, <3>1
  <2>2. CASE ~(CloseFree(t) /\ f = e)
    <3>1. state'[f] = state[f]
      BY <1>5, <1>6, <2>2 DEF ctlVars
    <3>2. CL_CLOSE \subseteq clstate[f]
      BY <1>7, <1>15, <3>1 DEF Closing
    <3>. QED  BY <1>6, <3>2
  <2>. QED  BY <2>1, <2>2
<1>16. ASSUME NEW f \in Ends, eof'[f]
       PROVE  "FIN_RECV" \in clstate'[f]
  <2>1. CASE eof[f]
    BY <1>6, <2>1 DEF Closing
  <2>2. CASE ~eof[f]
    <3>1. f = e /\ state[e] = "CLOSED"
      BY <1>5, <1>6, <1>16, <2>2
    <3>. QED  BY <1>1, <1>6, <3>1 DEF Closing, CL_CLOSE
  <2>. QED  BY <2>1, <2>2
<1>17. ASSUME NEW f \in Ends
       PROVE  /\ "FIN_RECV" \in clstate'[f] => "FIN_SENT" \in clstate'[Peer(f)]
              /\ "FIN_SENT" \in clstate'[f] => AckedBytes(f)' = written'[f]
  <2>1. \A g \in Ends : clstate[g] \subseteq clstate'[g]
    BY <1>6
  <2>. QED  BY <1>0, <1>11, <1>12, <2>1, Peers DEF Closing
<1>18. Closing'
  BY <1>13, <1>14, <1>15, <1>16, <1>17 DEF Closing
<1>. QED  BY <1>8, <1>9, <1>10, <1>18

\* So they keep the invariant.
LEMMA ThreadStream ==
  ASSUME TypeOK, TypeOK', CopyInv, StreamInv, NEW t \in Threads,
         \/ WriteCall(t) \/ WriteSpin(t) \/ WriteState(t)
         \/ ReadCall(t) \/ ReadSpin(t) \/ ReadState(t)
         \/ CloseCall(t) \/ CloseSpin(t) \/ CloseFree(t)
  PROVE  StreamInv'
<1>1. UNCHANGED countVars /\ UNCHANGED net /\ UNCHANGED <<readBuffer, writeBuffer>>
  BY DEF WriteCall, WriteSpin, WriteState, ReadCall, ReadSpin, ReadState, CloseCall,
         CloseSpin, CloseFree, countVars, sendVars, recvVars, histVars
<1>2. Handshake' /\ Blank' /\ Closing' /\ FinKept
  BY ThreadControl DEF StreamInv
<1>3. Cursors' /\ Flow' /\ Content'
  BY <1>1, DataKept DEF StreamInv
<1>4. Packets'
  BY <1>1, <1>2, PacketsKept DEF StreamInv
<1>. QED  BY <1>2, <1>3, <1>4 DEF StreamInv

\* A packet goes, and nothing else happens.
LEMMA DropStream ==
  ASSUME TypeOK, TypeOK', StreamInv, NEW e \in Ends, net[e] # <<>>,
         net' = [net EXCEPT ![e] = Tail(@)],
         UNCHANGED <<ctlVars, sendVars, recvVars, app, threadVars, histVars>>
  PROVE  StreamInv'
<1>1. UNCHANGED countVars /\ UNCHANGED <<readBuffer, writeBuffer>>
  BY DEF countVars, sendVars, recvVars, histVars
<1>2. UNCHANGED <<state, clstate, isConnection, pc, app, eof>> /\ FinKept
  BY DEF ctlVars, threadVars, histVars, FinKept
<1>3. /\ net[e] \in Seq(Packet) /\ net'[e] = Tail(net[e])
      /\ \A f \in Ends : f # e => net'[f] = net[f]
  BY DEF TypeOK
<1>4. /\ Len(net[e]) \in Nat /\ Len(net[e]) >= 1 /\ Len(net'[e]) = Len(net[e]) - 1
      /\ \A i \in 1 .. Len(net'[e]) : net'[e][i] = net[e][i + 1]
  BY <1>3, TailIs
<1>5. \A f \in Ends : \A i \in 1 .. Len(net'[f]) :
        \E j \in 1 .. Len(net[f]) : net'[f][i] = net[f][j]
  <2>1. ASSUME NEW i \in 1 .. Len(net'[e])
        PROVE  \E j \in 1 .. Len(net[e]) : net'[e][i] = net[e][j]
    <3>1. i + 1 \in 1 .. Len(net[e])
      BY <1>4
    <3>. QED  BY <1>4, <3>1
  <2>. QED  BY <1>3, <2>1
<1>6. Handshake'
  <2>1. "client" \in Ends /\ "server" \in Ends
    BY DEF Ends
  <2>2. SynOnly => SynOnly'
    <3>1. \A x : net[e] = <<x>> => net'[e] = <<>>
      BY <1>3
    <3>. QED  BY <1>2, <1>3, <2>1, <3>1 DEF SynOnly, Ends
  <2>3. app["client"] # "opening" \/ ~Handshake
    BY <2>1 DEF Handshake, Ends
  <2>4. /\ \A f \in Ends : net[f] = <<>> => net'[f] = <<>>
        /\ state["client"] # "SYS_SENT" =>
             \A f \in Ends : \A i \in 1 .. Len(net'[f]) : "SYN" \notin net'[f][i].ctrl
    <3>1. ASSUME NEW f \in Ends, net[f] = <<>> PROVE net'[f] = <<>>
      BY <1>3, <3>1
    <3>2. ASSUME state["client"] # "SYS_SENT", NEW f \in Ends,
                 NEW i \in 1 .. Len(net'[f])
          PROVE  "SYN" \notin net'[f][i].ctrl
      BY <1>5, <3>2 DEF StreamInv, Handshake
    <3>. QED  BY <3>1, <3>2
  <2>5. ASSUME state["server"] = "SYS_RECV", state["client"] # "SYS_SENT",
               NEW i \in 1 .. Len(net'["server"]), "ACK" \in net'["server"][i].ctrl
        PROVE  /\ net'["server"][i].ack.lo = 0
               /\ net'["server"][i].window = M - 1
    BY <1>5, <2>1, <2>5 DEF StreamInv, Handshake
  <2>. QED  BY <1>2, <2>1, <2>2, <2>3, <2>4, <2>5 DEF StreamInv, Handshake
<1>7. Blank' /\ Closing'
  BY <1>1, <1>2 DEF StreamInv, Blank, Closing, Unopened, countVars, AckedBytes,
     SentBytes
<1>8. Cursors' /\ Flow' /\ Content'
  BY <1>1, DataKept DEF StreamInv
<1>9. Packets'
  BY <1>1, <1>2, PacketsDropped DEF StreamInv
<1>. QED  BY <1>6, <1>7, <1>8, <1>9 DEF StreamInv

LEMMA HandledIs ==
  ASSUME TypeOK, NEW e \in Ends, NEW replies \in Seq(Packet), Handled(e, replies)
  PROVE  /\ net'[e] = Tail(net[e]) /\ net'[Peer(e)] = net[Peer(e)] \o replies
         /\ replies = <<>> => net' = [net EXCEPT ![e] = Tail(@)]
<1>1. net \in [Ends -> Seq(Packet)] /\ Peer(e) \in Ends /\ Peer(e) # e
  BY Peers DEF TypeOK
<1>2. net'[e] = Tail(net[e]) /\ net'[Peer(e)] = net[Peer(e)] \o replies
  BY <1>1 DEF Handled
<1>3. net' = [f \in Ends |-> IF f = Peer(e) THEN net[f] \o replies
                             ELSE IF f = e THEN Tail(net[f]) ELSE net[f]]
  BY <1>1 DEF Handled
<1>4. net[Peer(e)] \o <<>> = net[Peer(e)]
  BY <1>1
<1>5. replies = <<>> => net' = [net EXCEPT ![e] = Tail(@)]
  BY <1>1, <1>3, <1>4
<1>. QED  BY <1>2, <1>5

LEMMA QuietStream ==
  ASSUME TypeOK, TypeOK', StreamInv, NEW e \in Ends,
         Lose(e) \/ (net[e] # <<>> /\ HandleIgnored(e, Head(net[e])))
  PROVE  StreamInv'
<1>1. /\ net[e] # <<>>
      /\ UNCHANGED <<ctlVars, sendVars, recvVars, app, threadVars, histVars>>
  BY DEF Lose, HandleIgnored
<1>2. net' = [net EXCEPT ![e] = Tail(@)]
  <2>1. CASE Lose(e)
    BY <2>1 DEF Lose
  <2>2. CASE HandleIgnored(e, Head(net[e]))
    <3>0. <<>> \in Seq(Packet)
      OBVIOUS
    <3>1. PICK r \in Seq(Packet) : r = <<>>
      BY <3>0
    <3>2. Handled(e, r)
      BY <2>2, <3>1 DEF HandleIgnored
    <3>. QED  BY <3>1, <3>2, HandledIs
  <2>. QED  BY <2>1, <2>2
<1>. QED  BY <1>1, <1>2, DropStream

-----------------------------------------------------------------------------
(* Opening the connection.                                                 *)

LEMMA ReturnStream ==
  ASSUME TypeOK, TypeOK', StreamInv, ConnectReturn \/ Accept
  PROVE  StreamInv'
<1>1. /\ UNCHANGED countVars /\ UNCHANGED <<readBuffer, writeBuffer, net>>
      /\ UNCHANGED <<state, clstate, isConnection, pc, eof>>
  BY DEF ConnectReturn, Accept, countVars, ctlVars, sendVars, recvVars, threadVars,
         histVars
<1>2. \A f \in Ends : Unopened(f)' = Unopened(f)
  <2>1. app'["client"] = "opening" <=> app["client"] = "opening"
    BY DEF ConnectReturn, Accept, TypeOK, Ends
  <2>. QED  BY <1>1, <2>1 DEF Unopened
<1>3. app["client"] # "opening" => app'["client"] # "opening"
  BY DEF ConnectReturn, Accept, TypeOK, Ends
<1>4. ConnectReturn => state["client"] # "SYS_SENT" /\ app["client"] # "opening"
  BY DEF ConnectReturn
<1>5. Accept => app'["client"] = app["client"]
  BY DEF Accept, TypeOK
<1>6. Handshake'
  BY <1>1, <1>3, <1>4, <1>5 DEF StreamInv, Handshake, SynOnly
<1>7. Blank'
  BY <1>1, <1>2 DEF StreamInv, Blank, countVars
<1>8. \A f \in Ends : AckedBytes(f)' = AckedBytes(f) /\ written'[f] = written[f]
  BY <1>1 DEF countVars, AckedBytes, SentBytes
<1>9. Closing'
  BY <1>1, <1>2, <1>8 DEF StreamInv, Closing
<1>10. Cursors' /\ Flow' /\ Content'
  BY <1>1, DataKept DEF StreamInv
<1>11. Packets'
  BY <1>1, PacketsKept DEF StreamInv, FinKept
<1>. QED  BY <1>6, <1>7, <1>9, <1>10, <1>11 DEF StreamInv

\* What a SYN, and a SYN|ACK, are to the invariant of packets: nothing.
LEMMA SynOK ==
  ASSUME NEW e \in Ends, NEW p, p \in {SynSegment, SynAckSegment}
  PROVE  /\ "SYN" \in p.ctrl /\ PacketOK(e, p)'
<1>1. "SYN" \in p.ctrl /\ "FIN" \notin p.ctrl /\ p.ctrl # {"ACK"} /\ p.data = <<>>
  BY DEF SynSegment, SynAckSegment, Segment
<1>. QED  BY <1>1 DEF PacketOK

LEMMA ConnectStream ==
  ASSUME TypeOK, TypeOK', StreamInv, Connect
  PROVE  StreamInv'
<1>0. "client" \in Ends /\ "server" \in Ends /\ "client" # "server"
      /\ Peer("client") = "server" /\ Peer("server") = "client"
  BY DEF Ends, Peer
<1>1. /\ UNCHANGED <<sendFront, sendBack, ackFront, ackBack, recvFront, recvBack,
                     written, readLog, readBuffer, writeBuffer>>
      /\ UNCHANGED <<clstate, isConnection, pc, eof>>
  BY DEF Connect, threadVars, histVars
<1>2. /\ Unopened("client") /\ ackNum["client"] = Zero
      /\ state["server"] = "NONE" /\ net["client"] = <<>> /\ net["server"] = <<>>
  BY <1>0 DEF Connect, Unopened, StreamInv, Handshake, Blank
<1>3. /\ state'["client"] = "SYS_SENT" /\ state'["server"] = state["server"]
      /\ app'["client"] = "waiting" /\ app'["server"] = app["server"]
      /\ ackNum' = ackNum
  BY <1>0, <1>2 DEF Connect, TypeOK
<1>4. net'["client"] = <<>> /\ net'["server"] = <<SynSegment>>
  BY <1>0, <1>2 DEF Connect, TypeOK, SynSegment
<1>5. \A f \in Ends : Unopened(f)' = Unopened(f)
  BY <1>2, <1>3 DEF Unopened, Ends
<1>6. UNCHANGED countVars
  BY <1>1, <1>3 DEF countVars
<1>7. Handshake'
  BY <1>2, <1>3, <1>4 DEF Handshake, SynOnly
<1>8. Blank'
  <2>1. \A f \in Ends : isConnection'[f] => state'[f] = "ESTABLISHED"
    <3>1. ~isConnection["client"]
      BY <1>0 DEF Connect, StreamInv, Blank
    <3>. QED  BY <1>1, <1>3, <3>1 DEF StreamInv, Blank, Ends
  <2>. QED  BY <1>1, <1>3, <1>5, <2>1 DEF StreamInv, Blank
<1>9. \A f \in Ends : AckedBytes(f)' = AckedBytes(f) /\ written'[f] = written[f]
  BY <1>6 DEF countVars, AckedBytes, SentBytes
<1>10. Closing'
  <2>1. \A f \in Ends : state'[f] \in {"CLOSED", "FREED"} => state'[f] = state[f]
    BY <1>3 DEF Ends
  <2>. QED  BY <1>1, <1>5, <1>9, <2>1 DEF StreamInv, Closing
<1>11. Cursors' /\ Flow' /\ Content'
  BY <1>1, <1>6, DataKept DEF StreamInv
<1>12. Packets'
  <2>1. PacketOK("server", SynSegment)'
    BY <1>0, SynOK
  <2>2. \A i \in 1 .. Len(net'["client"]) : FALSE
    BY <1>4
  <2>3. \A i \in 1 .. Len(net'["server"]) : i = 1 /\ net'["server"][i] = SynSegment
    BY <1>4
  <2>4. \A i, j \in 1 .. Len(net'["server"]) : ~(i < j)
    BY <2>3
  <2>. QED  BY <2>1, <2>2, <2>3, <2>4 DEF Packets, Ends
<1>. QED  BY <1>7, <1>8, <1>10, <1>11, <1>12 DEF StreamInv

\* A SYN comes to the listener.
LEMMA ListenStream ==
  ASSUME TypeOK, TypeOK', StreamInv, NEW e \in Ends, net[e] # <<>>,
         HandleListen(e, Head(net[e]))
  PROVE  StreamInv'
<1>. DEFINE p == Head(net[e])
<1>0. "client" \in Ends /\ "server" \in Ends /\ "client" # "server"
      /\ Peer("client") = "server" /\ Peer("server") = "client" /\ e = "server"
  BY DEF Ends, Peer, HandleListen
<1>1. /\ UNCHANGED <<sendFront, sendBack, ackFront, ackBack, recvFront, recvBack,
                     written, readLog, readBuffer, writeBuffer>>
      /\ UNCHANGED <<isConnection, pc, eof, app>> /\ state["server"] = "NONE"
  BY <1>0 DEF HandleListen, threadVars, histVars
<1>2. /\ app["client"] # "opening" /\ state["client"] = "SYS_SENT"
      /\ net["server"] = <<SynSegment>> /\ net["client"] = <<>>
  BY <1>0, <1>1 DEF StreamInv, Handshake, SynOnly
<1>3. Unopened("server") /\ clstate["server"] = {} /\ ackNum["server"] = Zero
  BY <1>0, <1>1 DEF StreamInv, Blank, Unopened
<1>4. Adv(p.seq, 1) = Zero
  BY <1>0, <1>2, WordAssumption DEF SynSegment, Segment, Adv, Add, MinusOne, Zero
<1>5. clstate' = clstate /\ ackNum' = ackNum
  BY <1>0, <1>3, <1>4 DEF HandleListen, TypeOK
<1>6. state'["server"] = "SYS_RECV" /\ state'["client"] = "SYS_SENT"
  BY <1>0, <1>2 DEF HandleListen, TypeOK
<1>7. net'["client"] = <<SynAckSegment>> /\ net'["server"] = <<>>
  <2>1. Handled("server", <<SynAckSegment>>)
    BY <1>0, <1>4 DEF HandleListen, SynAckSegment
  <2>2. PICK r \in Seq(Packet) : r = <<SynAckSegment>>
    <3>1. SynAckSegment \in Packet
      BY WordClosed, SeqNoClosed DEF SynAckSegment, Segment, Packet
    <3>. QED  BY <3>1, Singleton
  <2>3. net'["server"] = Tail(net["server"]) /\ net'["client"] = net["client"] \o r
    BY <1>0, <2>1, <2>2, HandledIs
  <2>4. <<>> \o r = r
    OBVIOUS
  <2>. QED  BY <1>2, <2>2, <2>3, <2>4
<1>8. \A f \in Ends : Unopened(f)' = Unopened(f)
  BY <1>1, <1>2, <1>3, <1>6 DEF Unopened, Ends
<1>9. UNCHANGED countVars
  BY <1>1, <1>5 DEF countVars
<1>10. Handshake'
  BY <1>1, <1>2, <1>6, <1>7 DEF Handshake, SynOnly
<1>11. Blank'
  <2>1. \A f \in Ends : isConnection'[f] => state'[f] = "ESTABLISHED"
    <3>1. \A f \in Ends : ~isConnection[f]
      BY <1>1, <1>2 DEF StreamInv, Blank, Ends
    <3>. QED  BY <1>1, <3>1
  <2>. QED  BY <1>1, <1>5, <1>8, <2>1 DEF StreamInv, Blank
<1>12. \A f \in Ends : AckedBytes(f)' = AckedBytes(f) /\ written'[f] = written[f]
  BY <1>9 DEF countVars, AckedBytes, SentBytes
<1>13. Closing'
  <2>1. \A f \in Ends : state'[f] \notin {"CLOSED", "FREED"}
    BY <1>6 DEF Ends
  <2>. QED  BY <1>1, <1>5, <1>8, <1>12, <2>1 DEF StreamInv, Closing
<1>14. Cursors' /\ Flow' /\ Content'
  BY <1>1, <1>9, DataKept DEF StreamInv
<1>15. Packets'
  <2>1. PacketOK("client", SynAckSegment)'
    BY <1>0, SynOK
  <2>2. \A i \in 1 .. Len(net'["server"]) : FALSE
    BY <1>7
  <2>3. \A i \in 1 .. Len(net'["client"]) : i = 1 /\ net'["client"][i] = SynAckSegment
    BY <1>7
  <2>4. \A i, j \in 1 .. Len(net'["client"]) : ~(i < j)
    BY <2>3
  <2>. QED  BY <2>1, <2>2, <2>3, <2>4 DEF Packets, Ends
<1>. QED  BY <1>10, <1>11, <1>13, <1>14, <1>15 DEF StreamInv

\* Opening the buffers leaves the counts at 0 and gives a first window.
LEMMA OpenCounts ==
  ASSUME TypeOK, TypeOK', Blank, NEW e \in Ends, Unopened(e), OpenBuffers(e),
         UNCHANGED histVars, ackNum'[e] = Zero,
         \A f \in Ends : f # e => ackNum'[f] = ackNum[f],
         Cursors, Flow, Content
  PROVE  /\ written'[e] = 0 /\ Returned(e)' = 0 /\ SentBytes(e)' = 0
         /\ AckedBytes(e)' = 0 /\ ReceivedBytes(e)' = 0 /\ SendLimit(e)' = M - 1
         /\ ackBack'[e] = 0
         /\ written[e] = 0 /\ Returned(e) = 0 /\ SentBytes(e) = 0
         /\ AckedBytes(e) = 0 /\ ReceivedBytes(e) = 0 /\ SendLimit(e) = 0
         /\ ackBack[e] = 0
         /\ \A f \in Ends : f # e =>
              /\ written'[f] = written[f] /\ Returned(f)' = Returned(f)
              /\ SentBytes(f)' = SentBytes(f) /\ AckedBytes(f)' = AckedBytes(f)
              /\ ReceivedBytes(f)' = ReceivedBytes(f)
              /\ SendLimit(f)' = SendLimit(f) /\ ackBack'[f] = ackBack[f]
         /\ Cursors' /\ Flow' /\ Content'
<1>1. /\ written[e] = 0 /\ Returned(e) = 0 /\ SentBytes(e) = 0
      /\ AckedBytes(e) = 0 /\ ReceivedBytes(e) = 0 /\ SendLimit(e) = 0
  BY BlankCounts
<1>2. ackBack[e] = 0 /\ readLog[e] = <<>>
  BY DEF Blank
<1>3. /\ sendFront'[e] = 0 /\ sendBack'[e] = 0 /\ ackFront'[e] = M - 1
      /\ ackBack'[e] = 0 /\ recvFront'[e] = 0 /\ recvBack'[e] = 0
      /\ written'[e] = 0 /\ readLog'[e] = readLog[e]
  BY <1>1 DEF OpenBuffers, histVars, TypeOK
<1>4. \A f \in Ends : f # e =>
        /\ sendFront'[f] = sendFront[f] /\ sendBack'[f] = sendBack[f]
        /\ ackFront'[f] = ackFront[f] /\ ackBack'[f] = ackBack[f]
        /\ recvFront'[f] = recvFront[f] /\ recvBack'[f] = recvBack[f]
        /\ written'[f] = written[f] /\ readLog'[f] = readLog[f]
        /\ readBuffer'[f] = readBuffer[f] /\ writeBuffer'[f] = writeBuffer[f]
  BY DEF OpenBuffers, histVars, TypeOK
<1>5. /\ Returned(e)' = 0 /\ SentBytes(e)' = 0 /\ AckedBytes(e)' = 0
      /\ ReceivedBytes(e)' = 0 /\ SendLimit(e)' = M - 1
  <2>1. Sub(0, 0) = 0 /\ Sub(M - 1, 0) = M - 1
    BY WordAssumption DEF Sub
  <2>2. SentBytes(e)' = 0 /\ Returned(e)' = 0
    BY <1>1, <1>3, <2>1 DEF SentBytes, Returned
  <2>3. AckedBytes(e)' = 0 /\ ReceivedBytes(e)' = 0
    BY <1>3, <2>1, <2>2 DEF AckedBytes, ReceivedBytes, RecvSpace, Returned
  <2>4. SendLimit(e)' = M - 1
    BY <1>3, <2>1, <2>3, WordAssumption DEF SendLimit
  <2>. QED  BY <2>2, <2>3, <2>4
<1>6. \A f \in Ends : f # e =>
        /\ Returned(f)' = Returned(f)
        /\ SentBytes(f)' = SentBytes(f) /\ AckedBytes(f)' = AckedBytes(f)
        /\ ReceivedBytes(f)' = ReceivedBytes(f) /\ SendLimit(f)' = SendLimit(f)
  BY <1>4 DEF AckedBytes, SentBytes, ReceivedBytes, SendLimit, Returned, RecvSpace
<1>7. Cursors'
  <2>1. ASSUME NEW f \in Ends, f # e
        PROVE  /\ sendFront'[f] = At(written[f])'
               /\ sendBack'[f] = At(SentBytes(f))'
               /\ ackBack'[f] = At(AckedBytes(f))'
               /\ recvBack'[f] = At(Returned(f))'
               /\ recvFront'[f] = At(ReceivedBytes(f))'
               /\ ackNum'[f].lo = recvFront'[f]
               /\ 0 <= AckedBytes(f)' /\ written'[f] - AckedBytes(f)' <= M - 1
    BY <1>4, <1>6, <2>1 DEF Cursors
  <2>2. At(0) = 0 /\ 0 - 0 <= M - 1 /\ ackNum'[e].lo = 0
    BY AtWord, WordAssumption DEF Zero
  <2>. QED  BY <1>3, <1>5, <2>1, <2>2 DEF Cursors
<1>8. Flow'
  <2>1. /\ AckedBytes(Peer(e)) <= ReceivedBytes(e)
        /\ ReceivedBytes(e) <= SentBytes(Peer(e))
        /\ SentBytes(Peer(e)) <= SendLimit(Peer(e))
        /\ SendLimit(Peer(e)) <= Returned(e) + M - 1
        /\ AckedBytes(e) <= ReceivedBytes(Peer(e))
        /\ ReceivedBytes(Peer(e)) <= SentBytes(e)
    BY Peers DEF Flow
  <2>2. Returned(Peer(e)) \in Nat /\ M \in Nat /\ M >= 2
    BY Peers, Counts
  <2>. QED  BY <1>1, <1>5, <1>6, <2>1, <2>2, Peers DEF Flow
<1>9. Content'
  <2>1. ASSUME NEW f \in Ends, f # e
        PROVE  /\ \A k \in AckedBytes(f)' + 1 .. written'[f] :
                    writeBuffer'[f][At(k - 1)] = k
               /\ \A k \in Returned(f)' + 1 .. ReceivedBytes(f)' :
                    readBuffer'[f][At(k - 1)] = k
               /\ readLog'[f] = [i \in 1 .. Returned(f)' |-> i]
    BY <1>4, <1>6, <2>1 DEF Content
  <2>2. \A k \in 0 + 1 .. 0 : FALSE
    OBVIOUS
  <2>3. readLog'[e] = [i \in 1 .. Returned(e)' |-> i]
    BY <1>1, <1>3, <1>5 DEF Content
  <2>. QED  BY <1>3, <1>5, <2>1, <2>2, <2>3 DEF Content
<1>. QED  BY <1>1, <1>2, <1>3, <1>4, <1>5, <1>6, <1>7, <1>8, <1>9

\* The SYN|ACK comes to the client, which answers with the third segment.
LEMMA SyssentStream ==
  ASSUME TypeOK, TypeOK', StreamInv, NEW e \in Ends, net[e] # <<>>,
         HandleSyssent(e, Head(net[e]))
  PROVE  StreamInv'
<1>. DEFINE p == Head(net[e])
            third == Segment({"ACK"}, Zero, Zero, M - 1, <<>>)
<1>0. /\ "client" \in Ends /\ "server" \in Ends /\ "client" # "server"
      /\ Peer("client") = "server" /\ Peer("server") = "client" /\ e = "client"
  BY DEF Ends, Peer, HandleSyssent, StreamInv, Handshake
<1>1. /\ OpenBuffers("client") /\ state["client"] = "SYS_SENT"
      /\ UNCHANGED <<clstate, app, pc, written, readLog, eof>> /\ UNCHANGED histVars
  BY <1>0 DEF HandleSyssent, threadVars, histVars
<1>2. /\ app["client"] # "opening" /\ state["server"] = "SYS_RECV"
      /\ net["server"] = <<>> /\ net["client"] = <<SynAckSegment>>
  BY <1>0, <1>1 DEF StreamInv, Handshake, SynOnly
<1>3. Unopened("client") /\ Unopened("server")
  BY <1>1, <1>2 DEF Unopened
<1>4. Adv(p.seq, 1) = Zero
  BY <1>0, <1>2, WordAssumption DEF SynAckSegment, Segment, Adv, Add, MinusOne, Zero
<1>5. /\ ackNum'["client"] = Zero
      /\ \A f \in Ends : f # "client" => ackNum'[f] = ackNum[f]
  BY <1>0, <1>4 DEF HandleSyssent, TypeOK
<1>6. /\ state'["client"] = "ESTABLISHED" /\ state'["server"] = "SYS_RECV"
      /\ isConnection'["server"] = isConnection["server"]
  BY <1>0, <1>1, <1>2 DEF OpenBuffers, TypeOK
<1>7. net'["client"] = <<>> /\ net'["server"] = <<third>>
  <2>1. Handled("client", <<third>>)
    BY <1>0, <1>4 DEF HandleSyssent
  <2>2. PICK r \in Seq(Packet) : r = <<third>>
    <3>1. third \in Packet
      BY WordClosed, SeqNoClosed DEF Segment, Packet
    <3>. HIDE DEF third
    <3>. QED  BY <3>1, Singleton
  <2>3. net'["client"] = Tail(net["client"]) /\ net'["server"] = net["server"] \o r
    BY <1>0, <2>1, <2>2, HandledIs
  <2>4. <<>> \o r = r
    OBVIOUS
  <2>. QED  BY <1>2, <2>2, <2>3, <2>4
<1>8. /\ written'["client"] = 0 /\ Returned("client")' = 0
      /\ SentBytes("client")' = 0 /\ AckedBytes("client")' = 0
      /\ ReceivedBytes("client")' = 0 /\ SendLimit("client")' = M - 1
      /\ written'["server"] = written["server"]
      /\ Returned("server")' = Returned("server")
      /\ SentBytes("server")' = SentBytes("server")
      /\ AckedBytes("server")' = AckedBytes("server")
      /\ ReceivedBytes("server")' = ReceivedBytes("server")
      /\ SendLimit("server")' = SendLimit("server")
      /\ ackBack'["server"] = ackBack["server"]
      /\ Cursors' /\ Flow' /\ Content'
  BY <1>0, <1>1, <1>3, <1>5, OpenCounts DEF StreamInv
<1>9. /\ SendLimit("server") = 0 /\ AckedBytes("server") = 0
      /\ ackBack["server"] = 0 /\ clstate["server"] = {} /\ clstate["client"] = {}
  BY <1>0, <1>3, BlankCounts DEF StreamInv, Blank
<1>10. /\ third.ctrl = {"ACK"} /\ third.ack.lo = 0 /\ third.window = M - 1
       /\ third.data = <<>>
  BY DEF Segment, Zero
<1>. HIDE DEF third
<1>11. Handshake'
  <2>1. /\ \A i \in 1 .. Len(net'["client"]) : FALSE
        /\ \A i \in 1 .. Len(net'["server"]) : net'["server"][i] = third
    BY <1>7
  <2>2. "SYN" \notin third.ctrl
    BY <1>10
  <2>. QED  BY <1>1, <1>2, <1>6, <1>7, <1>10, <2>1, <2>2 DEF Handshake, Ends
<1>12. Blank'
  <2>1. \A f \in Ends : isConnection'[f] => state'[f] = "ESTABLISHED"
    BY <1>2, <1>6 DEF StreamInv, Blank, Ends
  <2>2. \A f \in Ends : Unopened(f)' => f = "server"
    BY <1>1, <1>2, <1>6 DEF Unopened, Ends
  <2>3. /\ clstate'["server"] = {} /\ ackNum'["server"] = Zero
        /\ sendFront'["server"] = 0 /\ sendBack'["server"] = 0
        /\ ackBack'["server"] = 0 /\ ackFront'["server"] = 0
        /\ recvFront'["server"] = 0 /\ recvBack'["server"] = 0
        /\ written'["server"] = 0 /\ readLog'["server"] = <<>> /\ ~eof'["server"]
    BY <1>0, <1>1, <1>3, <1>5 DEF StreamInv, Blank, OpenBuffers, TypeOK
  <2>. QED  BY <2>1, <2>2, <2>3 DEF Blank
<1>13. Closing'
  <2>1. \A f \in Ends : clstate'[f] = {} /\ ~eof'[f]
    BY <1>1, <1>3, <1>9 DEF StreamInv, Blank, Ends
  <2>2. \A f \in Ends : state'[f] \notin {"CLOSED", "FREED"}
    BY <1>6 DEF Ends
  <2>3. \A t \in Threads : Owner[t] \in Ends
    BY ConnAssumption
  <2>4. \A t \in Threads : pc'[t] # "cfree"
    <3>1. \A t \in Threads : clstate[Owner[t]] = {}
      BY <1>9, <2>3 DEF Ends
    <3>. QED  BY <1>1, <3>1 DEF StreamInv, Closing, CL_CLOSE
  <2>. QED  BY <2>1, <2>2, <2>3, <2>4 DEF Closing
<1>14. Packets'
  <2>1. \A i \in 1 .. Len(net'["client"]) : FALSE
    BY <1>7
  <2>2. \A i \in 1 .. Len(net'["server"]) : i = 1 /\ net'["server"][i] = third
    BY <1>7
  <2>3. AckOK("server", third)'
    <3>1. AckPos("server", third)' = 0
      <4>1. Sub(0, 0) = 0
        BY DEF Sub
      <4>. QED  BY <1>8, <1>9, <1>10, <4>1 DEF AckPos
    <3>2. AckEdge("server", third)' = M - 1
      BY <1>10, <3>1, WordAssumption DEF AckEdge
    <3>3. SendLimit("server")' = 0
      BY <1>8, <1>9
    <3>. QED  BY <1>0, <1>8, <3>1, <3>2, <3>3, WordAssumption DEF AckOK
  <2>4. PacketOK("server", third)'
    BY <1>10, <2>3 DEF PacketOK
  <2>5. \A i, j \in 1 .. Len(net'["server"]) : ~(i < j)
    BY <2>2
  <2>. QED  BY <2>1, <2>2, <2>4, <2>5 DEF Packets, Ends
<1>. QED  BY <1>8, <1>11, <1>12, <1>13, <1>14 DEF StreamInv

\* An acknowledgement opens the server's end: the third segment of the handshake,
\* or a later answer of the client if that one was lost.
LEMMA SysrecvStream ==
  ASSUME TypeOK, TypeOK', StreamInv, NEW e \in Ends, net[e] # <<>>,
         HandleSysrecv(e, Head(net[e])), state["client"] \notin {"NONE", "SYS_RECV"}
  PROVE  StreamInv'
<1>. DEFINE p == Head(net[e])
<1>0. /\ "client" \in Ends /\ "server" \in Ends /\ "client" # "server"
      /\ Peer("client") = "server" /\ Peer("server") = "client" /\ e = "server"
  BY DEF Ends, Peer, HandleSysrecv
<1>1. /\ OpenBuffers("server") /\ state["server"] = "SYS_RECV"
      /\ UNCHANGED <<ackNum, clstate, app, pc, written, readLog, eof>>
      /\ UNCHANGED histVars /\ "ACK" \in p.ctrl
  BY <1>0 DEF HandleSysrecv, threadVars, histVars
<1>2. /\ app["client"] # "opening" /\ state["client"] # "SYS_SENT"
      /\ net["client"] = <<>>
      /\ \A i \in 1 .. Len(net["server"]) : LET q == net["server"][i] IN
           /\ "SYN" \notin q.ctrl
           /\ "ACK" \in q.ctrl => q.ack.lo = 0 /\ q.window = M - 1
  BY <1>0, <1>1 DEF StreamInv, Handshake, SynOnly
<1>3. Unopened("server") /\ ~Unopened("client")
  BY <1>1, <1>2 DEF Unopened
<1>4. /\ net["server"] \in Seq(Packet) /\ p = net["server"][1] /\ p \in Packet
      /\ Len(net["server"]) \in Nat /\ Len(net["server"]) >= 1
      /\ Len(Tail(net["server"])) = Len(net["server"]) - 1
      /\ \A i \in 1 .. Len(Tail(net["server"])) :
           Tail(net["server"])[i] = net["server"][i + 1]
  <2>1. net["server"] \in Seq(Packet)
    BY <1>0 DEF TypeOK
  <2>. QED  BY <1>0, <2>1, TailIs
<1>5. ackNum["server"] = Zero /\ ackNum'["server"] = Zero /\ clstate["server"] = {}
  BY <1>0, <1>1, <1>3 DEF StreamInv, Blank
<1>6. /\ state'["server"] = "ESTABLISHED" /\ state'["client"] = state["client"]
      /\ isConnection'["client"] = isConnection["client"]
  BY <1>0, <1>1 DEF OpenBuffers, TypeOK
<1>7. PICK none \in Seq(Packet) : none = <<>>
  <2>1. <<>> \in Seq(Packet)
    OBVIOUS
  <2>. QED  BY <2>1
<1>8. /\ net'["server"] = Tail(net["server"])
      /\ net'["client"] = net["client"] \o none
      /\ net'["client"] = net["client"]
  <2>1. Handled("server", none)
    BY <1>0, <1>7 DEF HandleSysrecv
  <2>2. net'["server"] = Tail(net["server"]) /\ net'["client"] = net["client"] \o none
    BY <1>0, <2>1, HandledIs
  <2>3. <<>> \o <<>> = <<>>
    OBVIOUS
  <2>. QED  BY <1>2, <1>7, <2>2, <2>3
<1>9. /\ Returned("client")' = Returned("client")
      /\ SentBytes("client")' = SentBytes("client")
      /\ written'["client"] = written["client"]
      /\ AckedBytes("client")' = AckedBytes("client")
      /\ ReceivedBytes("client")' = ReceivedBytes("client")
      /\ SendLimit("client")' = SendLimit("client")
      /\ ackBack'["client"] = ackBack["client"]
      /\ Cursors' /\ Flow' /\ Content'
  BY <1>0, <1>1, <1>3, <1>5, OpenCounts DEF StreamInv
<1>10. /\ written'["server"] = 0 /\ Returned("server")' = 0
       /\ SentBytes("server")' = 0 /\ AckedBytes("server")' = 0
       /\ ReceivedBytes("server")' = 0 /\ SendLimit("server")' = M - 1
       /\ ackBack'["server"] = 0
  BY <1>0, <1>1, <1>3, <1>5, OpenCounts DEF StreamInv
<1>11. /\ written["server"] = 0 /\ Returned("server") = 0
       /\ SentBytes("server") = 0 /\ AckedBytes("server") = 0
       /\ ReceivedBytes("server") = 0 /\ SendLimit("server") = 0
       /\ ackBack["server"] = 0
  BY <1>0, <1>1, <1>3, <1>5, OpenCounts DEF StreamInv
<1>12. /\ p.ctrl = {"ACK"} /\ ~FinAck("server", p) /\ p.window = M - 1
       /\ AckPos("server", p) = 0 /\ AckEdge("server", p) = M - 1
  <2>1. 1 \in 1 .. Len(net["server"])
    BY <1>4
  <2>2. PacketOK("server", p) /\ "SYN" \notin p.ctrl
        /\ p.ack.lo = 0 /\ p.window = M - 1
    BY <1>0, <1>1, <1>2, <1>4, <2>1 DEF StreamInv, Packets
  <2>3. p.ctrl = {"ACK"}
    BY <1>1, <2>2 DEF PacketOK
  <2>4. Sub(0, 0) = 0
    BY DEF Sub
  <2>. QED  BY <1>5, <1>11, <2>2, <2>3, <2>4, WordAssumption DEF FinAck, AckPos, AckEdge
<1>13. Handshake'
  <2>1. ASSUME NEW i \in 1 .. Len(net'["server"])
        PROVE  "SYN" \notin net'["server"][i].ctrl
    <3>1. i + 1 \in 1 .. Len(net["server"])
      BY <1>4, <1>8
    <3>. QED  BY <1>2, <1>4, <1>8, <3>1
  <2>2. \A i \in 1 .. Len(net'["client"]) : FALSE
    BY <1>2, <1>8
  <2>. QED  BY <1>1, <1>2, <1>6, <2>1, <2>2 DEF Handshake, Ends
<1>14. Blank'
  <2>1. \A f \in Ends : isConnection'[f] => state'[f] = "ESTABLISHED"
    BY <1>6 DEF StreamInv, Blank, Ends
  <2>2. \A f \in Ends : ~Unopened(f)'
    BY <1>1, <1>2, <1>3, <1>6 DEF Unopened, Ends
  <2>. QED  BY <2>1, <2>2 DEF Blank
<1>15. Closing'
  <2>1. \A f \in Ends : state'[f] \in {"CLOSED", "FREED"} =>
                          state'[f] = state[f] /\ ~Unopened(f)
    BY <1>3, <1>6 DEF Ends
  <2>2. \A f \in Ends : f = "server" \/ (written'[f] = written[f]
                                         /\ AckedBytes(f)' = AckedBytes(f))
    BY <1>9 DEF Ends
  <2>. QED  BY <1>1, <1>5, <2>1, <2>2 DEF StreamInv, Closing
<1>16. Packets'
  <2>1. ASSUME NEW q \in Packet
        PROVE  /\ AckPos("server", q)' = AckPos("server", q)
               /\ AckEdge("server", q)' = AckEdge("server", q)
               /\ ~FinAck("server", q) /\ ~FinAck("server", q)'
               /\ DataOK("server", q) => DataOK("server", q)'
               /\ AckPos("server", q) \in Int /\ AckEdge("server", q) \in Int
    <3>1. q.ack.lo \in Word /\ q.window \in Word /\ 0 \in Word
      BY WordClosed DEF Packet, SeqNo
    <3>2. Sub(q.ack.lo, 0) \in Word
      BY <3>1, WordClosed
    <3>3. AckPos("server", q)' = AckPos("server", q) /\ AckPos("server", q) \in Int
      BY <1>10, <1>11, <3>2, WordAssumption DEF AckPos, Word
    <3>4. AckEdge("server", q)' = AckEdge("server", q) /\ AckEdge("server", q) \in Int
      BY <3>1, <3>3, WordAssumption DEF AckEdge, Word
    <3>. QED  BY <1>0, <1>1, <1>5, <1>9, <1>10, <1>11, <3>3, <3>4 DEF FinAck, DataOK
  <2>2. ASSUME NEW q \in Packet
        PROVE  /\ AckPos("client", q)' = AckPos("client", q)
               /\ AckEdge("client", q)' = AckEdge("client", q)
    BY <1>9 DEF AckPos, AckEdge
  <2>3. ASSUME NEW q \in Packet, PacketOK("server", q), InTurn("server", p, q)
        PROVE  PacketOK("server", q)'
    <3>1. ASSUME q.ctrl = {"ACK"} PROVE AckOK("server", q)'
      <4>1. AckOK("server", q) /\ M - 1 <= AckEdge("server", q)
        BY <1>12, <2>1, <2>3, <3>1 DEF PacketOK, InTurn
      <4>. QED  BY <1>0, <1>9, <1>10, <2>1, <4>1 DEF AckOK
    <3>. QED  BY <1>0, <1>1, <2>1, <2>3, <3>1 DEF PacketOK
  <2>4. ASSUME NEW q \in Packet, NEW r \in Packet, InTurn("server", q, r)
        PROVE  InTurn("server", q, r)'
    BY <2>1, <2>4 DEF InTurn
  <2>5. ASSUME NEW q \in Packet, PacketOK("client", q)
        PROVE  PacketOK("client", q)'
    <3>1. FinAck("client", q) => FinAck("client", q)'
      BY <1>1 DEF FinAck, OpenBuffers, TypeOK, Ends
    <3>2. DataOK("client", q) => DataOK("client", q)'
      BY <1>0, <1>9, <1>10, <1>11 DEF DataOK
    <3>3. AckOK("client", q) => AckOK("client", q)'
      BY <1>0, <1>9, <1>10, <1>11, <2>2 DEF AckOK
    <3>. QED  BY <1>0, <1>1, <2>5, <3>1, <3>2, <3>3 DEF PacketOK
  <2>6. ASSUME NEW q \in Packet, NEW r \in Packet, InTurn("client", q, r)
        PROVE  InTurn("client", q, r)'
    <3>1. /\ FinAck("client", q) => FinAck("client", q)'
          /\ FinAck("client", r) => FinAck("client", r)'
      BY <1>1 DEF FinAck, OpenBuffers, TypeOK, Ends
    <3>. QED  BY <2>2, <2>6, <3>1 DEF InTurn
  <2>7. net'["server"] # net["server"]
    <3>1. Tail(net["server"]) # net["server"]
      BY <1>0, <1>4, TailIs
    <3>. QED  BY <1>8, <3>1
  <2>8. \A i \in 1 .. Len(none) : FALSE
    BY <1>7
  <2>9. \A f \in Ends, q \in Packet :
          PacketOK(f, q) /\ (f = "server" /\ net'["server"] # net["server"] =>
                               InTurn("server", Head(net["server"]), q))
            => PacketOK(f, q)'
    BY <1>0, <2>3, <2>5, <2>7 DEF Ends
  <2>10. \A f \in Ends, q, r \in Packet : InTurn(f, q, r) => InTurn(f, q, r)'
    BY <2>4, <2>6 DEF Ends
  <2>. QED  BY <1>0, <1>8, <2>8, <2>9, <2>10, PacketsStep DEF StreamInv
<1>. QED  BY <1>9, <1>13, <1>14, <1>15, <1>16 DEF StreamInv

-----------------------------------------------------------------------------
(* The handler of an established socket.                                   *)

\* A word, a sequence number and a buffer to which nothing is added.
LEMMA AddNothing ==
  /\ \A x \in Word : Add(x, 0) = x
  /\ \A s \in SeqNo : Adv(s, 0) = s
  /\ \A buf \in Buffer, at \in Word : RingWrite(buf, at, <<>>) = buf
<1>1. \A x \in Word : Add(x, 0) = x
  BY WordAssumption DEF Word, Add
<1>2. \A s \in SeqNo : Adv(s, 0) = s
  BY WordAssumption DEF SeqNo, Word, Add, Adv
<1>3. ASSUME NEW buf \in Buffer, NEW at \in Word
      PROVE  RingWrite(buf, at, <<>>) = buf
  <2>1. \A k \in Word : ~(Sub(k, at) < Len(<<>>))
    BY SubBounds
  <2>2. RingWrite(buf, at, <<>>) = [k \in Word |-> buf[k]]
    BY <2>1 DEF RingWrite
  <2>. QED  BY <2>2 DEF Buffer
<1>. QED  BY <1>1, <1>2, <1>3

\* Once an end is established the handshake is over for its stream, and the oldest
\* packet on its way to it is of one of three kinds.
LEMMA Established ==
  ASSUME TypeOK, CopyInv, StreamInv,
         NEW e \in Ends, state[e] = "ESTABLISHED", net[e] # <<>>
  PROVE  /\ state["client"] # "SYS_SENT" /\ state["server"] \notin {"SYS_RECV", "NONE"}
         /\ app["client"] # "opening"
         /\ \A f \in Ends : ~Unopened(f)
         /\ Head(net[e]) \in Packet /\ PacketOK(e, Head(net[e]))
         /\ Head(net[e]).ctrl \in {{}, {"ACK"}, {"FIN"}}
<1>0. "client" \in Ends /\ "server" \in Ends
  BY DEF Ends
<1>1. /\ state["client"] # "SYS_SENT" /\ state["server"] \notin {"SYS_RECV", "NONE"}
      /\ app["client"] # "opening"
  <2>1. state["client"] # "SYS_SENT" /\ app["client"] # "opening"
    BY DEF StreamInv, Handshake, Ends
  <2>2. state["server"] # "NONE"
    BY <2>1 DEF StreamInv, Handshake
  <2>3. state["server"] # "SYS_RECV"
    BY <2>1 DEF StreamInv, Handshake, Ends
  <2>. QED  BY <2>1, <2>2, <2>3
<1>2. net[e] \in Seq(Packet)
  BY DEF TypeOK
<1>3. 1 \in 1 .. Len(net[e]) /\ Head(net[e]) = net[e][1] /\ Head(net[e]) \in Packet
  BY <1>2, TailIs
<1>4. PacketOK(e, Head(net[e])) /\ "SYN" \notin Head(net[e]).ctrl
  BY <1>1, <1>3 DEF StreamInv, Packets, Handshake
<1>5. \A f \in Ends : ~Unopened(f)
  <2>1. state["client"] \notin {"NONE", "SYS_RECV"}
    BY DEF CopyInv, Opening
  <2>2. state["server"] # "SYS_SENT"
    BY DEF StreamInv, Handshake
  <2>. QED  BY <1>1, <2>1, <2>2 DEF Unopened, Ends
<1>. QED  BY <1>1, <1>3, <1>4, <1>5 DEF PacketOK

LEMMA NoSyn ==
  ASSUME TypeOK, NEW e \in Ends, NEW more \in Seq(Packet),
         \/ net'[e] = net[e]
         \/ net[e] # <<>> /\ net'[e] = Tail(net[e]),
         net'[Peer(e)] = net[Peer(e)] \o more,
         \A f \in Ends : \A i \in 1 .. Len(net[f]) : "SYN" \notin net[f][i].ctrl,
         \A i \in 1 .. Len(more) : "SYN" \notin more[i].ctrl
  PROVE  \A f \in Ends : \A i \in 1 .. Len(net'[f]) : "SYN" \notin net'[f][i].ctrl
<1>0. /\ net[e] \in Seq(Packet) /\ net[Peer(e)] \in Seq(Packet)
      /\ \A f \in Ends : f = e \/ f = Peer(e)
  BY Peers DEF TypeOK
<1>1. ASSUME NEW i \in 1 .. Len(net'[e])
      PROVE  "SYN" \notin net'[e][i].ctrl
  <2>1. CASE net'[e] = net[e]
    BY <2>1
  <2>2. CASE net[e] # <<>> /\ net'[e] = Tail(net[e])
    <3>1. i + 1 \in 1 .. Len(net[e]) /\ net'[e][i] = net[e][i + 1]
      BY <1>0, <2>2, TailIs
    <3>. QED  BY <3>1
  <2>. QED  BY <2>1, <2>2
<1>2. ASSUME NEW i \in 1 .. Len(net'[Peer(e)])
      PROVE  "SYN" \notin net'[Peer(e)][i].ctrl
  <2>1. \/ i \in 1 .. Len(net[Peer(e)]) /\ net'[Peer(e)][i] = net[Peer(e)][i]
        \/ /\ i - Len(net[Peer(e)]) \in 1 .. Len(more)
           /\ net'[Peer(e)][i] = more[i - Len(net[Peer(e)])]
    BY <1>0
  <2>. QED  BY <2>1, Peers
<1>. QED  BY <1>0, <1>1, <1>2

\* What the handler does to the states, whatever it takes.
LEMMA EstControl ==
  ASSUME TypeOK, TypeOK', CopyInv, StreamInv, NEW e \in Ends, net[e] # <<>>,
         HandleEstablished(e, Head(net[e])),
         NEW more \in Seq(Packet), \A i \in 1 .. Len(more) : more[i].ctrl = {"ACK"},
         net'[e] = Tail(net[e]), net'[Peer(e)] = net[Peer(e)] \o more,
         UNCHANGED ackBack \/ ackBack' = [ackBack EXCEPT ![e] = sendBack[e]]
  PROVE  Handshake' /\ Blank' /\ Closing' /\ FinKept
<1>. DEFINE p == Head(net[e])
<1>0. /\ state[e] = "ESTABLISHED" /\ UNCHANGED <<sendFront, sendBack, app, pc>>
      /\ UNCHANGED <<written, readLog, eof>>
  BY DEF HandleEstablished, threadVars, histVars
<1>1. /\ state["client"] # "SYS_SENT" /\ state["server"] \notin {"SYS_RECV", "NONE"}
      /\ app["client"] # "opening" /\ \A f \in Ends : ~Unopened(f)
      /\ PacketOK(e, p) /\ p.ctrl \in {{}, {"ACK"}, {"FIN"}}
  BY <1>0, Established
<1>2. /\ clstate' = [clstate EXCEPT ![e] = ClAfterAck(e, p) \cup
                       (IF "FIN" \in p.ctrl THEN {"FIN_RECV", "ACK_SENT"} ELSE {})]
      /\ \/ /\ Closes(e, p) /\ isConnection' = [isConnection EXCEPT ![e] = FALSE]
            /\ state' = [state EXCEPT ![e] = "CLOSED"]
         \/ ~Closes(e, p) /\ UNCHANGED <<isConnection, state>>
  BY DEF HandleEstablished
<1>3. /\ \A f \in Ends : f # e => /\ state'[f] = state[f] /\ clstate'[f] = clstate[f]
                                  /\ isConnection'[f] = isConnection[f]
      /\ clstate'[e] = ClAfterAck(e, p) \cup
                       (IF "FIN" \in p.ctrl THEN {"FIN_RECV", "ACK_SENT"} ELSE {})
      /\ \/ ~isConnection'[e] /\ state'[e] = "CLOSED" /\ Closes(e, p)
         \/ isConnection'[e] = isConnection[e] /\ state'[e] = state[e]
  <2>1. CASE /\ isConnection' = [isConnection EXCEPT ![e] = FALSE]
             /\ state' = [state EXCEPT ![e] = "CLOSED"] /\ Closes(e, p)
    BY <1>2, <2>1 DEF TypeOK
  <2>2. CASE UNCHANGED <<isConnection, state>>
    BY <1>2, <2>2 DEF TypeOK
  <2>. QED  BY <1>2, <2>1, <2>2
<1>4. /\ clstate[e] \subseteq clstate'[e]
      /\ "CALL" \in clstate'[e] => "CALL" \in clstate[e]
      /\ "FIN_SENT" \in clstate'[e] => "FIN_SENT" \in clstate[e]
      /\ "FIN_RECV" \in clstate'[e] => "FIN_RECV" \in clstate[e] \/ "FIN" \in p.ctrl
      /\ Closes(e, p) => CL_CLOSE \subseteq clstate'[e]
  BY <1>3 DEF ClAfterAck, Closes
<1>5. \A f \in Ends : ~Unopened(f)'
  BY <1>0, <1>1, <1>3 DEF Unopened
<1>6. \A f \in Ends : \A i \in 1 .. Len(net'[f]) : "SYN" \notin net'[f][i].ctrl
  <2>1. \A f \in Ends : \A i \in 1 .. Len(net[f]) : "SYN" \notin net[f][i].ctrl
    BY <1>1 DEF StreamInv, Handshake
  <2>2. \A i \in 1 .. Len(more) : "SYN" \notin more[i].ctrl
    OBVIOUS
  <2>. QED  BY <2>1, <2>2, NoSyn
<1>7. Handshake'
  <2>1. "client" \in Ends /\ "server" \in Ends
    BY DEF Ends
  <2>2. /\ state'["client"] # "SYS_SENT" /\ app'["client"] # "opening"
        /\ state'["server"] \notin {"SYS_RECV", "NONE", "SYS_SENT"}
    BY <1>0, <1>1, <1>3, <2>1 DEF StreamInv, Handshake
  <2>. QED  BY <1>6, <2>2 DEF Handshake
<1>8. Blank'
  <2>1. \A f \in Ends : isConnection'[f] => state'[f] = "ESTABLISHED"
    BY <1>3 DEF StreamInv, Blank
  <2>. QED  BY <1>5, <2>1 DEF Blank
<1>9. ASSUME NEW f \in Ends, "FIN_SENT" \in clstate[f]
      PROVE  AckedBytes(f)' = AckedBytes(f) /\ AckedBytes(f) = written[f]
  <2>1. AckedBytes(f) = written[f]
    BY <1>9 DEF StreamInv, Closing
  <2>2. /\ SentBytes(f) \in Int /\ AckedBytes(f) \in Int /\ written[f] \in Int
        /\ AckedBytes(f) <= SentBytes(f) /\ SentBytes(f) <= written[f]
    BY Counts
  <2>3. SentBytes(f) = AckedBytes(f)
    BY <2>1, <2>2
  <2>4. sendBack[f] = ackBack[f]
    BY <2>3 DEF StreamInv, Cursors
  <2>5. ackBack'[f] = ackBack[f]
    BY <2>4 DEF TypeOK
  <2>. QED  BY <1>0, <2>1, <2>5 DEF AckedBytes, SentBytes
<1>10. \A f \in Ends : /\ clstate[f] \subseteq clstate'[f]
                       /\ "CALL" \in clstate'[f] => "CALL" \in clstate[f]
                       /\ "FIN_SENT" \in clstate'[f] => "FIN_SENT" \in clstate[f]
  BY <1>3, <1>4
<1>11. \A t \in Threads : Owner[t] \in Ends
  BY ConnAssumption
<1>12. ASSUME NEW f \in Ends, "FIN_RECV" \in clstate'[f]
       PROVE  "FIN_SENT" \in clstate'[Peer(f)]
  <2>1. CASE "FIN_RECV" \in clstate[f]
    BY <1>10, <2>1, Peers DEF StreamInv, Closing
  <2>2. CASE "FIN_RECV" \notin clstate[f]
    <3>1. f = e /\ "FIN" \in p.ctrl
      BY <1>3, <1>4, <1>12, <2>2
    <3>. QED  BY <1>1, <1>10, <3>1, Peers DEF PacketOK
  <2>. QED  BY <2>1, <2>2
<1>13. ASSUME NEW f \in Ends, state'[f] \in {"CLOSED", "FREED"}
       PROVE  CL_CLOSE \subseteq clstate'[f]
  <2>1. CASE state'[f] = state[f]
    <3>1. CL_CLOSE \subseteq clstate[f]
      BY <1>1, <1>13, <2>1 DEF StreamInv, Closing
    <3>. QED  BY <1>10, <3>1
  <2>2. CASE state'[f] # state[f]
    BY <1>3, <1>4, <2>2
  <2>. QED  BY <2>1, <2>2
<1>14. ASSUME NEW t \in Threads
       PROVE  /\ "CALL" \in clstate'[Owner[t]] => pc'[t] \in {"cspin", "cfree", "done"}
              /\ pc'[t] = "cfree" => CL_CLOSE \subseteq clstate'[Owner[t]]
  <2>1. pc'[t] = "cfree" => CL_CLOSE \subseteq clstate[Owner[t]]
    BY <1>0 DEF StreamInv, Closing
  <2>. QED  BY <1>0, <1>10, <1>11, <2>1 DEF StreamInv, Closing
<1>15. ASSUME NEW f \in Ends, "FIN_SENT" \in clstate'[f]
       PROVE  AckedBytes(f)' = written'[f]
  <2>1. "FIN_SENT" \in clstate[f]
    BY <1>10, <1>15
  <2>. QED  BY <1>0, <1>9, <2>1 DEF StreamInv, Closing
<1>16. ASSUME NEW f \in Ends
       PROVE  eof'[f] => "FIN_RECV" \in clstate'[f]
  BY <1>0, <1>10 DEF StreamInv, Closing
<1>17. Closing'
  BY <1>12, <1>13, <1>14, <1>15, <1>16 DEF Closing
<1>18. FinKept
  BY <1>10 DEF FinKept
<1>. QED  BY <1>7, <1>8, <1>17, <1>18

\* A packet without data leaves the read buffer as it is.
LEMMA NoData ==
  ASSUME TypeOK, NEW e \in Ends, NEW p \in Packet, HandleEstablished(e, p),
         p.data = <<>>
  PROVE  /\ ValidLen(e, p) = 0
         /\ UNCHANGED <<recvFront, recvBack, ackNum, readBuffer>>
<1>1. ValidLen(e, p) = 0
  BY ValidLenType, WordAssumption DEF Word
<1>2. SubSeq(p.data, 1, 0) = <<>>
  OBVIOUS
<1>3. /\ recvFront[e] \in Word /\ ackNum[e] \in SeqNo /\ readBuffer[e] \in Buffer
  BY DEF TypeOK
<1>4. /\ Adv(ackNum[e], 0) = ackNum[e] /\ Add(recvFront[e], 0) = recvFront[e]
      /\ RingWrite(readBuffer[e], recvFront[e], <<>>) = readBuffer[e]
  BY <1>3, AddNothing
<1>5. /\ ackNum' = [ackNum EXCEPT ![e] = ackNum[e]]
      /\ recvFront' = [recvFront EXCEPT ![e] = recvFront[e]]
      /\ readBuffer' = [readBuffer EXCEPT ![e] = readBuffer[e]]
      /\ recvBack' = recvBack
  BY <1>1, <1>2, <1>4 DEF HandleEstablished
<1>. QED  BY <1>1, <1>5 DEF TypeOK

\* An acknowledgement is taken: it answers nothing, and when it is not one that
\* counts it moves nothing.
LEMMA AckTaken ==
  ASSUME TypeOK, SeqAgrees, NEW e \in Ends, NEW p \in Packet,
         HandleEstablished(e, p), p.ctrl = {"ACK"}, p.data = <<>>
  PROVE  /\ Handled(e, <<>>)
         /\ UNCHANGED <<sendFront, sendBack, recvFront, recvBack, ackNum, written,
                        readLog, readBuffer, writeBuffer>>
         /\ \/ /\ p.ack.lo = sendBack[e]
               /\ ackBack' = [ackBack EXCEPT ![e] = sendBack[e]]
               /\ ackFront' = [ackFront EXCEPT ![e] = Add(sendBack[e], p.window)]
            \/ UNCHANGED <<ackBack, ackFront>>
<1>1. UNCHANGED <<recvFront, recvBack, ackNum, readBuffer>>
  BY NoData
<1>2. UNCHANGED <<sendFront, sendBack, writeBuffer, written, readLog>>
  BY DEF HandleEstablished, histVars
<1>3. <<>> \o <<>> = <<>>
  OBVIOUS
<1>4. Handled(e, <<>>)
  BY <1>3 DEF HandleEstablished
<1>5. CASE AckHit(e, p)
  <2>1. p.ack.lo = sendBack[e] /\ sendBack[e] \in Word /\ ackBack[e] \in Word
    BY <1>5 DEF AckHit, TypeOK
  <2>2. seqNum[e].lo = ackBack[e]
    BY DEF HandleEstablished, SeqAgrees
  <2>3. AckBackAfter(e, p) = sendBack[e]
    BY <2>1, <2>2, AddSub DEF AckBackAfter, AckDiff
  <2>. QED  BY <1>1, <1>2, <1>4, <1>5, <2>1, <2>3 DEF HandleEstablished, AckFrontAfter
<1>6. CASE ~AckHit(e, p)
  BY <1>1, <1>2, <1>4, <1>6 DEF HandleEstablished
<1>. QED  BY <1>5, <1>6

\* The counts when an acknowledgement of all that was sent is taken.
LEMMA AckCounts ==
  ASSUME TypeOK, TypeOK', Cursors, Flow, Content, NEW e \in Ends, NEW p \in Packet,
         AckOK(e, p), p.ack.lo = sendBack[e],
         UNCHANGED <<sendFront, sendBack, recvFront, recvBack, ackNum, written,
                     readLog, readBuffer, writeBuffer>>,
         ackBack' = [ackBack EXCEPT ![e] = sendBack[e]],
         ackFront' = [ackFront EXCEPT ![e] = Add(sendBack[e], p.window)]
  PROVE  /\ \A f \in Ends : /\ SentBytes(f)' = SentBytes(f)
                            /\ ReceivedBytes(f)' = ReceivedBytes(f)
                            /\ Returned(f)' = Returned(f)
         /\ \A f \in Ends : f # e => /\ AckedBytes(f)' = AckedBytes(f)
                                     /\ SendLimit(f)' = SendLimit(f)
                                     /\ ackBack'[f] = ackBack[f]
         /\ AckPos(e, p) = SentBytes(e) /\ ReceivedBytes(Peer(e)) = SentBytes(e)
         /\ AckedBytes(e)' = SentBytes(e) /\ SendLimit(e)' = AckEdge(e, p)
         /\ ackBack'[e] = sendBack[e]
         /\ Cursors' /\ Flow' /\ Content'
<1>0. /\ sendBack[e] \in Word /\ p.window \in Word /\ ackBack[e] \in Word
      /\ Peer(e) \in Ends /\ M \in Nat /\ M >= 2
  BY Peers, WordAssumption DEF TypeOK, Packet
<1>1. \A f \in Ends : /\ SentBytes(f)' = SentBytes(f)
                      /\ ReceivedBytes(f)' = ReceivedBytes(f)
                      /\ Returned(f)' = Returned(f)
  BY DEF SentBytes, ReceivedBytes, Returned, RecvSpace
<1>2. /\ ackBack'[e] = sendBack[e] /\ ackFront'[e] = Add(sendBack[e], p.window)
      /\ \A f \in Ends : f # e => ackBack'[f] = ackBack[f] /\ ackFront'[f] = ackFront[f]
  BY DEF TypeOK
<1>3. \A f \in Ends : f # e => /\ AckedBytes(f)' = AckedBytes(f)
                               /\ SendLimit(f)' = SendLimit(f)
  BY <1>1, <1>2 DEF AckedBytes, SendLimit
<1>4. /\ SentBytes(e) \in Nat /\ AckedBytes(e) \in Nat /\ written[e] \in Nat
      /\ AckedBytes(e) <= SentBytes(e) /\ SentBytes(e) <= written[e]
      /\ ReceivedBytes(Peer(e)) \in Nat /\ Returned(Peer(e)) \in Nat
      /\ Sub(sendBack[e], ackBack[e]) = SentBytes(e) - AckedBytes(e)
      /\ SendLimit(e) \in Int
  BY <1>0, Counts, Distances
<1>5. AckPos(e, p) = SentBytes(e) /\ ReceivedBytes(Peer(e)) = SentBytes(e)
  <2>1. AckPos(e, p) = SentBytes(e)
    BY <1>4 DEF AckPos
  <2>. QED  BY <1>4, <2>1 DEF AckOK, Flow
<1>6. AckedBytes(e)' = SentBytes(e)
  <2>1. Sub(sendBack[e], sendBack[e]) = 0
    BY <1>0 DEF Sub, Word
  <2>. QED  BY <1>1, <1>2, <1>4, <2>1 DEF AckedBytes
<1>7. SendLimit(e)' = AckEdge(e, p)
  <2>1. Sub(Add(sendBack[e], p.window), sendBack[e]) = p.window
    BY <1>0 DEF Sub, Add, Word
  <2>. QED  BY <1>2, <1>5, <1>6, <2>1 DEF SendLimit, AckEdge
<1>8. p.window \in Nat /\ AckEdge(e, p) = SentBytes(e) + p.window
      /\ SendLimit(e) <= AckEdge(e, p) /\ AckEdge(e, p) <= Returned(Peer(e)) + M - 1
  BY <1>0, <1>5 DEF AckEdge, AckOK, Word
<1>9. Cursors'
  <2>1. ASSUME NEW f \in Ends, f # e
        PROVE  /\ ackBack'[f] = At(AckedBytes(f))'
               /\ 0 <= AckedBytes(f)' /\ written[f] - AckedBytes(f)' <= M - 1
    BY <1>2, <1>3, <2>1 DEF Cursors
  <2>2. ackBack'[e] = At(AckedBytes(e))'
    BY <1>2, <1>6 DEF Cursors
  <2>3. 0 <= AckedBytes(e)' /\ written[e] - AckedBytes(e)' <= M - 1
    <3>1. written[e] - AckedBytes(e) <= M - 1
      BY DEF Cursors
    <3>. QED  BY <1>0, <1>4, <1>6, <3>1
  <2>. QED  BY <1>1, <2>1, <2>2, <2>3 DEF Cursors
<1>10. Flow'
  <2>1. /\ AckedBytes(e)' <= ReceivedBytes(Peer(e))
        /\ SentBytes(e) <= SendLimit(e)'
        /\ SendLimit(e)' <= Returned(Peer(e)) + M - 1
    BY <1>4, <1>5, <1>6, <1>7, <1>8
  <2>2. \A f \in Ends : f = e \/ f # e
    OBVIOUS
  <2>. QED  BY <1>1, <1>3, <2>1, <2>2, Peers DEF Flow
<1>11. Content'
  <2>1. ASSUME NEW f \in Ends, NEW k \in AckedBytes(f)' + 1 .. written[f]
        PROVE  writeBuffer[f][At(k - 1)] = k
    <3>1. k \in AckedBytes(f) + 1 .. written[f]
      <4>1. CASE f = e
        BY <1>4, <1>6, <2>1, <4>1
      <4>2. CASE f # e
        BY <1>3, <2>1, <4>2
      <4>. QED  BY <4>1, <4>2
    <3>. QED  BY <3>1 DEF Content
  <2>. QED  BY <1>1, <2>1 DEF Content
<1>. QED  BY <1>1, <1>2, <1>3, <1>5, <1>6, <1>7, <1>9, <1>10, <1>11

\* The oldest packet on its way to e, and one behind it: what the first leaves of
\* the second when the first is an acknowledgement that counts.
LEMMA AckBehind ==
  ASSUME TypeOK, TypeOK', Cursors, Flow, Content, NEW e \in Ends, NEW p \in Packet,
         AckOK(e, p), p.ctrl = {"ACK"}, p.ack.lo = sendBack[e], ~FinAck(e, p),
         UNCHANGED <<sendFront, sendBack, recvFront, recvBack, ackNum, written,
                     readLog, readBuffer, writeBuffer>>,
         ackBack' = [ackBack EXCEPT ![e] = sendBack[e]],
         ackFront' = [ackFront EXCEPT ![e] = Add(sendBack[e], p.window)],
         NEW q \in Packet, PacketOK(e, q), InTurn(e, p, q),
         q.ctrl = {"ACK"}, ~FinAck(e, q)
  PROVE  /\ AckPos(e, q)' = AckPos(e, q) /\ AckEdge(e, q)' = AckEdge(e, q)
         /\ AckOK(e, q)'
<1>0. /\ sendBack[e] \in Word /\ ackBack[e] \in Word /\ Peer(e) \in Ends
      /\ q.ack.lo \in Word /\ q.window \in Word /\ p.window \in Word
      /\ M \in Nat /\ M >= 2
  BY Peers, WordAssumption DEF TypeOK, Packet, SeqNo
<1>1. /\ AckPos(e, p) = SentBytes(e) /\ ReceivedBytes(Peer(e)) = SentBytes(e)
      /\ AckedBytes(e)' = SentBytes(e) /\ SendLimit(e)' = AckEdge(e, p)
      /\ ackBack'[e] = sendBack[e]
      /\ ReceivedBytes(Peer(e))' = ReceivedBytes(Peer(e))
      /\ Returned(Peer(e))' = Returned(Peer(e))
  BY <1>0, AckCounts
<1>2. AckOK(e, q) /\ AckPos(e, p) <= AckPos(e, q) /\ AckEdge(e, p) <= AckEdge(e, q)
  BY DEF PacketOK, InTurn
<1>3. AckedBytes(e) \in Nat /\ SentBytes(e) \in Nat
  BY Distances
<1>4. PICK d \in Word : d = Sub(q.ack.lo, ackBack[e])
  BY <1>0, WordClosed
<1>5. AckPos(e, q) = AckedBytes(e) + d /\ AckPos(e, q) \in Int
  BY <1>3, <1>4, WordAssumption DEF AckPos, Word
<1>6. AckPos(e, q) = SentBytes(e)
  BY <1>1, <1>2, <1>3, <1>5 DEF AckOK
<1>7. q.ack.lo = sendBack[e]
  <2>1. At(AckedBytes(e) + d) = q.ack.lo
    <3>1. ackBack[e] = At(AckedBytes(e))
      BY DEF Cursors
    <3>. QED  BY <1>0, <1>3, <1>4, <3>1, AtFrom
  <2>2. sendBack[e] = At(SentBytes(e))
    BY DEF Cursors
  <2>. QED  BY <1>5, <1>6, <2>1, <2>2
<1>8. AckPos(e, q)' = AckPos(e, q)
  <2>1. Sub(sendBack[e], sendBack[e]) = 0
    BY <1>0 DEF Sub, Word
  <2>. QED  BY <1>1, <1>3, <1>6, <1>7, <2>1 DEF AckPos
<1>9. AckEdge(e, q)' = AckEdge(e, q)
  BY <1>8 DEF AckEdge
<1>10. AckOK(e, q)'
  BY <1>1, <1>2, <1>8, <1>9 DEF AckOK
<1>. QED  BY <1>8, <1>9, <1>10

\* An acknowledgement that counts is not the answer to the FIN.
LEMMA AckIsNew ==
  ASSUME TypeOK, Cursors, Closing, NEW e \in Ends, NEW p \in Packet, PacketOK(e, p),
         p.ctrl = {"ACK"}, p.ack.lo = sendBack[e]
  PROVE  ~FinAck(e, p) /\ AckOK(e, p)
<1>1. ASSUME "FIN_SENT" \in clstate[e] PROVE sendBack[e] = sendFront[e]
  <2>1. AckedBytes(e) = written[e]
    BY <1>1 DEF Closing
  <2>2. SentBytes(e) = written[e]
    BY <2>1, Counts
  <2>. QED  BY <2>2 DEF Cursors
<1>2. Add(sendFront[e], 1) # sendFront[e]
  <2>1. \A x \in Word : Add(x, 1) # x
    BY WordAssumption DEF Add, Word
  <2>. QED  BY <2>1 DEF TypeOK
<1>3. ~FinAck(e, p)
  BY <1>1, <1>2 DEF FinAck
<1>. QED  BY <1>3 DEF PacketOK

LEMMA AckStream ==
  ASSUME TypeOK, TypeOK', CopyInv, StreamInv, NEW e \in Ends, net[e] # <<>>,
         HandleEstablished(e, Head(net[e])), Head(net[e]).ctrl = {"ACK"}
  PROVE  StreamInv'
<1>. DEFINE p == Head(net[e])
<1>0. state[e] = "ESTABLISHED" /\ p \in Packet /\ PacketOK(e, p) /\ Peer(e) \in Ends
  BY Established, Peers DEF HandleEstablished
<1>1. p.data = <<>>
  BY <1>0 DEF PacketOK
<1>2. PICK none \in Seq(Packet) : none = <<>>
  <2>1. <<>> \in Seq(Packet)
    OBVIOUS
  <2>. QED  BY <2>1
<1>3. /\ Handled(e, none)
      /\ UNCHANGED <<sendFront, sendBack, recvFront, recvBack, ackNum, written,
                     readLog, readBuffer, writeBuffer>>
      /\ \/ /\ p.ack.lo = sendBack[e]
            /\ ackBack' = [ackBack EXCEPT ![e] = sendBack[e]]
            /\ ackFront' = [ackFront EXCEPT ![e] = Add(sendBack[e], p.window)]
         \/ UNCHANGED <<ackBack, ackFront>>
  BY <1>0, <1>1, <1>2, AckTaken DEF CopyInv
<1>4. /\ net'[e] = Tail(net[e]) /\ net'[Peer(e)] = net[Peer(e)] \o none
      /\ net' = [net EXCEPT ![e] = Tail(@)]
  BY <1>2, <1>3, HandledIs
<1>5. Handshake' /\ Blank' /\ Closing' /\ FinKept
  <2>1. \A i \in 1 .. Len(none) : none[i].ctrl = {"ACK"}
    BY <1>2
  <2>2. UNCHANGED ackBack \/ ackBack' = [ackBack EXCEPT ![e] = sendBack[e]]
    BY <1>3
  <2>. QED  BY <1>4, <2>1, <2>2, EstControl
<1>6. CASE UNCHANGED <<ackBack, ackFront>>
  <2>1. UNCHANGED countVars /\ UNCHANGED <<readBuffer, writeBuffer>>
    BY <1>3, <1>6 DEF countVars
  <2>2. Cursors' /\ Flow' /\ Content'
    BY <2>1, DataKept DEF StreamInv
  <2>3. Packets'
    BY <1>4, <1>5, <2>1, PacketsDropped DEF StreamInv
  <2>. QED  BY <1>5, <2>2, <2>3 DEF StreamInv
<1>7. CASE /\ p.ack.lo = sendBack[e]
           /\ ackBack' = [ackBack EXCEPT ![e] = sendBack[e]]
           /\ ackFront' = [ackFront EXCEPT ![e] = Add(sendBack[e], p.window)]
  <2>0. Cursors /\ Flow /\ Content /\ Closing /\ Packets
    BY DEF StreamInv
  <2>1. ~FinAck(e, p) /\ AckOK(e, p)
    BY <1>0, <1>7, <2>0, AckIsNew
  <2>2. /\ \A f \in Ends : /\ SentBytes(f)' = SentBytes(f)
                           /\ ReceivedBytes(f)' = ReceivedBytes(f)
                           /\ Returned(f)' = Returned(f)
        /\ \A f \in Ends : f # e => /\ AckedBytes(f)' = AckedBytes(f)
                                    /\ SendLimit(f)' = SendLimit(f)
                                    /\ ackBack'[f] = ackBack[f]
        /\ Cursors' /\ Flow' /\ Content'
    BY <1>0, <1>3, <1>7, <2>0, <2>1, AckCounts
  <2>3. ASSUME NEW f \in Ends
        PROVE  /\ "FIN_SENT" \in clstate'[f] <=> "FIN_SENT" \in clstate[f]
               /\ sendFront'[f] = sendFront[f]
    BY <1>3 DEF HandleEstablished, ClAfterAck, TypeOK
  <2>4. \A f \in Ends, q \in Packet : FinAck(f, q)' <=> FinAck(f, q)
    BY <2>3 DEF FinAck
  <2>5. \A f \in Ends, q \in Packet : DataOK(f, q) => DataOK(f, q)'
    BY <2>2, Peers DEF DataOK
  <2>6. ASSUME NEW q \in Packet, PacketOK(e, q), InTurn(e, p, q),
               q.ctrl = {"ACK"}, ~FinAck(e, q)
        PROVE  /\ AckPos(e, q)' = AckPos(e, q) /\ AckEdge(e, q)' = AckEdge(e, q)
               /\ AckOK(e, q)'
    BY <1>0, <1>3, <1>7, <2>0, <2>1, <2>6, AckBehind
  <2>7. ASSUME NEW f \in Ends, f # e, NEW q \in Packet
        PROVE  /\ AckPos(f, q)' = AckPos(f, q) /\ AckEdge(f, q)' = AckEdge(f, q)
               /\ AckOK(f, q) => AckOK(f, q)'
    <3>1. AckPos(f, q)' = AckPos(f, q) /\ AckEdge(f, q)' = AckEdge(f, q)
      BY <2>2, <2>7 DEF AckPos, AckEdge
    <3>. QED  BY <2>2, <2>7, <3>1, Peers DEF AckOK
  <2>8. net'[e] # net[e]
    BY <1>4, TailIs DEF TypeOK
  <2>9. ASSUME NEW f \in Ends, NEW q \in Packet, PacketOK(f, q),
               f = e => InTurn(e, p, q)
        PROVE  PacketOK(f, q)'
    <3>1. q.ctrl = {"ACK"} => FinAck(f, q)' \/ AckOK(f, q)'
      BY <2>4, <2>6, <2>7, <2>9 DEF PacketOK
    <3>2. "FIN" \in q.ctrl => "FIN_SENT" \in clstate'[Peer(f)]
      BY <2>3, <2>9, Peers DEF PacketOK
    <3>. QED  BY <2>5, <2>9, <3>1, <3>2 DEF PacketOK
  <2>10. ASSUME NEW f \in Ends, NEW q \in Packet, NEW r \in Packet,
                PacketOK(f, q), PacketOK(f, r), InTurn(f, q, r),
                f = e => InTurn(e, p, q) /\ InTurn(e, p, r)
         PROVE  InTurn(f, q, r)'
    <3>1. ASSUME q.ctrl = {"ACK"}, r.ctrl = {"ACK"}, ~FinAck(f, q), ~FinAck(f, r)
          PROVE  /\ AckPos(f, q)' = AckPos(f, q) /\ AckEdge(f, q)' = AckEdge(f, q)
                 /\ AckPos(f, r)' = AckPos(f, r) /\ AckEdge(f, r)' = AckEdge(f, r)
      BY <2>6, <2>7, <2>10, <3>1
    <3>. QED  BY <2>4, <2>10, <3>1 DEF InTurn
  <2>11. \A i \in 1 .. Len(none) : FALSE
    BY <1>2
  <2>12. \A f \in Ends, q \in Packet :
           PacketOK(f, q) /\ (f = e /\ net'[e] # net[e] => InTurn(e, Head(net[e]), q))
             => PacketOK(f, q)'
    BY <2>8, <2>9
  <2>13. \A f \in Ends, q, r \in Packet :
           /\ PacketOK(f, q) /\ PacketOK(f, r) /\ InTurn(f, q, r)
           /\ f = e /\ net'[e] # net[e] => /\ InTurn(e, Head(net[e]), q)
                                           /\ InTurn(e, Head(net[e]), r)
           => InTurn(f, q, r)'
    BY <2>8, <2>10
  <2>14. Packets'
    BY <1>4, <2>0, <2>11, <2>12, <2>13, PacketsStep
  <2>. QED  BY <1>5, <2>2, <2>14 DEF StreamInv
<1>. QED  BY <1>3, <1>6, <1>7

\* A FIN is taken: it is answered, and no byte moves.
LEMMA FinTaken ==
  ASSUME TypeOK, NEW e \in Ends, NEW p \in Packet,
         HandleEstablished(e, p), p.ctrl = {"FIN"}, p.data = <<>>
  PROVE  /\ Handled(e, <<Segment({"ACK"}, seqNum[e], Adv(ackNum[e], 1), Window(e),
                                 <<>>)>>)
         /\ UNCHANGED countVars /\ UNCHANGED <<readBuffer, writeBuffer>>
         /\ "FIN_SENT" \in clstate'[Peer(e)] <=> "FIN_SENT" \in clstate[Peer(e)]
<1>1. UNCHANGED <<recvFront, recvBack, ackNum, readBuffer>>
  BY NoData
<1>2. "ACK" \notin p.ctrl /\ "FIN" \in p.ctrl /\ ~AckHit(e, p) /\ p.ctrl # {}
  BY DEF AckHit
<1>3. UNCHANGED <<sendFront, sendBack, ackFront, ackBack, writeBuffer, written,
                  readLog>>
  BY <1>2 DEF HandleEstablished, histVars
<1>. DEFINE reply == Segment({"ACK"}, seqNum[e], Adv(ackNum[e], 1), Window(e), <<>>)
<1>4. <<reply>> \o <<>> = <<reply>>
  OBVIOUS
<1>5. Handled(e, <<reply>> \o <<>>)
  <2>. HIDE DEF reply
  <2>1. Handled(e, (IF "FIN" \in p.ctrl THEN <<reply>> ELSE <<>>) \o
             (IF \/ p.data # <<>> /\ InOrder(e, p)
                 \/ /\ ~(p.data # <<>> /\ InOrder(e, p))
                    /\ p.ctrl = {} /\ InOrder(e, p)
              THEN <<Segment({"ACK"}, seqNum[e], Adv(ackNum[e], ValidLen(e, p)),
                             Space(recvBack[e], Add(recvFront[e], ValidLen(e, p))),
                             <<>>)>> ELSE <<>>))
    BY <1>2 DEF HandleEstablished, reply
  <2>. QED  BY <1>2, <2>1
<1>6. "FIN_SENT" \in clstate'[Peer(e)] <=> "FIN_SENT" \in clstate[Peer(e)]
  BY Peers DEF HandleEstablished, TypeOK
<1>. QED  BY <1>1, <1>3, <1>4, <1>5, <1>6 DEF countVars

LEMMA FinStream ==
  ASSUME TypeOK, TypeOK', CopyInv, StreamInv, NEW e \in Ends, net[e] # <<>>,
         HandleEstablished(e, Head(net[e])), Head(net[e]).ctrl = {"FIN"}
  PROVE  StreamInv'
<1>. DEFINE p == Head(net[e])  f == Peer(e)
            ack == Segment({"ACK"}, seqNum[e], Adv(ackNum[e], 1), Window(e), <<>>)
<1>0. /\ state[e] = "ESTABLISHED" /\ p \in Packet /\ PacketOK(e, p)
      /\ f \in Ends /\ Peer(f) = e /\ f # e
  BY Established, Peers DEF HandleEstablished
<1>1. p.data = <<>> /\ "FIN_SENT" \in clstate[f]
  BY <1>0 DEF PacketOK
<1>2. /\ Handled(e, <<ack>>)
      /\ UNCHANGED countVars /\ UNCHANGED <<readBuffer, writeBuffer>>
      /\ "FIN_SENT" \in clstate'[f]
  BY <1>0, <1>1, FinTaken
<1>3. PICK reply \in Packet : /\ reply = ack /\ reply.ctrl = {"ACK"}
                              /\ reply.data = <<>>
                              /\ reply.ack.lo = Add(ackNum[e].lo, 1)
  <2>1. ackNum[e] \in SeqNo /\ seqNum[e] \in SeqNo
        /\ recvFront[e] \in Word /\ recvBack[e] \in Word
    BY DEF TypeOK
  <2>2. Window(e) \in Word /\ Adv(ackNum[e], 1) \in SeqNo
    BY <2>1, WordClosed, SeqNoClosed DEF Window
  <2>3. /\ ack \in Packet /\ ack.ctrl = {"ACK"} /\ ack.data = <<>>
        /\ ack.ack.lo = Add(ackNum[e].lo, 1)
    BY <2>1, <2>2 DEF Segment, Packet, Adv
  <2>. HIDE DEF ack
  <2>. QED  BY <2>3
<1>. HIDE DEF ack
<1>4. PICK more \in Seq(Packet) : more = <<reply>>
  BY Singleton
<1>5. net'[e] = Tail(net[e]) /\ net'[f] = net[f] \o more
  BY <1>2, <1>3, <1>4, HandledIs
<1>6. \A i \in 1 .. Len(more) : i = 1 /\ more[i] = reply
  BY <1>4
<1>7. Handshake' /\ Blank' /\ Closing' /\ FinKept
  <2>1. \A i \in 1 .. Len(more) : more[i].ctrl = {"ACK"}
    BY <1>3, <1>6
  <2>2. UNCHANGED ackBack
    BY <1>2 DEF countVars
  <2>. QED  BY <1>5, <2>1, <2>2, EstControl
<1>8. Cursors' /\ Flow' /\ Content'
  BY <1>2, DataKept DEF StreamInv
<1>9. FinAck(f, reply)'
  <2>1. AckedBytes(f) = written[f]
    BY <1>0, <1>1 DEF StreamInv, Closing
  <2>2. AckedBytes(f) <= ReceivedBytes(e) /\ ReceivedBytes(e) <= SentBytes(f)
    BY <1>0 DEF StreamInv, Flow
  <2>3. /\ SentBytes(f) <= written[f] /\ SentBytes(f) \in Int /\ written[f] \in Int
        /\ ReceivedBytes(e) \in Int
    BY <1>0, Counts
  <2>4. ReceivedBytes(e) = written[f]
    BY <2>1, <2>2, <2>3
  <2>5. ackNum[e].lo = sendFront[f]
    BY <1>0, <2>4 DEF StreamInv, Cursors
  <2>. QED  BY <1>2, <1>3, <2>5 DEF FinAck, countVars
<1>10. PacketOK(f, reply)'
  BY <1>3, <1>9 DEF PacketOK
<1>11. Packets'
  <2>1. \A g \in Ends, q \in Packet : PacketOK(g, q) => PacketOK(g, q)'
    BY <1>2, <1>7, PacketKept DEF FinKept
  <2>2. \A g \in Ends, q, r \in Packet : InTurn(g, q, r) => InTurn(g, q, r)'
    BY <1>2, <1>7, PacketKept DEF FinKept
  <2>3. \A q \in Packet : InTurn(f, q, reply)'
    BY <1>3, <1>9 DEF InTurn
  <2>4. \A i \in 1 .. Len(more) :
          /\ PacketOK(f, more[i])'
          /\ \A q \in Packet : PacketOK(f, q) => InTurn(f, q, more[i])'
          /\ \A j \in 1 .. Len(more) : i < j => InTurn(f, more[i], more[j])'
    BY <1>3, <1>6, <1>10, <2>3
  <2>. QED  BY <1>5, <2>1, <2>2, <2>4, PacketsStep DEF StreamInv
<1>. QED  BY <1>7, <1>8, <1>11 DEF StreamInv

\* Data in order is new data, and there is room for it.
LEMMA DataFits ==
  ASSUME TypeOK, Cursors, Flow, NEW e \in Ends, NEW p \in Packet, PacketOK(e, p),
         p.data # <<>>, InOrder(e, p)
  PROVE  /\ Before(p) = ReceivedBytes(e) /\ Len(p.data) \in Word
         /\ Len(p.data) <= Window(e) /\ ValidLen(e, p) = Len(p.data)
         /\ End(p) = ReceivedBytes(e) + Len(p.data)
         /\ End(p) <= SentBytes(Peer(e))
<1>0. Peer(e) \in Ends /\ Peer(Peer(e)) = e /\ M \in Nat
  BY Peers, WordAssumption
<1>1. DataOK(e, p) /\ Len(p.data) \in Nat
  BY DEF PacketOK, Packet
<1>2. /\ Before(p) \in Nat /\ Len(p.data) < M /\ p.seq.lo = At(Before(p))
      /\ Before(p) <= ReceivedBytes(e) /\ ReceivedBytes(e) <= Before(p) + Len(p.data)
      /\ Before(p) + Len(p.data) <= SentBytes(Peer(e))
      /\ End(p) = Before(p) + Len(p.data)
  BY <1>1 DEF DataOK, End
<1>3. At(Before(p)) = At(ReceivedBytes(e))
  BY <1>2 DEF InOrder, Cursors
<1>4. ReceivedBytes(e) \in Nat /\ Returned(e) \in Nat
  BY Counts
<1>5. Before(p) = ReceivedBytes(e)
  <2>1. ReceivedBytes(e) - Before(p) < M
    BY <1>0, <1>1, <1>2, <1>4
  <2>. QED  BY <1>2, <1>3, <1>4, <2>1, AtSub
<1>6. /\ SentBytes(Peer(e)) \in Int /\ SendLimit(Peer(e)) \in Int
      /\ SentBytes(Peer(e)) <= SendLimit(Peer(e))
      /\ SendLimit(Peer(e)) <= Returned(e) + M - 1
  BY <1>0, Counts DEF Flow
<1>7. Window(e) = M - 1 - (ReceivedBytes(e) - Returned(e))
  BY Distances
<1>8. Len(p.data) <= Window(e)
  BY <1>0, <1>1, <1>2, <1>4, <1>5, <1>6, <1>7
<1>9. Len(p.data) \in Word
  BY <1>0, <1>1, <1>2 DEF Word
<1>10. ValidLen(e, p) = Len(p.data)
  BY <1>8 DEF ValidLen, Min2
<1>. QED  BY <1>2, <1>5, <1>8, <1>9, <1>10

\* What a packet without control bits does: n bytes of data are taken, all that
\* it brings or none, and it may be answered with an acknowledgement.
LEMMA DataTaken ==
  ASSUME TypeOK, Cursors, Flow, NEW e \in Ends, NEW p \in Packet, PacketOK(e, p),
         HandleEstablished(e, p), p.ctrl = {}
  PROVE  \E data \in Seq(Byte), more \in Seq(Packet) :
           /\ \/ data = <<>>
              \/ data = p.data /\ p.data # <<>> /\ Before(p) = ReceivedBytes(e)
           /\ Len(data) \in Word /\ Len(data) <= Window(e)
           /\ recvFront' = [recvFront EXCEPT ![e] = Add(@, Len(data))]
           /\ ackNum' = [ackNum EXCEPT ![e] = Adv(@, Len(data))]
           /\ readBuffer' = [readBuffer EXCEPT ![e] =
                               RingWrite(@, recvFront[e], data)]
           /\ UNCHANGED <<sendFront, sendBack, ackFront, ackBack, writeBuffer,
                          recvBack, written, readLog, clstate>>
           /\ Handled(e, more)
           /\ \/ more = <<>>
              \/ more = <<Segment({"ACK"}, seqNum[e], Adv(ackNum[e], Len(data)),
                                  Space(recvBack[e], Add(recvFront[e], Len(data))),
                                  <<>>)>>
<1>. DEFINE n == ValidLen(e, p)
            ack == Segment({"ACK"}, seqNum[e], Adv(ackNum[e], n),
                           Space(recvBack[e], Add(recvFront[e], n)), <<>>)
            answers == \/ p.data # <<>> /\ InOrder(e, p)
                       \/ /\ ~(p.data # <<>> /\ InOrder(e, p))
                          /\ p.ctrl = {} /\ InOrder(e, p)
<1>1. "ACK" \notin p.ctrl /\ "FIN" \notin p.ctrl /\ ~AckHit(e, p) /\ ~Closes(e, p)
  BY DEF AckHit, Closes
<1>2. p.data \in Seq(Byte) /\ Len(p.data) \in Nat
  BY DEF Packet
<1>3. PICK data \in Seq(Byte) :
        /\ data = SubSeq(p.data, 1, n) /\ Len(data) = n
        /\ \/ data = <<>>
           \/ data = p.data /\ p.data # <<>> /\ Before(p) = ReceivedBytes(e)
  <2>1. CASE p.data # <<>> /\ InOrder(e, p)
    <3>1. n = Len(p.data) /\ Before(p) = ReceivedBytes(e)
      BY <2>1, DataFits
    <3>. HIDE DEF n
    <3>2. SubSeq(p.data, 1, n) = p.data
      BY <1>2, <3>1
    <3>. QED  BY <1>2, <2>1, <3>1, <3>2
  <2>2. CASE ~(p.data # <<>> /\ InOrder(e, p))
    <3>1. n = 0
      <4>1. CASE ~InOrder(e, p)
        BY <4>1 DEF ValidLen
      <4>2. CASE p.data = <<>>
        BY <4>2, NoData
      <4>. QED  BY <2>2, <4>1, <4>2
    <3>. HIDE DEF n
    <3>2. SubSeq(p.data, 1, n) = <<>> /\ <<>> \in Seq(Byte) /\ Len(<<>>) = 0
      BY <1>2, <3>1
    <3>. QED  BY <3>1, <3>2
  <2>. QED  BY <2>1, <2>2
<1>4. n \in Word /\ n <= Window(e)
  BY ValidLenType
<1>5. /\ recvFront' = [recvFront EXCEPT ![e] = Add(@, n)]
      /\ ackNum' = [ackNum EXCEPT ![e] = Adv(@, n)]
      /\ readBuffer' = [readBuffer EXCEPT ![e] = RingWrite(@, recvFront[e], data)]
      /\ UNCHANGED <<sendFront, sendBack, ackFront, ackBack, writeBuffer,
                     recvBack, written, readLog>>
  BY <1>1, <1>3 DEF HandleEstablished, histVars
<1>6. clstate' = clstate
  <2>1. clstate' = [clstate EXCEPT ![e] = ClAfterAck(e, p) \cup {}]
    BY <1>1 DEF HandleEstablished
  <2>2. ClAfterAck(e, p) \cup {} = clstate[e]
    BY <1>1 DEF ClAfterAck
  <2>. QED  BY <2>1, <2>2 DEF TypeOK
<1>7. Handled(e, <<>> \o (IF answers THEN <<ack>> ELSE <<>>))
  <2>. HIDE DEF answers
  <2>1. Handled(e, (IF "FIN" \in p.ctrl
                    THEN <<Segment({"ACK"}, seqNum[e], Adv(ackNum[e], 1), Window(e),
                                   <<>>)>> ELSE <<>>)
                   \o (IF answers THEN <<ack>> ELSE <<>>))
    BY <1>1 DEF HandleEstablished, answers
  <2>. QED  BY <1>1, <2>1
<1>8. ack \in Packet
  <2>1. ackNum[e] \in SeqNo /\ seqNum[e] \in SeqNo
        /\ recvFront[e] \in Word /\ recvBack[e] \in Word
    BY DEF TypeOK
  <2>2. /\ Space(recvBack[e], Add(recvFront[e], n)) \in Word
        /\ Adv(ackNum[e], n) \in SeqNo
    BY <1>4, <2>1, WordClosed, SeqNoClosed
  <2>. QED  BY <2>1, <2>2 DEF Segment, Packet
<1>9. PICK more \in Seq(Packet) : Handled(e, more) /\ (more = <<>> \/ more = <<ack>>)
  <2>. HIDE DEF ack, answers
  <2>1. <<>> \in Seq(Packet) /\ <<ack>> \in Seq(Packet)
    BY <1>8, Singleton
  <2>2. <<>> \o <<>> = <<>> /\ <<>> \o <<ack>> = <<ack>>
    OBVIOUS
  <2>. QED  BY <1>7, <2>1, <2>2
<1>10. /\ Len(data) \in Word /\ Len(data) <= Window(e)
       /\ recvFront' = [recvFront EXCEPT ![e] = Add(@, Len(data))]
       /\ ackNum' = [ackNum EXCEPT ![e] = Adv(@, Len(data))]
       /\ more = <<>> \/
          more = <<Segment({"ACK"}, seqNum[e], Adv(ackNum[e], Len(data)),
                           Space(recvBack[e], Add(recvFront[e], Len(data))), <<>>)>>
  <2>. HIDE DEF n
  <2>. QED  BY <1>3, <1>4, <1>5, <1>9
<1>. HIDE DEF n
<1>. QED  BY <1>3, <1>5, <1>6, <1>9, <1>10

LEMMA DataCounts ==
  ASSUME TypeOK, TypeOK', Cursors, Flow, Content, NEW e \in Ends, NEW p \in Packet,
         PacketOK(e, p), NEW data \in Seq(Byte),
         \/ data = <<>>
         \/ data = p.data /\ p.data # <<>> /\ Before(p) = ReceivedBytes(e),
         Len(data) \in Word, Len(data) <= Window(e),
         recvFront' = [recvFront EXCEPT ![e] = Add(@, Len(data))],
         ackNum' = [ackNum EXCEPT ![e] = Adv(@, Len(data))],
         readBuffer' = [readBuffer EXCEPT ![e] = RingWrite(@, recvFront[e], data)],
         UNCHANGED <<sendFront, sendBack, ackFront, ackBack, writeBuffer, recvBack,
                     written, readLog>>
  PROVE  /\ \A f \in Ends : /\ SentBytes(f)' = SentBytes(f)
                            /\ AckedBytes(f)' = AckedBytes(f)
                            /\ SendLimit(f)' = SendLimit(f)
                            /\ Returned(f)' = Returned(f)
                            /\ f # e => ReceivedBytes(f)' = ReceivedBytes(f)
         /\ ReceivedBytes(e)' = ReceivedBytes(e) + Len(data)
         /\ data # <<>> => p.data # <<>> /\ ReceivedBytes(e)' = End(p)
         /\ ReceivedBytes(e)' <= SentBytes(Peer(e))
         /\ Cursors' /\ Flow' /\ Content'
<1>0. /\ recvFront[e] \in Word /\ recvBack[e] \in Word /\ ackNum[e] \in SeqNo
      /\ readBuffer[e] \in Buffer /\ Peer(e) \in Ends /\ Peer(Peer(e)) = e
      /\ Peer(e) # e /\ M \in Nat /\ M >= 2 /\ Len(data) \in Nat
  BY Peers, WordAssumption DEF TypeOK, Word
<1>1. /\ recvFront'[e] = Add(recvFront[e], Len(data))
      /\ ackNum'[e] = Adv(ackNum[e], Len(data))
      /\ readBuffer'[e] = RingWrite(readBuffer[e], recvFront[e], data)
      /\ \A f \in Ends : f # e => /\ recvFront'[f] = recvFront[f]
                                  /\ ackNum'[f] = ackNum[f]
                                  /\ readBuffer'[f] = readBuffer[f]
  BY DEF TypeOK
<1>2. \A f \in Ends : /\ SentBytes(f)' = SentBytes(f)
                      /\ AckedBytes(f)' = AckedBytes(f)
                      /\ SendLimit(f)' = SendLimit(f)
                      /\ Returned(f)' = Returned(f)
                      /\ f # e => ReceivedBytes(f)' = ReceivedBytes(f)
  BY <1>1 DEF SentBytes, AckedBytes, SendLimit, Returned, ReceivedBytes, RecvSpace
<1>3. /\ ReceivedBytes(e) \in Nat /\ Returned(e) \in Nat
      /\ Returned(e) <= ReceivedBytes(e)
      /\ Window(e) = M - 1 - (ReceivedBytes(e) - Returned(e))
      /\ recvFront[e] = At(ReceivedBytes(e)) /\ ackNum[e].lo = recvFront[e]
      /\ recvBack[e] = At(Returned(e))
  BY Counts, Distances DEF Cursors
<1>4. PICK r \in Nat : r = ReceivedBytes(e) + Len(data)
  BY <1>0, <1>3
<1>5. recvFront'[e] = At(r) /\ ackNum'[e].lo = At(r)
  <2>1. Add(At(ReceivedBytes(e)), Len(data)) = At(ReceivedBytes(e) + Len(data))
    BY <1>3, AtAdd
  <2>. QED  BY <1>1, <1>3, <1>4, <2>1 DEF Adv
<1>6. r - Returned(e) <= M - 1 /\ Returned(e) <= r /\ ReceivedBytes(e) <= r
  BY <1>0, <1>3, <1>4
<1>7. ReceivedBytes(e)' = r
  <2>1. r - Returned(e) < M
    BY <1>0, <1>3, <1>6
  <2>2. Sub(At(r), At(Returned(e))) = r - Returned(e)
    BY <1>3, <1>6, <2>1, AtSub
  <2>3. Sub(recvFront'[e], recvBack'[e]) = r - Returned(e)
    BY <1>3, <1>5, <2>2
  <2>. QED  BY <1>2, <1>3, <2>3 DEF ReceivedBytes, RecvSpace, Returned
<1>8. data # <<>> => /\ p.data # <<>> /\ r = End(p)
                     /\ Before(p) = ReceivedBytes(e) /\ data = p.data
                     /\ data = [i \in 1 .. Len(data) |-> ReceivedBytes(e) + i]
                     /\ r <= SentBytes(Peer(e))
  BY <1>4 DEF PacketOK, DataOK, End
<1>9. data = <<>> => r = ReceivedBytes(e)
  BY <1>3, <1>4
<1>10. r <= SentBytes(Peer(e))
  <2>1. ReceivedBytes(e) <= SentBytes(Peer(e))
    BY <1>0 DEF Flow
  <2>. QED  BY <1>8, <1>9, <2>1
<1>11. Cursors'
  <2>1. ASSUME NEW f \in Ends, f # e
        PROVE  recvFront'[f] = At(ReceivedBytes(f))' /\ ackNum'[f].lo = recvFront'[f]
    BY <1>1, <1>2, <2>1 DEF Cursors
  <2>2. recvFront'[e] = At(ReceivedBytes(e))' /\ ackNum'[e].lo = recvFront'[e]
    BY <1>5, <1>7
  <2>. QED  BY <1>2, <2>1, <2>2 DEF Cursors
<1>12. Flow'
  <2>1. AckedBytes(Peer(e)) <= r
    <3>1. AckedBytes(Peer(e)) <= ReceivedBytes(e) /\ AckedBytes(Peer(e)) \in Int
      BY <1>0, Counts DEF Flow
    <3>. QED  BY <1>3, <1>6, <3>1
  <2>2. ASSUME NEW f \in Ends
        PROVE  /\ AckedBytes(f) <= ReceivedBytes(Peer(f))'
               /\ ReceivedBytes(Peer(f))' <= SentBytes(f)
    <3>1. CASE Peer(f) = e
      <4>1. f = Peer(e)
        BY <3>1, Peers
      <4>. QED  BY <1>0, <1>7, <1>10, <2>1, <4>1
    <3>2. CASE Peer(f) # e
      BY <1>2, <3>2, Peers DEF Flow
    <3>. QED  BY <3>1, <3>2
  <2>. QED  BY <1>2, <2>2, Peers DEF Flow
<1>13. Content'
  <2>1. ASSUME NEW k \in Returned(e) + 1 .. r
        PROVE  readBuffer'[e][At(k - 1)] = k
    <3>1. k - 1 \in Nat /\ k \in Nat
      BY <1>3, <2>1
    <3>2. PICK j \in Nat : j = k - 1
      BY <3>1
    <3>3. readBuffer'[e] = RingWrite(readBuffer[e], At(ReceivedBytes(e)), data)
      BY <1>1, <1>3
    <3>4. Len(data) < M
      BY <1>0 DEF Word
    <3>5. /\ ReceivedBytes(e) <= j /\ j < ReceivedBytes(e) + Len(data) =>
               readBuffer'[e][At(j)] = data[j - ReceivedBytes(e) + 1]
          /\ j < ReceivedBytes(e) /\ ReceivedBytes(e) + Len(data) - j <= M =>
               readBuffer'[e][At(j)] = readBuffer[e][At(j)]
      <4>. DEFINE w == RingWrite(readBuffer[e], At(ReceivedBytes(e)), data)
      <4>1. /\ ReceivedBytes(e) <= j /\ j < ReceivedBytes(e) + Len(data) =>
                 w[At(j)] = data[j - ReceivedBytes(e) + 1]
            /\ j < ReceivedBytes(e) /\ ReceivedBytes(e) + Len(data) - j <= M =>
                 w[At(j)] = readBuffer[e][At(j)]
        <5>1. readBuffer[e] \in Buffer /\ ReceivedBytes(e) \in Nat /\ j \in Nat
          BY <1>0, <1>3
        <5>. QED  BY <3>4, <5>1, StoredAt
      <4>. HIDE DEF w
      <4>2. readBuffer'[e] = w
        BY <3>3 DEF w
      <4>. QED  BY <4>1, <4>2
    <3>6. CASE ReceivedBytes(e) <= j
      <4>1. j < ReceivedBytes(e) + Len(data)
        BY <1>3, <1>4, <2>1, <3>2
      <4>2. /\ data # <<>> /\ j - ReceivedBytes(e) + 1 \in 1 .. Len(data)
            /\ ReceivedBytes(e) + (j - ReceivedBytes(e) + 1) = k
        BY <1>0, <1>3, <1>4, <3>1, <3>2, <3>6, <4>1
      <4>3. data[j - ReceivedBytes(e) + 1] = k
        BY <1>8, <4>2
      <4>. QED  BY <3>2, <3>5, <3>6, <4>1, <4>3
    <3>7. CASE j < ReceivedBytes(e)
      <4>1. ReceivedBytes(e) + Len(data) - j <= M
        BY <1>0, <1>3, <1>4, <1>6, <2>1, <3>2
      <4>2. readBuffer[e][At(k - 1)] = k
        <5>1. k \in Returned(e) + 1 .. ReceivedBytes(e)
          BY <1>3, <2>1, <3>1, <3>2, <3>7
        <5>. QED  BY <5>1 DEF Content
      <4>. QED  BY <3>2, <3>5, <3>7, <4>1, <4>2
    <3>. QED  BY <1>3, <3>2, <3>6, <3>7
  <2>2. ASSUME NEW f \in Ends, f # e,
               NEW k \in Returned(f)' + 1 .. ReceivedBytes(f)'
        PROVE  readBuffer'[f][At(k - 1)] = k
    BY <1>1, <1>2, <2>2 DEF Content
  <2>. QED  BY <1>2, <1>7, <2>1, <2>2 DEF Content
<1>. QED  BY <1>2, <1>4, <1>7, <1>8, <1>10, <1>11, <1>12, <1>13

LEMMA DataStream ==
  ASSUME TypeOK, TypeOK', CopyInv, StreamInv, NEW e \in Ends, net[e] # <<>>,
         HandleEstablished(e, Head(net[e])), Head(net[e]).ctrl = {}
  PROVE  StreamInv'
<1>. DEFINE f == Peer(e)
<1>0. /\ f \in Ends /\ f # e /\ Peer(f) = e /\ Peer(e) = f
      /\ \A g \in Ends : g = e \/ g = f
      /\ Cursors /\ Flow /\ Content /\ Packets /\ Closing
  BY Peers DEF StreamInv
<1>. HIDE DEF f
<1>1. PICK p \in Packet : p = Head(net[e]) /\ PacketOK(e, p) /\ p.ctrl = {}
                          /\ HandleEstablished(e, p)
  <2>1. state[e] = "ESTABLISHED"
    BY DEF HandleEstablished
  <2>. QED  BY <2>1, Established
<1>2. PICK data \in Seq(Byte), more \in Seq(Packet) :
        /\ \/ data = <<>>
           \/ data = p.data /\ p.data # <<>> /\ Before(p) = ReceivedBytes(e)
        /\ Len(data) \in Word /\ Len(data) <= Window(e)
        /\ recvFront' = [recvFront EXCEPT ![e] = Add(@, Len(data))]
        /\ ackNum' = [ackNum EXCEPT ![e] = Adv(@, Len(data))]
        /\ readBuffer' = [readBuffer EXCEPT ![e] = RingWrite(@, recvFront[e], data)]
        /\ UNCHANGED <<sendFront, sendBack, ackFront, ackBack, writeBuffer, recvBack,
                       written, readLog, clstate>>
        /\ Handled(e, more)
        /\ \/ more = <<>>
           \/ more = <<Segment({"ACK"}, seqNum[e], Adv(ackNum[e], Len(data)),
                               Space(recvBack[e], Add(recvFront[e], Len(data))),
                               <<>>)>>
  BY <1>0, <1>1, DataTaken
<1>3. /\ \A g \in Ends : /\ SentBytes(g)' = SentBytes(g)
                         /\ AckedBytes(g)' = AckedBytes(g)
                         /\ SendLimit(g)' = SendLimit(g)
                         /\ Returned(g)' = Returned(g)
                         /\ g # e => ReceivedBytes(g)' = ReceivedBytes(g)
      /\ ReceivedBytes(e)' = ReceivedBytes(e) + Len(data)
      /\ data # <<>> => p.data # <<>> /\ ReceivedBytes(e)' = End(p)
      /\ ReceivedBytes(e)' <= SentBytes(Peer(e))
      /\ Cursors' /\ Flow' /\ Content'
  BY <1>0, <1>1, <1>2, DataCounts
<1>4. /\ ReceivedBytes(e) \in Nat /\ Returned(e) \in Nat /\ Len(data) \in Nat
      /\ M \in Nat /\ M >= 2 /\ Returned(e) <= ReceivedBytes(e)
      /\ SentBytes(f) \in Nat /\ AckedBytes(f) \in Nat /\ written[f] \in Nat
      /\ SentBytes(f) <= written[f] /\ written[f] - AckedBytes(f) <= M - 1
      /\ AckedBytes(f) <= ReceivedBytes(e) /\ SendLimit(f) \in Int
      /\ SendLimit(f) <= Returned(e) + M - 1
      /\ Window(e) = M - 1 - (ReceivedBytes(e) - Returned(e))
  BY <1>0, Counts, Distances DEF Flow, Cursors
<1>5. PICK r \in Nat : r = ReceivedBytes(e) + Len(data)
  BY <1>4
<1>6. /\ ReceivedBytes(e)' = r /\ r <= SentBytes(f) /\ ReceivedBytes(e) <= r
      /\ r - Returned(e) <= M - 1 /\ Returned(e) <= r
      /\ AckedBytes(f) <= r /\ r - AckedBytes(f) <= M - 1
      /\ data # <<>> => p.data # <<>> /\ r = End(p)
      /\ data = <<>> => r = ReceivedBytes(e)
  <2>1. ReceivedBytes(e)' = r /\ r <= SentBytes(f) /\ ReceivedBytes(e) <= r
    BY <1>0, <1>3, <1>4, <1>5
  <2>2. r - Returned(e) <= M - 1 /\ Returned(e) <= r
    BY <1>2, <1>4, <1>5
  <2>3. AckedBytes(f) <= r /\ r - AckedBytes(f) <= M - 1
    BY <1>4, <2>1
  <2>4. data # <<>> => p.data # <<>> /\ r = End(p)
    BY <1>3, <2>1
  <2>. QED  BY <1>4, <1>5, <2>1, <2>2, <2>3, <2>4
<1>7. ASSUME NEW i \in 1 .. Len(more)
      PROVE  /\ i = 1 /\ more[i] \in Packet /\ more[i].ctrl = {"ACK"}
             /\ more[i].data = <<>> /\ more[i].ack.lo = At(r)
             /\ more[i].window = M - 1 - (r - Returned(e))
  <2>1. /\ i = 1 /\ more[i].ctrl = {"ACK"} /\ more[i].data = <<>>
        /\ more[i].ack = Adv(ackNum[e], Len(data))
        /\ more[i].window = Space(recvBack[e], Add(recvFront[e], Len(data)))
    BY <1>2, <1>7 DEF Segment
  <2>2. /\ recvFront[e] = At(ReceivedBytes(e)) /\ ackNum[e].lo = recvFront[e]
        /\ recvBack[e] = At(Returned(e))
    BY <1>0 DEF Cursors
  <2>3. Add(At(ReceivedBytes(e)), Len(data)) = At(r)
    BY <1>2, <1>4, <1>5, AtAdd
  <2>4. Space(At(Returned(e)), At(r)) = M - 1 - (r - Returned(e))
    <3>1. r - Returned(e) < M
      BY <1>4, <1>6
    <3>2. Sub(At(r), At(Returned(e))) = r - Returned(e)
      BY <1>4, <1>6, <3>1, AtSub
    <3>3. At(r) \in Word /\ At(Returned(e)) \in Word
      BY <1>4, AtWord
    <3>. QED  BY <3>2, <3>3, SpaceIs
  <2>. QED  BY <2>1, <2>2, <2>3, <2>4 DEF Adv
<1>8. net'[e] = Tail(net[e]) /\ net'[f] = net[f] \o more
  BY <1>0, <1>2, HandledIs
<1>9. Handshake' /\ Blank' /\ Closing' /\ FinKept
  <2>1. UNCHANGED ackBack
    BY <1>2
  <2>. QED  BY <1>0, <1>7, <1>8, <2>1, EstControl
<1>10. ASSUME NEW g \in Ends, NEW q \in Packet
       PROVE  /\ AckPos(g, q)' = AckPos(g, q) /\ AckEdge(g, q)' = AckEdge(g, q)
              /\ FinAck(g, q)' <=> FinAck(g, q)
              /\ AckOK(g, q) => AckOK(g, q)'
  <2>1. /\ AckPos(g, q)' = AckPos(g, q) /\ AckEdge(g, q)' = AckEdge(g, q)
        /\ FinAck(g, q)' <=> FinAck(g, q)
    BY <1>2, <1>3 DEF AckPos, AckEdge, FinAck
  <2>2. ASSUME AckOK(g, q) PROVE AckPos(g, q) <= ReceivedBytes(Peer(g))'
    <3>1. CASE g = f
      <4>1. AckedBytes(f) \in Int /\ q.ack.lo \in Word /\ ackBack[f] \in Word
        BY <1>0, <1>4 DEF Packet, SeqNo, TypeOK
      <4>2. AckPos(f, q) \in Int
        BY <4>1, SubBounds DEF AckPos
      <4>. QED  BY <1>0, <1>4, <1>6, <2>2, <3>1, <4>2 DEF AckOK
    <3>2. CASE g = e
      BY <1>0, <1>3, <2>2, <3>2 DEF AckOK
    <3>. QED  BY <1>0, <3>1, <3>2
  <2>. QED  BY <1>3, <2>1, <2>2, Peers DEF AckOK
<1>11. ASSUME NEW q \in Packet, DataOK(f, q)
       PROVE  DataOK(f, q)'
  BY <1>0, <1>3, <1>11 DEF DataOK
<1>12. ASSUME NEW q \in Packet, q.data # <<>>, DataOK(e, q), InTurn(e, p, q)
       PROVE  DataOK(e, q)'
  <2>1. /\ Before(q) \in Nat /\ Len(q.data) \in Nat
        /\ Before(q) <= ReceivedBytes(e) /\ ReceivedBytes(e) <= End(q)
    BY <1>12 DEF DataOK, Packet
  <2>2. Before(q) <= r
    BY <1>4, <1>6, <2>1
  <2>3. r <= End(q)
    BY <1>6, <1>12, <2>1 DEF InTurn
  <2>. QED  BY <1>0, <1>3, <1>6, <1>12, <2>2, <2>3 DEF DataOK
<1>13. ASSUME NEW g \in Ends, NEW q \in Packet, PacketOK(g, q),
              g = e => InTurn(e, p, q)
       PROVE  PacketOK(g, q)'
  <2>1. q.data # <<>> => DataOK(g, q)'
    BY <1>0, <1>11, <1>12, <1>13 DEF PacketOK
  <2>2. clstate' = clstate
    BY <1>2
  <2>. QED  BY <1>10, <1>13, <2>1, <2>2 DEF PacketOK
<1>14. ASSUME NEW g \in Ends, NEW q \in Packet, NEW s \in Packet, InTurn(g, q, s)
       PROVE  InTurn(g, q, s)'
  BY <1>10, <1>14 DEF InTurn
<1>15. ASSUME NEW a \in Packet, a.ctrl = {"ACK"}, a.data = <<>>, a.ack.lo = At(r),
              a.window = M - 1 - (r - Returned(e))
       PROVE  /\ PacketOK(f, a)'
              /\ \A q \in Packet : PacketOK(f, q) => InTurn(f, q, a)'
  <2>1. AckPos(f, a)' = r /\ AckEdge(f, a)' = Returned(e) + M - 1
    <3>1. AckPos(f, a) = r
      <4>1. Sub(At(r), At(AckedBytes(f))) = r - AckedBytes(f)
        <5>1. r - AckedBytes(f) < M
          BY <1>4, <1>6
        <5>. QED  BY <1>4, <1>6, <5>1, AtSub
      <4>2. ackBack[f] = At(AckedBytes(f))
        BY <1>0 DEF Cursors
      <4>. QED  BY <1>4, <1>15, <4>1, <4>2 DEF AckPos
    <3>2. AckEdge(f, a) = Returned(e) + M - 1
      BY <1>4, <1>15, <3>1 DEF AckEdge
    <3>. QED  BY <1>0, <1>10, <1>15, <3>1, <3>2
  <2>2. AckOK(f, a)'
    <3>1. /\ SendLimit(f)' <= Returned(e) + M - 1
          /\ ReceivedBytes(e)' = r /\ Returned(e)' = Returned(e)
      BY <1>0, <1>3, <1>4, <1>6
    <3>2. /\ r <= r /\ Returned(e) + M - 1 <= Returned(e) + M - 1
      BY <1>4
    <3>. QED  BY <1>0, <2>1, <3>1, <3>2 DEF AckOK
  <2>3. PacketOK(f, a)'
    BY <1>15, <2>2 DEF PacketOK
  <2>4. ASSUME NEW q \in Packet, PacketOK(f, q), q.ctrl = {"ACK"}, ~FinAck(f, q)'
        PROVE  AckPos(f, q)' <= r /\ AckEdge(f, q)' <= Returned(e) + M - 1
    <3>1. AckOK(f, q)'
      BY <1>0, <1>10, <2>4 DEF PacketOK
    <3>. QED  BY <1>0, <1>3, <1>6, <3>1 DEF AckOK
  <2>5. ASSUME NEW q \in Packet, PacketOK(f, q)
        PROVE  InTurn(f, q, a)'
    BY <1>15, <2>1, <2>4, <2>5 DEF InTurn
  <2>. QED  BY <2>3, <2>5
<1>16. Packets'
  <2>1. net[e] # <<>> /\ net'[e] = Tail(net[e]) /\ net'[e] # net[e]
    BY <1>8, TailIs DEF TypeOK
  <2>2. \A g \in Ends, q \in Packet :
          PacketOK(g, q) /\ (g = e /\ net'[e] # net[e] => InTurn(e, Head(net[e]), q))
            => PacketOK(g, q)'
    BY <1>1, <1>13, <2>1
  <2>3. \A i \in 1 .. Len(more) :
          /\ PacketOK(f, more[i])'
          /\ \A q \in Packet : PacketOK(f, q) => InTurn(f, q, more[i])'
          /\ \A j \in 1 .. Len(more) : i < j => InTurn(f, more[i], more[j])'
    <3>1. ASSUME NEW i \in 1 .. Len(more), NEW j \in 1 .. Len(more), i < j
          PROVE  FALSE
      BY <1>7, <3>1
    <3>. QED  BY <1>7, <1>15, <3>1
  <2>4. \A g \in Ends, q, s \in Packet :
          /\ PacketOK(g, q) /\ PacketOK(g, s) /\ InTurn(g, q, s)
          /\ g = e /\ net'[e] # net[e] => /\ InTurn(e, Head(net[e]), q)
                                          /\ InTurn(e, Head(net[e]), s)
          => InTurn(g, q, s)'
    BY <1>14
  <2>5. Packets /\ net'[Peer(e)] = net[Peer(e)] \o more
    BY <1>0, <1>8
  <2>. QED  BY <2>1, <2>2, <2>3, <2>4, <2>5, PacketsStep DEF f
<1>. QED  BY <1>3, <1>9, <1>16 DEF StreamInv

-----------------------------------------------------------------------------
(* asyncSendTCPPacket.                                                     *)

\* What is new in a packet has been written, and the peer has room for it.
LEMMA NewLenFits ==
  ASSUME TypeOK, Cursors, NEW e \in Ends
  PROVE  /\ NewLen(e) \in Word /\ SentBytes(e) + NewLen(e) <= written[e]
         /\ SentBytes(e) <= SendLimit(e) => SentBytes(e) + NewLen(e) <= SendLimit(e)
<1>1. /\ NewLen(e) \in Word /\ NewLen(e) <= Sub(sendFront[e], sendBack[e])
      /\ NewLen(e) > 0 => sendBack[e] = ackBack[e]
  BY NewLenType
<1>2. /\ SentBytes(e) \in Nat /\ AckedBytes(e) \in Nat /\ SendLimit(e) \in Nat
      /\ written[e] \in Nat
      /\ Sub(sendFront[e], sendBack[e]) = written[e] - SentBytes(e)
      /\ Sub(sendBack[e], ackBack[e]) = SentBytes(e) - AckedBytes(e)
      /\ Sub(ackFront[e], ackBack[e]) = SendLimit(e) - AckedBytes(e)
  BY Distances, Counts
<1>3. NewLen(e) \in Nat
  BY <1>1, WordAssumption DEF Word
<1>4. SentBytes(e) + NewLen(e) <= written[e]
  BY <1>1, <1>2, <1>3
<1>5. ASSUME SentBytes(e) <= SendLimit(e)
      PROVE  SentBytes(e) + NewLen(e) <= SendLimit(e)
  <2>1. CASE NewLen(e) = 0
    BY <1>2, <1>5, <2>1
  <2>2. CASE NewLen(e) > 0
    <3>1. sendBack[e] = ackBack[e] /\ Sub(ackFront[e], sendBack[e]) \in Int
          /\ Sub(sendFront[e], sendBack[e]) \in Int /\ MSS \in Int
      <4>1. /\ sendBack[e] \in Word /\ ackFront[e] \in Word
            /\ sendFront[e] \in Word
        BY DEF TypeOK
      <4>2. MSS \in Int
        BY ConnAssumption, WordAssumption DEF Word
      <4>. QED  BY <1>1, <2>2, <4>1, <4>2, SubBounds
    <3>2. NewLen(e) <= Sub(ackFront[e], sendBack[e])
      BY <2>2, <3>1 DEF NewLen, Min2
    <3>3. Sub(sendBack[e], sendBack[e]) = 0
      BY WordAssumption DEF Sub, TypeOK, Word
    <3>4. SentBytes(e) = AckedBytes(e)
      BY <1>2, <3>1, <3>3
    <3>. QED  BY <1>2, <1>3, <3>1, <3>2, <3>4
  <2>. QED  BY <1>3, <2>1, <2>2
<1>. QED  BY <1>1, <1>4, <1>5

\* Sending moves only the count of what is sent.
LEMMA SendCounts ==
  ASSUME TypeOK, TypeOK', Cursors, Flow, Content, NEW e \in Ends,
         sendBack' = [sendBack EXCEPT ![e] = Add(@, NewLen(e))],
         UNCHANGED <<sendFront, ackFront, ackBack, writeBuffer, recvFront, recvBack,
                     ackNum, readBuffer, written, readLog>>
  PROVE  /\ \A f \in Ends : /\ AckedBytes(f)' = AckedBytes(f)
                            /\ SendLimit(f)' = SendLimit(f)
                            /\ ReceivedBytes(f)' = ReceivedBytes(f)
                            /\ Returned(f)' = Returned(f)
                            /\ f # e => SentBytes(f)' = SentBytes(f)
         /\ SentBytes(e)' = SentBytes(e) + NewLen(e)
         /\ SentBytes(e)' \in Nat /\ SentBytes(e) <= SentBytes(e)'
         /\ SentBytes(e)' <= written[e] /\ sendBack'[e] = At(SentBytes(e)')
         /\ Cursors' /\ Flow' /\ Content'
<1>0. M \in Nat /\ M >= 2
  BY WordAssumption
<1>1. /\ sendBack'[e] = Add(sendBack[e], NewLen(e))
      /\ \A f \in Ends : f # e => sendBack'[f] = sendBack[f]
  BY DEF TypeOK
<1>2. /\ SentBytes(e) \in Nat /\ AckedBytes(e) \in Nat /\ SendLimit(e) \in Nat
      /\ written[e] \in Nat /\ AckedBytes(e) <= SentBytes(e)
      /\ written[e] - AckedBytes(e) <= M - 1
      /\ sendFront[e] = At(written[e]) /\ sendBack[e] = At(SentBytes(e))
      /\ ackBack[e] = At(AckedBytes(e))
      /\ Sub(ackFront[e], ackBack[e]) = SendLimit(e) - AckedBytes(e)
  BY Distances, Counts DEF Cursors
<1>3. /\ NewLen(e) \in Word /\ NewLen(e) \in Nat
      /\ SentBytes(e) + NewLen(e) <= written[e]
      /\ SentBytes(e) + NewLen(e) <= SendLimit(e)
  BY NewLenFits, WordAssumption DEF Flow, Word
<1>4. PICK s \in Nat : s = SentBytes(e) + NewLen(e)
  BY <1>2, <1>3
<1>5. sendBack'[e] = At(s)
  BY <1>1, <1>2, <1>3, <1>4, AtAdd
<1>6. SentBytes(e)' = s
  <2>1. written[e] - s < M /\ s <= written[e]
    BY <1>0, <1>2, <1>3, <1>4
  <2>2. Sub(At(written[e]), At(s)) = written[e] - s
    BY <1>2, <1>4, <2>1, AtSub
  <2>. QED  BY <1>2, <1>4, <1>5, <2>2 DEF SentBytes
<1>7. AckedBytes(e)' = AckedBytes(e)
  <2>1. s - AckedBytes(e) < M /\ AckedBytes(e) <= s
    BY <1>0, <1>2, <1>3, <1>4
  <2>2. Sub(At(s), At(AckedBytes(e))) = s - AckedBytes(e)
    BY <1>2, <1>4, <2>1, AtSub
  <2>3. Sub(sendBack'[e], ackBack'[e]) = s - AckedBytes(e)
    BY <1>2, <1>5, <2>2
  <2>. QED  BY <1>2, <1>4, <1>6, <2>3 DEF AckedBytes
<1>8. \A f \in Ends : /\ ReceivedBytes(f)' = ReceivedBytes(f)
                      /\ Returned(f)' = Returned(f)
                      /\ f # e => /\ SentBytes(f)' = SentBytes(f)
                                  /\ AckedBytes(f)' = AckedBytes(f)
                                  /\ SendLimit(f)' = SendLimit(f)
  BY <1>1 DEF ReceivedBytes, Returned, RecvSpace, SentBytes, AckedBytes, SendLimit
<1>9. SendLimit(e)' = SendLimit(e)
  BY <1>7 DEF SendLimit
<1>10. \A f \in Ends : /\ AckedBytes(f)' = AckedBytes(f)
                       /\ SendLimit(f)' = SendLimit(f)
  BY <1>7, <1>8, <1>9
<1>11. Cursors'
  <2>1. \A f \in Ends : sendBack'[f] = At(SentBytes(f))'
    <3>1. \A f \in Ends : f # e => sendBack'[f] = At(SentBytes(f))'
      BY <1>1, <1>8 DEF Cursors
    <3>. QED  BY <1>5, <1>6, <3>1
  <2>. QED  BY <1>8, <1>10, <2>1 DEF Cursors
<1>12. Flow'
  <2>1. /\ ReceivedBytes(Peer(e)) <= SentBytes(e)' /\ SentBytes(e)' <= SendLimit(e)
    <3>1. ReceivedBytes(Peer(e)) <= SentBytes(e) /\ ReceivedBytes(Peer(e)) \in Nat
      BY Peers, Counts DEF Flow
    <3>. QED  BY <1>2, <1>3, <1>4, <1>6, <3>1
  <2>. QED  BY <1>8, <1>10, <2>1, Peers DEF Flow
<1>13. Content'
  BY <1>8, <1>10 DEF Content
<1>14. s \in Nat /\ SentBytes(e) <= s /\ s <= written[e]
  BY <1>2, <1>3, <1>4
<1>. QED  BY <1>4, <1>5, <1>6, <1>8, <1>10, <1>11, <1>12, <1>13, <1>14

\* What a data segment carries: all bytes from the oldest that is not acknowledged
\* to the last of the new ones.
LEMMA SegmentIs ==
  ASSUME TypeOK, TypeOK', SeqAgrees, Cursors, Flow, Content, NEW e \in Ends,
         state[e] = "ESTABLISHED",
         sendBack' = [sendBack EXCEPT ![e] = Add(@, NewLen(e))],
         UNCHANGED <<sendFront, ackFront, ackBack, writeBuffer, recvFront, recvBack,
                     ackNum, readBuffer, written, readLog>>
  PROVE  /\ DataSegment(e) \in Packet /\ DataSegment(e).ctrl = {}
         /\ DataSegment(e).seq.lo = At(AckedBytes(e))
         /\ Len(DataSegment(e).data) = SentBytes(e)' - AckedBytes(e)
         /\ DataSegment(e).data = [i \in 1 .. SentBytes(e)' - AckedBytes(e) |->
                                     AckedBytes(e) + i]
<1>0. M \in Nat /\ M >= 2
  BY WordAssumption
<1>1. /\ SentBytes(e) + NewLen(e) = SentBytes(e)' /\ SentBytes(e)' \in Nat
      /\ SentBytes(e) <= SentBytes(e)' /\ SentBytes(e)' <= written[e]
      /\ sendBack'[e] = At(SentBytes(e)') /\ sendBack'[e] = Add(sendBack[e], NewLen(e))
  BY SendCounts DEF TypeOK
<1>2. /\ SentBytes(e) \in Nat /\ AckedBytes(e) \in Nat /\ written[e] \in Nat
      /\ AckedBytes(e) <= SentBytes(e) /\ written[e] - AckedBytes(e) <= M - 1
      /\ ackBack[e] = At(AckedBytes(e)) /\ seqNum[e].lo = ackBack[e]
  BY Distances, Counts DEF Cursors, SeqAgrees
<1>3. PICK s \in Nat, a \in Nat : s = SentBytes(e)' /\ a = AckedBytes(e)
  BY <1>1, <1>2
<1>4. a <= s /\ s <= written[e] /\ s - a <= M - 1 /\ s - a \in Word /\ s - a \in Nat
  BY <1>0, <1>1, <1>2, <1>3 DEF Word
<1>5. Sub(Add(sendBack[e], NewLen(e)), ackBack[e]) = s - a
  <2>1. s - a < M
    BY <1>0, <1>4
  <2>2. Sub(At(s), At(a)) = s - a
    BY <1>3, <1>4, <2>1, AtSub
  <2>. QED  BY <1>1, <1>2, <1>3, <2>2
<1>. DEFINE d == RingRead(writeBuffer[e], ackBack[e], s - a)
<1>6. \A i \in 1 .. s - a : writeBuffer[e][At(a + i - 1)] = a + i
  <2>. SUFFICES ASSUME NEW i \in 1 .. s - a
                PROVE  writeBuffer[e][At(a + i - 1)] = a + i
    OBVIOUS
  <2>1. a + i \in a + 1 .. written[e] /\ a + i - 1 = (a + i) - 1
    BY <1>2, <1>4
  <2>. QED  BY <1>3, <2>1 DEF Content
<1>7. \A i \in 1 .. s - a : Add(ackBack[e], i - 1) = At(a + i - 1)
  BY <1>2, <1>3, <1>4, ReadAt
<1>8. d = [i \in 1 .. s - a |-> a + i]
  BY <1>6, <1>7 DEF RingRead
<1>9. d \in Seq(Byte) /\ Len(d) = s - a
  BY <1>4, RingClosed DEF TypeOK
<1>10. DataSegment(e) = Segment({}, seqNum[e], ackNum[e], M - 1, d)
  BY <1>5 DEF DataSegment
<1>. HIDE DEF d
<1>11. /\ DataSegment(e).ctrl = {} /\ DataSegment(e).seq = seqNum[e]
       /\ DataSegment(e).data = d
  BY <1>10 DEF Segment
<1>12. DataSegment(e) \in Packet
  <2>1. seqNum[e] \in SeqNo /\ ackNum[e] \in SeqNo /\ M - 1 \in Word
    BY WordClosed DEF TypeOK
  <2>. QED  BY <1>9, <1>10, <2>1 DEF Segment, Packet
<1>. QED  BY <1>2, <1>3, <1>8, <1>9, <1>11, <1>12

\* An end that sends its FIN has all it has written acknowledged.
LEMMA FinControl ==
  ASSUME TypeOK, StreamInv, NEW e \in Ends, NEW expired, SendsFin(e, expired)
  PROVE  AckedBytes(e) = written[e]
<1>1. sendBack[e] = ackBack[e] /\ sendFront[e] = sendBack[e] /\ sendFront[e] \in Word
  BY DEF SendsFin, Unacked, TypeOK
<1>2. Sub(sendFront[e], sendFront[e]) = 0
  BY <1>1, WordAssumption DEF Sub, Word
<1>3. /\ 0 = written[e] - SentBytes(e) /\ 0 = SentBytes(e) - AckedBytes(e)
  BY <1>1, <1>2, Distances DEF StreamInv
<1>. QED  BY <1>3, Counts

\* What sending does to the states and to the handshake.
LEMMA SendControl ==
  ASSUME TypeOK, TypeOK', CopyInv, StreamInv, NEW e \in Ends,
         NEW expired, isConnection[e], NEW more \in Seq(Packet),
         \A i \in 1 .. Len(more) : "SYN" \notin more[i].ctrl /\ "ACK" \notin more[i].ctrl,
         net'[e] = net[e], net'[Peer(e)] = net[Peer(e)] \o more,
         clstate' = [clstate EXCEPT ![e] =
                       IF SendsFin(e, expired) THEN @ \cup {"FIN_SENT"} ELSE @],
         \A f \in Ends : AckedBytes(f)' = AckedBytes(f),
         sendBack' = [sendBack EXCEPT ![e] = Add(@, NewLen(e))],
         UNCHANGED <<state, isConnection, app, pc, written, eof, readLog, sendFront,
                     ackFront, ackBack, recvFront, recvBack, ackNum>>
  PROVE  Handshake' /\ Blank' /\ Closing' /\ FinKept
<1>0. "client" \in Ends /\ "server" \in Ends
  BY DEF Ends
<1>1. state[e] = "ESTABLISHED"
  BY DEF StreamInv, Blank
<1>2. /\ state["client"] # "SYS_SENT" /\ app["client"] # "opening"
      /\ state["server"] # "NONE"
  <2>1. state["client"] # "SYS_SENT" /\ app["client"] # "opening"
    BY <1>1 DEF StreamInv, Handshake, Ends
  <2>. QED  BY <2>1 DEF StreamInv, Handshake
<1>3. ~Unopened(e) /\ \A f \in Ends : Unopened(f)' = Unopened(f)
  BY <1>1, <1>2 DEF Unopened
<1>4. \A f \in Ends : \A i \in 1 .. Len(net'[f]) : "SYN" \notin net'[f][i].ctrl
  <2>1. \A f \in Ends : \A i \in 1 .. Len(net[f]) : "SYN" \notin net[f][i].ctrl
    BY <1>2 DEF StreamInv, Handshake
  <2>. QED  BY <2>1, NoSyn
<1>5. ASSUME state["server"] = "SYS_RECV"
      PROVE  /\ net'["client"] = <<>>
             /\ \A i \in 1 .. Len(net'["server"]) : LET p == net'["server"][i] IN
                  "ACK" \in p.ctrl => p.ack.lo = 0 /\ p.window = M - 1
  <2>1. e = "client" /\ Peer(e) = "server"
    BY <1>1, <1>5 DEF Ends, Peer
  <2>2. net'["client"] = <<>> /\ net'["server"] = net["server"] \o more
    BY <1>2, <1>5, <2>1 DEF StreamInv, Handshake
  <2>3. ASSUME NEW i \in 1 .. Len(net'["server"])
        PROVE  LET p == net'["server"][i] IN
                 "ACK" \in p.ctrl => p.ack.lo = 0 /\ p.window = M - 1
    <3>1. net["server"] \in Seq(Packet)
      BY <1>0 DEF TypeOK
    <3>2. \/ i \in 1 .. Len(net["server"]) /\ net'["server"][i] = net["server"][i]
          \/ /\ i - Len(net["server"]) \in 1 .. Len(more)
             /\ net'["server"][i] = more[i - Len(net["server"])]
      BY <2>2, <3>1
    <3>. QED  BY <1>2, <1>5, <3>2 DEF StreamInv, Handshake
  <2>. QED  BY <2>2, <2>3
<1>6. Handshake'
  BY <1>2, <1>4, <1>5 DEF StreamInv, Handshake
<1>7. \A f \in Ends : f # e => clstate'[f] = clstate[f]
  BY DEF TypeOK
<1>8. clstate'[e] = clstate[e] \/ (SendsFin(e, expired)
                                   /\ clstate'[e] = clstate[e] \cup {"FIN_SENT"})
  BY DEF TypeOK
<1>9. \A f \in Ends : clstate[f] \subseteq clstate'[f]
                      /\ clstate'[f] \subseteq clstate[f] \cup {"FIN_SENT"}
  BY <1>7, <1>8
<1>10. ASSUME NEW f \in Ends, "FIN_SENT" \in clstate'[f]
       PROVE  AckedBytes(f)' = written'[f]
  <2>1. CASE "FIN_SENT" \in clstate[f]
    BY <2>1 DEF StreamInv, Closing
  <2>2. CASE "FIN_SENT" \notin clstate[f]
    <3>1. f = e /\ SendsFin(e, expired)
      BY <1>7, <1>8, <1>10, <2>2
    <3>. QED  BY <3>1, FinControl
  <2>. QED  BY <2>1, <2>2
<1>11. \A t \in Threads : Owner[t] \in Ends
  BY ConnAssumption
<1>12. ASSUME NEW f \in Ends
       PROVE  /\ state'[f] \in {"CLOSED", "FREED"} /\ ~Unopened(f)' =>
                   CL_CLOSE \subseteq clstate'[f]
              /\ eof'[f] => "FIN_RECV" \in clstate'[f]
              /\ "FIN_RECV" \in clstate'[f] => "FIN_SENT" \in clstate'[Peer(f)]
  BY <1>3, <1>9, Peers DEF StreamInv, Closing
<1>13. ASSUME NEW t \in Threads
       PROVE  /\ "CALL" \in clstate'[Owner[t]] => pc'[t] \in {"cspin", "cfree", "done"}
              /\ pc'[t] = "cfree" => CL_CLOSE \subseteq clstate'[Owner[t]]
  BY <1>9, <1>11 DEF StreamInv, Closing
<1>14. Closing'
  BY <1>10, <1>12, <1>13 DEF Closing
<1>15. Blank'
  <2>1. \A f \in Ends : Unopened(f) =>
          clstate'[f] = clstate[f] /\ sendBack'[f] = sendBack[f]
    BY <1>3, <1>7 DEF TypeOK
  <2>. QED  BY <1>3, <2>1 DEF StreamInv, Blank
<1>16. FinKept
  BY <1>9 DEF FinKept
<1>. QED  BY <1>6, <1>14, <1>15, <1>16

\* At most a data segment and a FIN behind it are sent.
LEMMA SentAre ==
  ASSUME NEW d \in Packet, NEW fin \in Packet,
         NEW a, a = <<>> \/ a = <<d>>, NEW b, b = <<>> \/ b = <<fin>>
  PROVE  /\ a \in Seq(Packet) /\ b \in Seq(Packet) /\ a \o b \in Seq(Packet)
         /\ \A i \in 1 .. Len(a \o b) :
              (a \o b)[i] = d \/ (b = <<fin>> /\ (a \o b)[i] = fin)
         /\ \A i, j \in 1 .. Len(a \o b) : i < j => (a \o b)[j] = fin
         /\ \A s \in Seq(Packet) : s \o a \o b = s \o (a \o b)
<1>. DEFINE more == a \o b
<1>0. <<>> \in Seq(Packet) /\ <<d>> \in Seq(Packet) /\ <<fin>> \in Seq(Packet)
  BY Singleton
<1>1. a \in Seq(Packet) /\ b \in Seq(Packet)
  BY <1>0
<1>2. more \in Seq(Packet)
  BY <1>1
<1>3. /\ \A i \in 1 .. Len(more) : more[i] = d \/ (b = <<fin>> /\ more[i] = fin)
      /\ \A i, j \in 1 .. Len(more) : i < j => more[j] = fin
  <2>1. CASE a = <<>> /\ b = <<>>
    <3>1. more = <<>>
      BY <2>1
    <3>. QED  BY <3>1
  <2>2. CASE a = <<d>> /\ b = <<>>
    <3>1. more = <<d>>
      BY <2>2
    <3>. QED  BY <3>1
  <2>3. CASE a = <<>> /\ b = <<fin>>
    <3>1. more = <<fin>>
      BY <2>3
    <3>. QED  BY <2>3, <3>1
  <2>4. CASE a = <<d>> /\ b = <<fin>>
    <3>1. Len(more) = 2 /\ more[1] = d /\ more[2] = fin
      BY <2>4
    <3>. QED  BY <2>4, <3>1
  <2>. QED  BY <2>1, <2>2, <2>3, <2>4
<1>4. ASSUME NEW s \in Seq(Packet) PROVE s \o a \o b = s \o more
  BY <1>1, ConcatAssociative
<1>. QED  BY <1>1, <1>2, <1>3, <1>4

LEMMA SendStream ==
  ASSUME TypeOK, TypeOK', CopyInv, StreamInv, NEW e \in Ends, AsyncSend(e)
  PROVE  StreamInv'
<1>. DEFINE f == Peer(e)
<1>0. /\ f \in Ends /\ f # e /\ Peer(f) = e /\ Peer(e) = f
      /\ \A g \in Ends : g = e \/ g = f
      /\ Cursors /\ Flow /\ Content /\ Packets /\ Closing /\ SeqAgrees
  BY Peers DEF StreamInv, CopyInv
<1>1. PICK expired \in BOOLEAN :
        /\ isConnection[e]
        /\ sendBack' = [sendBack EXCEPT ![e] = Add(@, NewLen(e))]
        /\ clstate' = [clstate EXCEPT ![e] =
             IF SendsFin(e, expired) THEN @ \cup {"FIN_SENT"} ELSE @]
        /\ net' = [net EXCEPT ![f] = @ \o
             (IF SendsData(e, expired) THEN <<DataSegment(e)>> ELSE <<>>) \o
             (IF SendsFin(e, expired) THEN <<FinSegment(e)>> ELSE <<>>)]
        /\ UNCHANGED <<state, isConnection, sendFront, ackFront, ackBack,
                       writeBuffer, recvFront, recvBack, ackNum, readBuffer, app,
                       pc, written, readLog, eof>>
  BY DEF AsyncSend, recvVars, threadVars, histVars
<1>2. /\ \A g \in Ends : /\ AckedBytes(g)' = AckedBytes(g)
                         /\ SendLimit(g)' = SendLimit(g)
                         /\ ReceivedBytes(g)' = ReceivedBytes(g)
                         /\ Returned(g)' = Returned(g)
                         /\ g # e => SentBytes(g)' = SentBytes(g)
      /\ SentBytes(e)' \in Nat /\ SentBytes(e) <= SentBytes(e)'
      /\ SentBytes(e)' <= written[e]
      /\ Cursors' /\ Flow' /\ Content'
  BY <1>0, <1>1, SendCounts
<1>3. PICK d \in Packet :
        /\ d = DataSegment(e) /\ d.ctrl = {} /\ d.seq.lo = At(AckedBytes(e))
        /\ Len(d.data) = SentBytes(e)' - AckedBytes(e)
        /\ d.data = [i \in 1 .. SentBytes(e)' - AckedBytes(e) |-> AckedBytes(e) + i]
  <2>1. state[e] = "ESTABLISHED"
    BY <1>1 DEF StreamInv, Blank
  <2>. QED  BY <1>0, <1>1, <2>1, SegmentIs
<1>4. PICK fin \in Packet : fin = FinSegment(e) /\ fin.ctrl = {"FIN"} /\ fin.data = <<>>
  <2>1. seqNum[e] \in SeqNo /\ ackNum[e] \in SeqNo /\ M - 1 \in Word
    BY WordClosed DEF TypeOK
  <2>2. /\ FinSegment(e) = [ctrl |-> {"FIN"}, seq |-> seqNum[e], ack |-> ackNum[e],
                            window |-> M - 1, data |-> <<>>]
        /\ {"FIN"} \in SUBSET {"SYN", "ACK", "FIN"} /\ <<>> \in Seq(Byte)
    BY DEF FinSegment, Segment
  <2>3. /\ FinSegment(e) \in Packet
        /\ FinSegment(e).ctrl = {"FIN"} /\ FinSegment(e).data = <<>>
    BY <2>1, <2>2 DEF Packet
  <2>. QED  BY <2>3
<1>5. net'[e] = net[e] /\ net[f] \in Seq(Packet)
      /\ net'[f] = net[f] \o (IF SendsData(e, expired) THEN <<d>> ELSE <<>>) \o
                             (IF SendsFin(e, expired) THEN <<fin>> ELSE <<>>)
  BY <1>0, <1>1, <1>3, <1>4 DEF TypeOK
<1>6. PICK more \in Seq(Packet) :
        /\ net'[f] = net[f] \o more
        /\ \A i \in 1 .. Len(more) :
             more[i] = d \/ (SendsFin(e, expired) /\ more[i] = fin)
        /\ \A i, j \in 1 .. Len(more) : i < j => more[j] = fin
  <2>1. PICK a, b :
          /\ a = (IF SendsData(e, expired) THEN <<d>> ELSE <<>>)
          /\ b = (IF SendsFin(e, expired) THEN <<fin>> ELSE <<>>)
    OBVIOUS
  <2>2. (a = <<>> \/ a = <<d>>) /\ (b = <<>> \/ b = <<fin>>)
        /\ d \in Packet /\ fin \in Packet
    BY <1>3, <1>4, <2>1
  <2>3. /\ a \in Seq(Packet) /\ b \in Seq(Packet) /\ a \o b \in Seq(Packet)
        /\ \A i \in 1 .. Len(a \o b) :
             (a \o b)[i] = d \/ (b = <<fin>> /\ (a \o b)[i] = fin)
        /\ \A i, j \in 1 .. Len(a \o b) : i < j => (a \o b)[j] = fin
    BY <2>2, SentAre
  <2>4. net'[f] = net[f] \o (a \o b)
    <3>1. net'[f] = net[f] \o a \o b
      BY <1>5, <2>1
    <3>2. PICK s \in Seq(Packet) : s = net[f]
      BY <1>5
    <3>3. \A q \in Seq(Packet) : q \o a \o b = q \o (a \o b)
      BY <2>2, SentAre
    <3>4. s \o a \o b = s \o (a \o b)
      BY <3>2, <3>3
    <3>. QED  BY <3>1, <3>2, <3>4
  <2>5. b = <<fin>> => SendsFin(e, expired)
    <3>1. <<fin>> # <<>>
      OBVIOUS
    <3>. QED  BY <2>1, <3>1
  <2>. QED  BY <2>3, <2>4, <2>5
<1>. HIDE DEF f
<1>7. Handshake' /\ Blank' /\ Closing' /\ FinKept
  <2>1. \A i \in 1 .. Len(more) : "SYN" \notin more[i].ctrl /\ "ACK" \notin more[i].ctrl
    BY <1>3, <1>4, <1>6
  <2>2. net'[e] = net[e] /\ net'[Peer(e)] = net[Peer(e)] \o more
    BY <1>0, <1>5, <1>6
  <2>. QED  BY <1>1, <1>2, <2>1, <2>2, SendControl
<1>8. \A g \in Ends, q \in Packet :
        /\ AckPos(g, q)' = AckPos(g, q) /\ AckEdge(g, q)' = AckEdge(g, q)
        /\ FinAck(g, q) => FinAck(g, q)'
        /\ AckOK(g, q) => AckOK(g, q)'
  <2>1. \A g \in Ends, q \in Packet :
          AckPos(g, q)' = AckPos(g, q) /\ AckEdge(g, q)' = AckEdge(g, q)
    BY <1>1, <1>2 DEF AckPos, AckEdge
  <2>2. \A g \in Ends, q \in Packet : FinAck(g, q) => FinAck(g, q)'
    BY <1>1, <1>7 DEF FinAck, FinKept
  <2>. QED  BY <1>2, <2>1, <2>2, Peers DEF AckOK
<1>9. ASSUME NEW g \in Ends, NEW q \in Packet, DataOK(g, q)
      PROVE  DataOK(g, q)'
  <2>1. End(q) <= SentBytes(Peer(g))'
    <3>1. End(q) \in Int /\ End(q) <= SentBytes(Peer(g)) /\ SentBytes(Peer(g)) \in Int
      BY <1>9, Counts, Peers DEF DataOK, End, Packet
    <3>2. CASE Peer(g) = e
      BY <1>2, <3>1, <3>2
    <3>3. CASE Peer(g) # e
      BY <1>2, <3>1, <3>3, Peers
    <3>. QED  BY <3>2, <3>3
  <2>. QED  BY <1>2, <1>9, <2>1 DEF DataOK
<1>10. \A g \in Ends, q \in Packet : PacketOK(g, q) => PacketOK(g, q)'
  BY <1>7, <1>8, <1>9, Peers DEF PacketOK, FinKept
<1>11. \A g \in Ends, q, s \in Packet : InTurn(g, q, s) => InTurn(g, q, s)'
  BY <1>8 DEF InTurn
<1>12. /\ SentBytes(e)' \in Nat /\ AckedBytes(e) \in Nat /\ SentBytes(e) \in Nat
       /\ ReceivedBytes(f) \in Nat /\ written[e] \in Nat /\ M \in Nat
       /\ AckedBytes(e) <= ReceivedBytes(f) /\ ReceivedBytes(f) <= SentBytes(e)
       /\ SentBytes(e) <= SentBytes(e)' /\ SentBytes(e)' <= written[e]
       /\ written[e] - AckedBytes(e) <= M - 1
  BY <1>0, <1>2, Counts, Distances DEF Flow, Cursors
<1>13. ASSUME d.data # <<>>
       PROVE  /\ Before(d) = AckedBytes(e) /\ End(d) = SentBytes(e)'
              /\ DataOK(f, d)'
  <2>1. Len(d.data) >= 1 /\ Len(d.data) = SentBytes(e)' - AckedBytes(e)
    <3>1. d.data \in Seq(Byte)
      BY <1>3 DEF Packet
    <3>2. Len(d.data) \in Nat /\ Len(d.data) # 0
      BY <1>13, <3>1
    <3>. QED  BY <1>3, <3>2
  <2>2. 1 \in 1 .. SentBytes(e)' - AckedBytes(e)
    BY <1>12, <2>1
  <2>3. d.data[1] = AckedBytes(e) + 1
    BY <1>3, <2>2
  <2>4. Before(d) = AckedBytes(e)
    BY <1>12, <2>3 DEF Before
  <2>5. End(d) = SentBytes(e)'
    BY <1>12, <2>1, <2>4 DEF End
  <2>6. /\ Before(d) \in Nat /\ Len(d.data) < M
        /\ d.data = [i \in 1 .. Len(d.data) |-> Before(d) + i]
        /\ d.seq.lo = At(Before(d))
    BY <1>3, <1>12, <2>1, <2>4
  <2>7. /\ Before(d) <= ReceivedBytes(f)' /\ ReceivedBytes(f)' <= End(d)
        /\ End(d) <= SentBytes(Peer(f))'
    BY <1>0, <1>2, <1>12, <2>4, <2>5
  <2>. QED  BY <2>4, <2>5, <2>6, <2>7 DEF DataOK
<1>14. /\ PacketOK(f, d)'
       /\ \A q \in Packet : PacketOK(f, q) => InTurn(f, q, d)'
  <2>1. PacketOK(f, d)'
    BY <1>3, <1>13 DEF PacketOK
  <2>2. ASSUME NEW q \in Packet, PacketOK(f, q), q.data # <<>>, d.data # <<>>
        PROVE  End(q) <= End(d)
    <3>1. End(q) <= SentBytes(e) /\ End(q) \in Int
      BY <1>0, <2>2 DEF PacketOK, DataOK, End, Packet
    <3>. QED  BY <1>12, <1>13, <2>2, <3>1
  <2>. QED  BY <1>3, <2>1, <2>2 DEF InTurn
<1>15. /\ SendsFin(e, expired) => PacketOK(f, fin)'
       /\ \A q \in Packet : InTurn(f, q, fin)'
  <2>1. SendsFin(e, expired) => "FIN_SENT" \in clstate'[e]
    BY <1>1 DEF TypeOK
  <2>. QED  BY <1>0, <1>4, <2>1 DEF PacketOK, InTurn
<1>16. Packets'
  <2>1. \A i \in 1 .. Len(more) :
          /\ PacketOK(f, more[i])'
          /\ \A q \in Packet : PacketOK(f, q) => InTurn(f, q, more[i])'
          /\ \A j \in 1 .. Len(more) : i < j => InTurn(f, more[i], more[j])'
    <3>1. ASSUME NEW i \in 1 .. Len(more), NEW j \in 1 .. Len(more), i < j
          PROVE  InTurn(f, more[i], more[j])'
      <4>1. more[j] = fin /\ more[i] \in Packet
        BY <1>6, <3>1
      <4>. QED  BY <1>15, <4>1
    <3>. QED  BY <1>6, <1>14, <1>15, <3>1
  <2>2. \A g \in Ends, q \in Packet :
          PacketOK(g, q) /\ (g = e /\ net'[e] # net[e] => InTurn(e, Head(net[e]), q))
            => PacketOK(g, q)'
    BY <1>10
  <2>3. \A g \in Ends, q, s \in Packet :
          /\ PacketOK(g, q) /\ PacketOK(g, s) /\ InTurn(g, q, s)
          /\ g = e /\ net'[e] # net[e] => /\ InTurn(e, Head(net[e]), q)
                                          /\ InTurn(e, Head(net[e]), s)
          => InTurn(g, q, s)'
    BY <1>11
  <2>4. Packets /\ net'[e] = net[e] /\ net'[Peer(e)] = net[Peer(e)] \o more
    BY <1>0, <1>5, <1>6
  <2>. QED  BY <2>1, <2>2, <2>3, <2>4, PacketsStep DEF f
<1>. QED  BY <1>2, <1>7, <1>16 DEF StreamInv

-----------------------------------------------------------------------------
(* The copies.                                                             *)

\* A write moves only the count of what is written.
LEMMA WriteCounts ==
  ASSUME TypeOK, TypeOK', Cursors, Flow, Content, NEW e \in Ends, NEW n \in Word,
         n <= SendSpace(e),
         writeBuffer' = [writeBuffer EXCEPT ![e] =
           RingWrite(@, sendFront[e], [i \in 1 .. n |-> written[e] + i])],
         sendFront' = [sendFront EXCEPT ![e] = Add(@, n)],
         written' = [written EXCEPT ![e] = @ + n],
         UNCHANGED <<sendBack, ackFront, ackBack, recvFront, recvBack, ackNum,
                     readBuffer, readLog>>
  PROVE  /\ \A f \in Ends : /\ SentBytes(f)' = SentBytes(f)
                            /\ AckedBytes(f)' = AckedBytes(f)
                            /\ SendLimit(f)' = SendLimit(f)
                            /\ ReceivedBytes(f)' = ReceivedBytes(f)
                            /\ Returned(f)' = Returned(f)
                            /\ f # e => written'[f] = written[f]
         /\ written'[e] = written[e] + n
         /\ written[e] + n - AckedBytes(e) <= M - 1
         /\ Cursors' /\ Flow' /\ Content'
<1>0. M \in Nat /\ M >= 2 /\ n \in Nat /\ writeBuffer[e] \in Buffer
  BY WordAssumption DEF TypeOK, Word
<1>1. /\ SentBytes(e) \in Nat /\ AckedBytes(e) \in Nat /\ written[e] \in Nat
      /\ AckedBytes(e) <= SentBytes(e) /\ SentBytes(e) <= written[e]
      /\ SendSpace(e) = M - 1 - (written[e] - AckedBytes(e))
      /\ sendFront[e] = At(written[e]) /\ sendBack[e] = At(SentBytes(e))
      /\ ackBack[e] = At(AckedBytes(e))
      /\ Sub(sendBack[e], ackBack[e]) = SentBytes(e) - AckedBytes(e)
  BY Distances, Counts DEF Cursors
<1>2. PICK w \in Nat : w = written[e] + n
  BY <1>0, <1>1
<1>3. /\ sendFront'[e] = Add(sendFront[e], n) /\ written'[e] = w
      /\ \A f \in Ends : f # e => /\ sendFront'[f] = sendFront[f]
                                  /\ written'[f] = written[f]
                                  /\ writeBuffer'[f] = writeBuffer[f]
  BY <1>2 DEF TypeOK
<1>4. sendFront'[e] = At(w)
  BY <1>0, <1>1, <1>2, <1>3, AtAdd
<1>5. w - AckedBytes(e) <= M - 1 /\ written[e] <= w
  BY <1>0, <1>1, <1>2
<1>6. SentBytes(e)' = SentBytes(e)
  <2>1. w - SentBytes(e) < M /\ SentBytes(e) <= w
    BY <1>0, <1>1, <1>2, <1>5
  <2>2. Sub(At(w), At(SentBytes(e))) = w - SentBytes(e)
    BY <1>1, <1>2, <2>1, AtSub
  <2>3. SentBytes(e)' = w - Sub(At(w), At(SentBytes(e)))
    BY <1>1, <1>3, <1>4 DEF SentBytes
  <2>. QED  BY <1>1, <1>2, <2>2, <2>3
<1>7. \A f \in Ends : /\ SentBytes(f)' = SentBytes(f)
                      /\ ReceivedBytes(f)' = ReceivedBytes(f)
                      /\ Returned(f)' = Returned(f)
  <2>1. \A f \in Ends : f # e => SentBytes(f)' = SentBytes(f)
    BY <1>3 DEF SentBytes
  <2>2. \A f \in Ends : SentBytes(f)' = SentBytes(f)
    BY <1>6, <2>1
  <2>. QED  BY <2>2 DEF ReceivedBytes, Returned, RecvSpace
<1>8. \A f \in Ends : AckedBytes(f)' = AckedBytes(f)
  BY <1>7 DEF AckedBytes
<1>9. \A f \in Ends : SendLimit(f)' = SendLimit(f)
  BY <1>8 DEF SendLimit
<1>10. Cursors'
  <2>1. ASSUME NEW f \in Ends
        PROVE  /\ sendFront'[f] = At(written'[f])
               /\ written'[f] - AckedBytes(f)' <= M - 1
    <3>1. CASE f = e
      BY <1>3, <1>4, <1>5, <1>8, <3>1
    <3>2. CASE f # e
      BY <1>3, <1>8, <3>2 DEF Cursors
    <3>. QED  BY <3>1, <3>2
  <2>. QED  BY <1>7, <1>8, <2>1 DEF Cursors
<1>11. Flow'
  BY <1>7, <1>8, <1>9, Peers DEF Flow
<1>12. Content'
  <2>. DEFINE data == [i \in 1 .. n |-> written[e] + i]
  <2>0. data \in Seq(Byte) /\ Len(data) = n /\ n < M
        /\ \A i \in 1 .. n : data[i] = written[e] + i
    <3>1. \A i \in 1 .. n : written[e] + i \in Byte
      BY <1>1 DEF Byte
    <3>. QED  BY <1>0, <3>1 DEF Word
  <2>1. ASSUME NEW k \in AckedBytes(e) + 1 .. w
        PROVE  writeBuffer'[e][At(k - 1)] = k
    <3>1. k - 1 \in Nat /\ k \in Nat
      BY <1>1, <2>1
    <3>2. PICK j \in Nat : j = k - 1
      BY <3>1
    <3>. DEFINE b == RingWrite(writeBuffer[e], At(written[e]), data)
    <3>3. writeBuffer'[e] = b
      BY <1>1 DEF TypeOK
    <3>. HIDE DEF data
    <3>4. /\ written[e] <= j /\ j < written[e] + Len(data) =>
               b[At(j)] = data[j - written[e] + 1]
          /\ j < written[e] /\ written[e] + Len(data) - j <= M =>
               b[At(j)] = writeBuffer[e][At(j)]
      <4>1. /\ writeBuffer[e] \in Buffer /\ written[e] \in Nat
            /\ data \in Seq(Byte) /\ Len(data) < M
        BY <1>0, <1>1, <2>0
      <4>. QED  BY <4>1, StoredAt
    <3>. HIDE DEF b
    <3>5. CASE written[e] <= j
      <4>1. j < written[e] + Len(data)
        BY <1>1, <1>2, <2>0, <2>1, <3>2
      <4>2. /\ j - written[e] + 1 \in 1 .. n
            /\ written[e] + (j - written[e] + 1) = k
        <5>1. /\ written[e] \in Nat /\ j \in Nat /\ k \in Nat /\ n \in Nat /\ j = k - 1
              /\ written[e] <= j /\ j < written[e] + n
          BY <1>0, <1>1, <2>0, <3>1, <3>2, <3>5, <4>1
        <5>. QED  BY <5>1
      <4>3. data[j - written[e] + 1] = k
        BY <2>0, <4>2
      <4>. QED  BY <3>2, <3>3, <3>4, <3>5, <4>1, <4>3
    <3>6. CASE j < written[e]
      <4>1. written[e] + Len(data) - j <= M
        <5>1. /\ M \in Nat /\ n \in Nat /\ AckedBytes(e) \in Nat /\ j \in Nat
              /\ written[e] \in Nat /\ k \in Nat /\ j = k - 1
              /\ AckedBytes(e) + 1 <= k
          BY <1>0, <1>1, <1>2, <2>1, <3>1, <3>2
        <5>2. written[e] + n - AckedBytes(e) <= M - 1 /\ Len(data) = n
          BY <1>0, <1>1, <1>2, <1>5, <2>0
        <5>. QED  BY <5>1, <5>2
      <4>2. k \in AckedBytes(e) + 1 .. written[e]
        BY <1>1, <2>1, <3>1, <3>2, <3>6
      <4>3. writeBuffer[e][At(k - 1)] = k
        BY <4>2 DEF Content
      <4>. QED  BY <3>2, <3>3, <3>4, <3>6, <4>1, <4>3
    <3>. QED  BY <1>1, <3>2, <3>5, <3>6
  <2>2. ASSUME NEW f \in Ends, f # e,
               NEW k \in AckedBytes(f)' + 1 .. written'[f]
        PROVE  writeBuffer'[f][At(k - 1)] = k
    BY <1>3, <1>8, <2>2 DEF Content
  <2>. QED  BY <1>3, <1>7, <1>8, <2>1, <2>2 DEF Content
<1>13. /\ written'[e] = written[e] + n
       /\ written[e] + n - AckedBytes(e) <= M - 1
  BY <1>0, <1>1, <1>2, <1>3, <1>5
<1>14. \A f \in Ends : f # e => written'[f] = written[f]
  BY <1>3
<1>. QED  BY <1>7, <1>8, <1>9, <1>10, <1>11, <1>12, <1>13, <1>14

\* A read moves only the count of what is returned.
LEMMA ReadCounts ==
  ASSUME TypeOK, TypeOK', Cursors, Flow, Content, NEW e \in Ends, NEW n \in Word,
         n <= RecvSpace(e),
         readLog' = [readLog EXCEPT ![e] =
                       @ \o RingRead(readBuffer[e], recvBack[e], n)],
         recvBack' = [recvBack EXCEPT ![e] = Add(@, n)],
         UNCHANGED <<sendFront, sendBack, ackFront, ackBack, writeBuffer, recvFront,
                     ackNum, readBuffer, written>>
  PROVE  /\ \A f \in Ends : /\ SentBytes(f)' = SentBytes(f)
                            /\ AckedBytes(f)' = AckedBytes(f)
                            /\ SendLimit(f)' = SendLimit(f)
                            /\ ReceivedBytes(f)' = ReceivedBytes(f)
                            /\ f # e => readLog'[f] = readLog[f]
                            /\ Returned(f) <= Returned(f)'
         /\ Returned(e)' = Returned(e) + n /\ Returned(e)' <= ReceivedBytes(e)
         /\ RingRead(readBuffer[e], recvBack[e], n) =
              [i \in 1 .. n |-> Len(readLog[e]) + i]
         /\ Cursors' /\ Flow' /\ Content'
<1>0. M \in Nat /\ M >= 2 /\ n \in Nat /\ n < M /\ readBuffer[e] \in Buffer
      /\ recvBack[e] \in Word /\ readLog[e] \in Seq(Byte)
  BY WordAssumption DEF TypeOK, Word
<1>1. /\ ReceivedBytes(e) \in Nat /\ Returned(e) \in Nat
      /\ Returned(e) <= ReceivedBytes(e) /\ ReceivedBytes(e) - Returned(e) <= M - 1
      /\ RecvSpace(e) = ReceivedBytes(e) - Returned(e)
      /\ recvFront[e] = At(ReceivedBytes(e)) /\ recvBack[e] = At(Returned(e))
      /\ readLog[e] = [i \in 1 .. Returned(e) |-> i]
  BY Distances, Counts DEF Cursors, Content
<1>2. PICK r \in Nat : r = Returned(e) + n
  BY <1>0, <1>1
<1>3. r <= ReceivedBytes(e) /\ Returned(e) <= r
  BY <1>0, <1>1, <1>2
<1>4. /\ recvBack'[e] = Add(recvBack[e], n)
      /\ readLog'[e] = readLog[e] \o RingRead(readBuffer[e], recvBack[e], n)
      /\ \A f \in Ends : f # e => /\ recvBack'[f] = recvBack[f]
                                  /\ readLog'[f] = readLog[f]
  BY DEF TypeOK
<1>5. PICK data \in Seq(Byte) :
        /\ data = RingRead(readBuffer[e], recvBack[e], n) /\ Len(data) = n
        /\ \A i \in 1 .. n : data[i] = Returned(e) + i
  <2>. DEFINE d == RingRead(readBuffer[e], recvBack[e], n)
  <2>1. \A i \in 1 .. n : readBuffer[e][At(Returned(e) + i - 1)] = Returned(e) + i
    <3>. SUFFICES ASSUME NEW i \in 1 .. n
                  PROVE  readBuffer[e][At(Returned(e) + i - 1)] = Returned(e) + i
      OBVIOUS
    <3>1. Returned(e) + i \in Returned(e) + 1 .. ReceivedBytes(e)
      BY <1>0, <1>1, <1>2, <1>3
    <3>2. readBuffer[e][At((Returned(e) + i) - 1)] = Returned(e) + i
      BY <3>1 DEF Content
    <3>3. (Returned(e) + i) - 1 = Returned(e) + i - 1
      BY <1>1
    <3>. QED  BY <3>2, <3>3
  <2>2. \A i \in 1 .. n : Add(recvBack[e], i - 1) = At(Returned(e) + i - 1)
    BY <1>1, ReadAt
  <2>3. \A i \in 1 .. n : d[i] = Returned(e) + i
    BY <2>1, <2>2 DEF RingRead
  <2>4. d \in Seq(Byte) /\ Len(d) = n
    BY <1>0, RingClosed
  <2>. QED  BY <2>3, <2>4
<1>6. /\ Len(readLog'[e]) = r /\ readLog'[e] = [i \in 1 .. r |-> i]
      /\ Returned(e)' = r
  <2>1. Len(readLog[e]) = Returned(e)
    BY DEF Returned
  <2>. DEFINE l == readLog[e] \o data
  <2>2. /\ l \in Seq(Byte) /\ Len(l) = r
        /\ \A i \in 1 .. r :
             l[i] = IF i <= Returned(e) THEN readLog[e][i] ELSE data[i - Returned(e)]
    BY <1>0, <1>1, <1>2, <1>5, <2>1, ConcatProperties
  <2>. HIDE DEF l
  <2>3. ASSUME NEW i \in 1 .. r PROVE l[i] = i
    <3>1. CASE i <= Returned(e)
      BY <1>1, <2>2, <3>1
    <3>2. CASE ~(i <= Returned(e))
      <4>1. /\ i - Returned(e) \in 1 .. n /\ Returned(e) + (i - Returned(e)) = i
        BY <1>0, <1>1, <1>2, <3>2
      <4>. QED  BY <1>5, <2>2, <3>2, <4>1
    <3>. QED  BY <3>1, <3>2
  <2>4. l = [i \in 1 .. r |-> i]
    <3>1. [i \in 1 .. r |-> i] \in Seq(Byte) /\ Len([i \in 1 .. r |-> i]) = r
      <4>1. \A i \in 1 .. r : i \in Byte
        BY DEF Byte
      <4>. QED  BY <4>1, IsASeq
    <3>. DEFINE m == [i \in 1 .. r |-> i]
    <3>2. \A i \in 1 .. r : m[i] = i
      OBVIOUS
    <3>3. m \in Seq(Byte) /\ Len(m) = r
      BY <3>1
    <3>. HIDE DEF m
    <3>4. l = m
      BY <2>2, <2>3, <3>2, <3>3, SeqEqual
    <3>. QED  BY <3>4 DEF m
  <2>5. readLog'[e] = l
    BY <1>4, <1>5 DEF l
  <2>. QED  BY <2>2, <2>4, <2>5 DEF Returned
<1>7. recvBack'[e] = At(r)
  BY <1>1, <1>2, <1>4, AtAdd
<1>8. ReceivedBytes(e)' = ReceivedBytes(e)
  <2>1. ReceivedBytes(e) - r < M
    BY <1>0, <1>1, <1>3
  <2>2. Sub(At(ReceivedBytes(e)), At(r)) = ReceivedBytes(e) - r
    BY <1>1, <1>3, <2>1, AtSub
  <2>3. ReceivedBytes(e)' = r + Sub(At(ReceivedBytes(e)), At(r))
    BY <1>1, <1>6, <1>7 DEF ReceivedBytes, RecvSpace
  <2>. QED  BY <1>1, <2>2, <2>3
<1>9. \A f \in Ends : /\ SentBytes(f)' = SentBytes(f)
                      /\ ReceivedBytes(f)' = ReceivedBytes(f)
                      /\ Returned(f) <= Returned(f)'
  <2>1. \A f \in Ends : f # e => /\ ReceivedBytes(f)' = ReceivedBytes(f)
                                 /\ Returned(f)' = Returned(f)
    BY <1>4 DEF ReceivedBytes, RecvSpace, Returned
  <2>2. \A f \in Ends : Returned(f) \in Nat
    BY Counts
  <2>3. \A f \in Ends : Returned(f) <= Returned(f)'
    BY <1>3, <1>6, <2>1, <2>2
  <2>4. \A f \in Ends : ReceivedBytes(f)' = ReceivedBytes(f)
    BY <1>8, <2>1
  <2>. QED  BY <2>3, <2>4 DEF SentBytes
<1>10. \A f \in Ends : AckedBytes(f)' = AckedBytes(f)
  BY <1>9 DEF AckedBytes
<1>11. \A f \in Ends : SendLimit(f)' = SendLimit(f)
  BY <1>10 DEF SendLimit
<1>12. Cursors'
  <2>1. \A f \in Ends : f # e => recvBack'[f] = At(Returned(f))'
    BY <1>4 DEF Cursors, Returned
  <2>2. \A f \in Ends : recvBack'[f] = At(Returned(f))'
    BY <1>6, <1>7, <2>1
  <2>. QED  BY <1>9, <1>10, <2>2 DEF Cursors
<1>13. Flow'
  <2>1. ASSUME NEW f \in Ends
        PROVE  SendLimit(f)' <= Returned(Peer(f))' + M - 1
    <3>1. /\ SendLimit(f) <= Returned(Peer(f)) + M - 1
          /\ Returned(Peer(f)) \in Nat /\ Returned(Peer(f))' \in Nat
          /\ Returned(Peer(f)) <= Returned(Peer(f))' /\ SendLimit(f) \in Int
      <4>1. Peer(f) \in Ends
        BY Peers
      <4>2. Returned(Peer(f))' \in Nat
        BY <4>1 DEF Returned, TypeOK
      <4>. QED  BY <1>9, <4>1, <4>2, Counts DEF Flow
    <3>. QED  BY <1>0, <1>11, <3>1
  <2>. QED  BY <1>9, <1>10, <1>11, <2>1, Peers DEF Flow
<1>14. Content'
  <2>1. ASSUME NEW f \in Ends, NEW k \in Returned(f)' + 1 .. ReceivedBytes(f)'
        PROVE  readBuffer'[f][At(k - 1)] = k
    <3>1. /\ Returned(f) \in Nat /\ Returned(f)' \in Nat /\ ReceivedBytes(f) \in Nat
          /\ Returned(f) <= Returned(f)' /\ ReceivedBytes(f)' = ReceivedBytes(f)
      <4>1. Returned(f)' \in Nat
        BY DEF Returned, TypeOK
      <4>. QED  BY <1>9, <4>1, Counts
    <3>2. k \in Returned(f) + 1 .. ReceivedBytes(f)
      BY <2>1, <3>1
    <3>. QED  BY <3>2 DEF Content
  <2>2. ASSUME NEW f \in Ends
        PROVE  readLog'[f] = [i \in 1 .. Returned(f)' |-> i]
    <3>1. CASE f = e
      BY <1>6, <3>1
    <3>2. CASE f # e
      <4>1. readLog'[f] = readLog[f] /\ Returned(f)' = Returned(f)
        BY <1>4, <3>2 DEF Returned
      <4>. QED  BY <4>1 DEF Content
    <3>. QED  BY <3>1, <3>2
  <2>. QED  BY <1>10, <2>1, <2>2 DEF Content
<1>15. Returned(e)' = Returned(e) + n /\ Returned(e)' <= ReceivedBytes(e)
  BY <1>2, <1>3, <1>6
<1>16. RingRead(readBuffer[e], recvBack[e], n) =
         [i \in 1 .. n |-> Len(readLog[e]) + i]
  BY <1>5 DEF RingRead, Returned
<1>. QED  BY <1>4, <1>9, <1>10, <1>11, <1>12, <1>13, <1>14, <1>15, <1>16

\* A thread that copies: its call goes on with an open connection, and who calls
\* has not closed.
LEMMA Copying ==
  ASSUME TypeOK, CopyInv, StreamInv, NEW t \in Threads, pc[t] \in {"wcopy", "rcopy"}
  PROVE  /\ Owner[t] \in Ends /\ ~Unopened(Owner[t]) /\ arg[t] \in Word
         /\ "CALL" \notin clstate[Owner[t]]
         /\ pc[t] = "wcopy" => arg[t] <= SendSpace(Owner[t])
         /\ pc[t] = "rcopy" => arg[t] <= RecvSpace(Owner[t])
<1>1. Owner[t] \in Ends /\ app[Owner[t]] = "open"
  BY ConnAssumption DEF CopyInv, Opening
<1>2. ~Unopened(Owner[t])
  BY <1>1, OpenEnds DEF CopyInv
<1>3. "CALL" \notin clstate[Owner[t]]
  BY DEF StreamInv, Closing
<1>4. /\ pc[t] = "wcopy" => arg[t] <= SendSpace(Owner[t])
      /\ pc[t] = "rcopy" => arg[t] <= RecvSpace(Owner[t])
  BY DEF CopyInv, CopiesFit
<1>5. arg[t] \in Word
  BY DEF TypeOK
<1>. QED  BY <1>1, <1>2, <1>3, <1>4, <1>5

\* The two copies as far as the handshake and closing go.
LEMMA CopyControl ==
  ASSUME TypeOK, TypeOK', CopyInv, StreamInv, NEW t \in Threads,
         pc[t] \in {"wcopy", "rcopy"}, Goto(t, "idle"),
         UNCHANGED <<state, clstate, isConnection, net, app, eof>>,
         UNCHANGED <<sendBack, ackFront, ackBack, recvFront, ackNum>>,
         \A f \in Ends : f # Owner[t] =>
           /\ sendFront'[f] = sendFront[f] /\ recvBack'[f] = recvBack[f]
           /\ written'[f] = written[f] /\ readLog'[f] = readLog[f],
         \A f \in Ends : AckedBytes(f)' = AckedBytes(f),
         SilentStep
  PROVE  Handshake' /\ Blank' /\ Closing'
<1>1. Handshake'
  BY DEF StreamInv, Handshake, SynOnly
<1>2. \A f \in Ends : Unopened(f)' = Unopened(f)
  BY DEF Unopened
<1>3. Blank'
  <2>1. \A f \in Ends : Unopened(f) => f # Owner[t]
    BY Copying
  <2>. QED  BY <1>2, <2>1 DEF StreamInv, Blank
<1>4. ASSUME NEW u \in Threads
      PROVE  /\ "CALL" \in clstate'[Owner[u]] => pc'[u] \in {"cspin", "cfree", "done"}
             /\ pc'[u] = "cfree" => CL_CLOSE \subseteq clstate'[Owner[u]]
  <2>1. CASE u = t
    <3>1. pc'[t] = "idle"
      BY DEF Goto, TypeOK
    <3>. QED  BY <2>1, <3>1, Copying
  <2>2. CASE u # t
    <3>1. pc'[u] = pc[u]
      BY <2>2 DEF Goto, TypeOK
    <3>. QED  BY <3>1 DEF StreamInv, Closing
  <2>. QED  BY <2>1, <2>2
<1>5. ASSUME NEW f \in Ends, "FIN_SENT" \in clstate'[f]
      PROVE  AckedBytes(f)' = written'[f]
  BY <1>5 DEF SilentStep, StreamInv, Closing
<1>6. Closing'
  BY <1>2, <1>4, <1>5 DEF StreamInv, Closing
<1>. QED  BY <1>1, <1>3, <1>6

LEMMA WriteStream ==
  ASSUME TypeOK, TypeOK', CopyInv, StreamInv, SilentStep, NEW t \in Threads,
         WriteCopy(t)
  PROVE  StreamInv'
<1>. DEFINE e == Owner[t]
<1>1. /\ pc[t] = "wcopy" /\ Goto(t, "idle")
      /\ writeBuffer' = [writeBuffer EXCEPT ![e] =
           RingWrite(@, sendFront[e], [i \in 1 .. arg[t] |-> written[e] + i])]
      /\ sendFront' = [sendFront EXCEPT ![e] = Add(@, arg[t])]
      /\ written' = [written EXCEPT ![e] = @ + arg[t]]
      /\ UNCHANGED <<state, clstate, isConnection, net, app, eof, sendBack, ackFront,
                     ackBack, recvFront, recvBack, ackNum, readBuffer, readLog>>
  BY DEF WriteCopy, ctlVars, recvVars
<1>2. e \in Ends /\ arg[t] \in Word /\ arg[t] <= SendSpace(e)
  BY <1>1, Copying
<1>. HIDE DEF e
<1>3. /\ \A f \in Ends : /\ SentBytes(f)' = SentBytes(f)
                         /\ AckedBytes(f)' = AckedBytes(f)
                         /\ SendLimit(f)' = SendLimit(f)
                         /\ ReceivedBytes(f)' = ReceivedBytes(f)
                         /\ Returned(f)' = Returned(f)
      /\ Cursors' /\ Flow' /\ Content'
  BY <1>1, <1>2, WriteCounts DEF StreamInv
<1>4. Handshake' /\ Blank' /\ Closing'
  <2>1. \A f \in Ends : f # e => sendFront'[f] = sendFront[f] /\ written'[f] = written[f]
    BY <1>1 DEF TypeOK
  <2>. QED  BY <1>1, <1>3, <2>1, CopyControl DEF e
<1>5. \A f \in Ends, p \in Packet :
        /\ AckPos(f, p)' = AckPos(f, p) /\ AckEdge(f, p)' = AckEdge(f, p)
        /\ FinAck(f, p)' = FinAck(f, p)
        /\ DataOK(f, p) => DataOK(f, p)'
        /\ AckOK(f, p) => AckOK(f, p)'
  <2>1. \A f \in Ends, p \in Packet :
          AckPos(f, p)' = AckPos(f, p) /\ AckEdge(f, p)' = AckEdge(f, p)
    BY <1>1, <1>3 DEF AckPos, AckEdge
  <2>2. ASSUME NEW f \in Ends, NEW p \in Packet
        PROVE  FinAck(f, p)' = FinAck(f, p)
    <3>1. "FIN_SENT" \in clstate[f] => sendFront'[f] = sendFront[f]
      <4>1. sendFront'[f] = At(written'[f]) /\ sendFront[f] = At(written[f])
        BY <1>3 DEF StreamInv, Cursors
      <4>. QED  BY <4>1 DEF SilentStep
    <3>. QED  BY <1>1, <3>1 DEF FinAck
  <2>3. \A f \in Ends, p \in Packet : DataOK(f, p) => DataOK(f, p)'
    BY <1>3, Peers DEF DataOK
  <2>4. \A f \in Ends, p \in Packet : AckOK(f, p) => AckOK(f, p)'
    BY <1>3, <2>1, Peers DEF AckOK
  <2>. QED  BY <2>1, <2>2, <2>3, <2>4
<1>6. Packets'
  <2>1. \A f \in Ends, p \in Packet : PacketOK(f, p) => PacketOK(f, p)'
    BY <1>1, <1>5 DEF PacketOK
  <2>2. \A f \in Ends, p, q \in Packet : InTurn(f, p, q) => InTurn(f, p, q)'
    BY <1>5 DEF InTurn
  <2>. QED  BY <1>1, <2>1, <2>2, PacketsStay DEF StreamInv
<1>. QED  BY <1>3, <1>4, <1>6 DEF StreamInv

LEMMA ReadStream ==
  ASSUME TypeOK, TypeOK', CopyInv, StreamInv, NEW t \in Threads, ReadCopy(t)
  PROVE  StreamInv'
<1>. DEFINE e == Owner[t]
<1>1. /\ pc[t] = "rcopy" /\ Goto(t, "idle")
      /\ readLog' = [readLog EXCEPT ![e] =
                       @ \o RingRead(readBuffer[e], recvBack[e], arg[t])]
      /\ recvBack' = [recvBack EXCEPT ![e] = Add(@, arg[t])]
      /\ UNCHANGED <<state, clstate, isConnection, net, app, eof, sendFront, sendBack,
                     ackFront, ackBack, writeBuffer, recvFront, ackNum, readBuffer,
                     written>>
  BY DEF ReadCopy, ctlVars, sendVars
<1>2. e \in Ends /\ arg[t] \in Word /\ arg[t] <= RecvSpace(e)
  BY <1>1, Copying
<1>. HIDE DEF e
<1>3. /\ \A f \in Ends : /\ SentBytes(f)' = SentBytes(f)
                         /\ AckedBytes(f)' = AckedBytes(f)
                         /\ SendLimit(f)' = SendLimit(f)
                         /\ ReceivedBytes(f)' = ReceivedBytes(f)
                         /\ Returned(f) <= Returned(f)'
      /\ Cursors' /\ Flow' /\ Content'
  BY <1>1, <1>2, ReadCounts DEF StreamInv
<1>4. Handshake' /\ Blank' /\ Closing'
  <2>1. \A f \in Ends : f # e => recvBack'[f] = recvBack[f] /\ readLog'[f] = readLog[f]
    BY <1>1 DEF TypeOK
  <2>2. SilentStep
    BY <1>1 DEF SilentStep
  <2>. QED  BY <1>1, <1>3, <2>1, <2>2, CopyControl DEF e
<1>5. \A f \in Ends, p \in Packet :
        /\ AckPos(f, p)' = AckPos(f, p) /\ AckEdge(f, p)' = AckEdge(f, p)
        /\ FinAck(f, p)' = FinAck(f, p)
        /\ DataOK(f, p) => DataOK(f, p)'
        /\ AckOK(f, p) => AckOK(f, p)'
  <2>1. \A f \in Ends, p \in Packet :
          AckPos(f, p)' = AckPos(f, p) /\ AckEdge(f, p)' = AckEdge(f, p)
    BY <1>1, <1>3 DEF AckPos, AckEdge
  <2>2. \A f \in Ends, p \in Packet : FinAck(f, p)' = FinAck(f, p)
    BY <1>1 DEF FinAck
  <2>3. \A f \in Ends, p \in Packet : DataOK(f, p) => DataOK(f, p)'
    BY <1>3, Peers DEF DataOK
  <2>4. ASSUME NEW f \in Ends, NEW p \in Packet, AckOK(f, p)
        PROVE  AckOK(f, p)'
    <3>1. /\ AckEdge(f, p) <= Returned(Peer(f)) + M - 1 /\ AckEdge(f, p) \in Int
          /\ Returned(Peer(f)) \in Nat /\ Returned(Peer(f))' \in Nat /\ M \in Nat
          /\ Returned(Peer(f)) <= Returned(Peer(f))'
      <4>1. Peer(f) \in Ends
        BY Peers
      <4>2. Returned(Peer(f))' \in Nat
        BY <4>1 DEF Returned, TypeOK
      <4>3. AckEdge(f, p) \in Int
        <5>1. p.ack.lo \in Word /\ p.window \in Word /\ ackBack[f] \in Word
          BY DEF Packet, SeqNo, TypeOK
        <5>2. p.window \in Int
          BY <5>1, WordAssumption DEF Word
        <5>3. Sub(p.ack.lo, ackBack[f]) \in Int
          BY <5>1, SubBounds
        <5>. QED  BY <5>2, <5>3, Counts DEF AckEdge, AckPos
      <4>. QED  BY <1>3, <2>4, <4>1, <4>2, <4>3, Counts DEF AckOK
    <3>2. AckEdge(f, p)' <= Returned(Peer(f))' + M - 1
      BY <2>1, <3>1
    <3>. QED  BY <1>3, <2>1, <2>4, <3>2, Peers DEF AckOK
  <2>. QED  BY <2>1, <2>2, <2>3, <2>4
<1>6. Packets'
  <2>1. \A f \in Ends, p \in Packet : PacketOK(f, p) => PacketOK(f, p)'
    BY <1>1, <1>5 DEF PacketOK
  <2>2. \A f \in Ends, p, q \in Packet : InTurn(f, p, q) => InTurn(f, p, q)'
    BY <1>5 DEF InTurn
  <2>. QED  BY <1>1, <2>1, <2>2, PacketsStay DEF StreamInv
<1>. QED  BY <1>3, <1>4, <1>6 DEF StreamInv

-----------------------------------------------------------------------------
(* The invariant holds.                                                    *)

LEMMA EstablishedStream ==
  ASSUME TypeOK, TypeOK', CopyInv, StreamInv, NEW e \in Ends, net[e] # <<>>,
         HandleEstablished(e, Head(net[e]))
  PROVE  StreamInv'
<1>1. Head(net[e]).ctrl \in {{}, {"ACK"}, {"FIN"}}
  BY Established DEF HandleEstablished
<1>. QED  BY <1>1, AckStream, FinStream, DataStream

LEMMA SilentOrStill == [SilentStep]_vars => SilentStep
BY DEF SilentStep, vars, histVars

LEMMA StreamStep ==
  ASSUME OneThreadPerCall, TypeOK, CopyInv, StreamInv, [Next]_vars, SilentStep
  PROVE  StreamInv'
<1>0. TypeOK'
  BY TypeStep
<1>1. CASE Connect
  BY <1>0, <1>1, ConnectStream
<1>2. CASE ConnectReturn \/ Accept
  BY <1>0, <1>2, ReturnStream
<1>3. ASSUME NEW e \in Ends, Receive(e)
      PROVE  StreamInv'
  <2>1. net[e] # <<>>
    BY <1>3 DEF Receive
  <2>2. CASE HandleListen(e, Head(net[e]))
    BY <1>0, <2>1, <2>2, ListenStream
  <2>3. CASE HandleSyssent(e, Head(net[e]))
    BY <1>0, <2>1, <2>3, SyssentStream
  <2>4. CASE HandleSysrecv(e, Head(net[e]))
    BY <1>0, <2>1, <2>4, SysrecvStream DEF CopyInv, Opening
  <2>5. CASE HandleEstablished(e, Head(net[e]))
    BY <1>0, <2>1, <2>5, EstablishedStream
  <2>6. CASE HandleIgnored(e, Head(net[e]))
    BY <1>0, <2>1, <2>6, QuietStream
  <2>. QED  BY <1>3, <2>2, <2>3, <2>4, <2>5, <2>6 DEF Receive
<1>4. ASSUME NEW e \in Ends, Lose(e) \/ AsyncSend(e)
      PROVE  StreamInv'
  BY <1>0, <1>4, QuietStream, SendStream
<1>5. ASSUME NEW t \in Threads, Call(t) \/ Work(t)
      PROVE  StreamInv'
  <2>1. CASE WriteCopy(t)
    BY <1>0, <2>1, WriteStream
  <2>2. CASE ReadCopy(t)
    BY <1>0, <2>2, ReadStream
  <2>3. CASE \/ WriteCall(t) \/ WriteSpin(t) \/ WriteState(t)
             \/ ReadCall(t) \/ ReadSpin(t) \/ ReadState(t)
             \/ CloseCall(t) \/ CloseSpin(t) \/ CloseFree(t)
    BY <1>0, <2>3, ThreadStream
  <2>. QED  BY <1>5, <2>1, <2>2, <2>3 DEF Call, Work
<1>6. CASE UNCHANGED vars
  <2>1. /\ UNCHANGED countVars /\ UNCHANGED <<readBuffer, writeBuffer>>
        /\ UNCHANGED <<state, clstate, isConnection, net, app, pc, eof>>
    BY <1>6 DEF vars, ctlVars, sendVars, recvVars, threadVars, histVars, countVars
  <2>2. Cursors' /\ Flow' /\ Content'
    BY <2>1, DataKept DEF StreamInv
  <2>3. Packets'
    BY <2>1, PacketsKept DEF StreamInv, FinKept
  <2>4. \A f \in Ends : Unopened(f)' = Unopened(f) /\ AckedBytes(f)' = AckedBytes(f)
    BY <2>1 DEF Unopened, AckedBytes, SentBytes, countVars
  <2>5. Handshake' /\ Blank' /\ Closing'
    BY <2>1, <2>4 DEF StreamInv, Handshake, SynOnly, Blank, Closing, countVars
  <2>. QED  BY <2>2, <2>3, <2>5 DEF StreamInv
<1>. QED  BY <1>1, <1>2, <1>3, <1>4, <1>5, <1>6 DEF Next

\* Everything the theorems below need, for every reachable state.
StreamOK == TypeOK /\ CopyInv /\ StreamInv

LEMMA StreamCorrect ==
  ASSUME OneThreadPerCall
  PROVE  Spec /\ SilentAfterFin => []StreamOK
<1>1. Init => StreamOK
  BY TypeInit, CopyInvInit, StreamInit DEF StreamOK
<1>2. StreamOK /\ [Next]_vars /\ [SilentStep]_vars => StreamOK'
  BY SilentOrStill, OneThreadPerCall, TypeStep, CopyInvStep, StreamStep DEF StreamOK
<1>. QED  BY <1>1, <1>2, PTL DEF Spec, SilentAfterFin

\* The assertion on the length of TCPHandleEstablished (line 199) cannot fail:
\* what comes in order fits into the read buffer.
THEOREM LenAssertion ==
  ASSUME OneThreadPerCall
  PROVE  Spec /\ SilentAfterFin => []LenAssertHolds
<1>1. ASSUME StreamOK PROVE LenAssertHolds
  <2>. SUFFICES ASSUME NEW e \in Ends, state[e] = "ESTABLISHED", net[e] # <<>>,
                       InOrder(e, Head(net[e]))
                PROVE  Len(Head(net[e]).data) <= Window(e)
    BY DEF LenAssertHolds
  <2>1. Head(net[e]) \in Packet /\ PacketOK(e, Head(net[e]))
    BY <1>1, Established DEF StreamOK
  <2>2. CASE Head(net[e]).data # <<>>
    BY <1>1, <2>1, <2>2, DataFits DEF StreamOK, StreamInv
  <2>3. CASE Head(net[e]).data = <<>>
    <3>1. recvBack[e] \in Word /\ recvFront[e] \in Word
      BY <1>1 DEF StreamOK, TypeOK
    <3>2. Window(e) \in Word
      BY <3>1, WordClosed DEF Window
    <3>3. Window(e) >= 0 /\ Len(<<>>) = 0
      BY <3>2, WordAssumption DEF Word
    <3>. QED  BY <2>3, <3>3
  <2>. QED  BY <2>2, <2>3
<1>. QED  BY <1>1, StreamCorrect, PTL

\* What has come in at an end was sent, and sent means written.
LEMMA CountsInOrder ==
  ASSUME StreamOK, NEW e \in Ends
  PROVE  /\ Returned(e) <= ReceivedBytes(e)
         /\ ReceivedBytes(e) <= written[Peer(e)]
         /\ AckedBytes(Peer(e)) <= ReceivedBytes(e)
<1>1. /\ Peer(e) \in Ends /\ Peer(Peer(e)) = e
  BY Peers
<1>2. /\ AckedBytes(Peer(e)) <= ReceivedBytes(e)
      /\ ReceivedBytes(e) <= SentBytes(Peer(e))
  BY <1>1 DEF StreamOK, StreamInv, Flow
<1>3. /\ Returned(e) <= ReceivedBytes(e) /\ ReceivedBytes(e) \in Nat
      /\ SentBytes(Peer(e)) \in Int /\ SentBytes(Peer(e)) <= written[Peer(e)]
      /\ written[Peer(e)] \in Nat
  BY <1>1, Counts DEF StreamOK
<1>. QED  BY <1>2, <1>3

\* When an end has sent its FIN, all it ever writes has come in at the other.
LEMMA FinMeansAll ==
  ASSUME StreamOK, NEW e \in Ends, "FIN_SENT" \in clstate[e]
  PROVE  ReceivedBytes(Peer(e)) = written[e]
<1>1. /\ Peer(e) \in Ends /\ Peer(Peer(e)) = e
  BY Peers
<1>2. AckedBytes(e) = written[e]
  BY DEF StreamOK, StreamInv, Closing
<1>3. /\ AckedBytes(e) <= ReceivedBytes(Peer(e))
      /\ ReceivedBytes(Peer(e)) <= written[e]
  BY <1>1, CountsInOrder
<1>4. ReceivedBytes(Peer(e)) \in Nat /\ written[e] \in Nat
  BY <1>1, Counts DEF StreamOK
<1>. QED  BY <1>2, <1>3, <1>4

\* read() returns the bytes write() took at the other end: in order, none twice,
\* none left out, none made up, whatever is lost, sent again or read in between.
THEOREM StreamIntegrity ==
  ASSUME OneThreadPerCall
  PROVE  Spec /\ SilentAfterFin => []Integrity
<1>1. ASSUME StreamOK PROVE Integrity
  <2>. SUFFICES ASSUME NEW e \in Ends
                PROVE  /\ readLog[e] = [i \in 1 .. Len(readLog[e]) |-> i]
                       /\ Len(readLog[e]) <= written[Peer(e)]
    BY DEF Integrity
  <2>1. readLog[e] = [i \in 1 .. Len(readLog[e]) |-> i]
    BY <1>1 DEF StreamOK, StreamInv, Content, Returned
  <2>2. /\ Len(readLog[e]) \in Nat /\ ReceivedBytes(e) \in Nat
        /\ written[Peer(e)] \in Nat
    BY <1>1, Peers, Counts DEF StreamOK, Returned
  <2>3. /\ Len(readLog[e]) <= ReceivedBytes(e)
        /\ ReceivedBytes(e) <= written[Peer(e)]
    BY <1>1, CountsInOrder DEF Returned
  <2>. QED  BY <2>1, <2>2, <2>3
<1>. QED  BY <1>1, StreamCorrect, PTL

\* A byte whose cell writeLab may reuse has come in at the other end, and nothing
\* has come in that was not sent.
THEOREM NothingFalselyAcked ==
  ASSUME OneThreadPerCall
  PROVE  Spec /\ SilentAfterFin => []NoFalseAck
<1>1. StreamOK => NoFalseAck
  BY DEF StreamOK, StreamInv, Flow, NoFalseAck
<1>. QED  BY <1>1, StreamCorrect, PTL

\* A FIN that has come is the last thing its sender says.
THEOREM LastIsFin ==
  ASSUME OneThreadPerCall
  PROVE  Spec /\ SilentAfterFin => []FinIsLast
<1>1. ASSUME StreamOK PROVE FinIsLast
  <2>. SUFFICES ASSUME NEW e \in Ends, "FIN_RECV" \in clstate[e]
                PROVE  ReceivedBytes(e) = written[Peer(e)]
    BY DEF FinIsLast
  <2>1. "FIN_SENT" \in clstate[Peer(e)]
    BY <1>1 DEF StreamOK, StreamInv, Closing
  <2>. QED  BY <1>1, <2>1, Peers, FinMeansAll
<1>. QED  BY <1>1, StreamCorrect, PTL

\* An end closes only when the other has all it has written.
THEOREM CloseDelivers ==
  ASSUME OneThreadPerCall
  PROVE  Spec /\ SilentAfterFin => []ClosedMeansDelivered
<1>1. ASSUME StreamOK PROVE ClosedMeansDelivered
  <2>. SUFFICES ASSUME NEW e \in Ends, state[e] \in {"CLOSED", "FREED"},
                       app[e] # "opening"
                PROVE  ReceivedBytes(Peer(e)) = written[e]
    BY DEF ClosedMeansDelivered
  <2>1. "FIN_SENT" \in clstate[e]
    BY <1>1 DEF StreamOK, StreamInv, Closing, Unopened, CL_CLOSE
  <2>. QED  BY <1>1, <2>1, FinMeansAll
<1>. QED  BY <1>1, StreamCorrect, PTL

\* When read() returns 0, every byte of the peer has come in.
THEOREM EofIsEnd ==
  ASSUME OneThreadPerCall
  PROVE  Spec /\ SilentAfterFin => []EofMeansArrived
<1>1. ASSUME StreamOK PROVE EofMeansArrived
  <2>. SUFFICES ASSUME NEW e \in Ends, eof[e]
                PROVE  ReceivedBytes(e) = written[Peer(e)]
    BY DEF EofMeansArrived
  <2>1. "FIN_SENT" \in clstate[Peer(e)]
    BY <1>1 DEF StreamOK, StreamInv, Closing
  <2>. QED  BY <1>1, <2>1, Peers, FinMeansAll
<1>. QED  BY <1>1, StreamCorrect, PTL

-----------------------------------------------------------------------------
(* What a step does to the streams.                                        *)

Over(e) == state[e] \in {"CLOSED", "FREED"} /\ "FIN_RECV" \in clstate[e]

\* Nothing of what the applications see moves.
StreamsKept ==
  /\ UNCHANGED <<written, readLog>>
  /\ \A e \in Ends : ReceivedBytes(e)' = ReceivedBytes(e)

LimitsKept == \A e \in Ends : SendLimit(e)' = SendLimit(e)
LimitsUp == \A e \in Ends : isConnection[e] => SendLimit(e)' >= SendLimit(e)

\* An end that closes finds both streams whole.
LEMMA OverIsWhole ==
  ASSUME StreamOK, NEW e \in Ends, {"FIN_SENT", "FIN_RECV"} \subseteq clstate[e]
  PROVE  \A f \in Ends : ReceivedBytes(Peer(f)) = written[f]
<1>1. "FIN_SENT" \in clstate[Peer(e)]
  BY DEF StreamOK, StreamInv, Closing
<1>. QED  BY <1>1, Peers, FinMeansAll

LEMMA MapStays ==
  ASSUME StreamsKept, \A e \in Ends : Over(e)' = Over(e)
  PROVE  UNCHANGED Stream!vars
<1>1. [e \in Ends |-> ReceivedBytes(e)]' = [e \in Ends |-> ReceivedBytes(e)]
  BY DEF StreamsKept
<1>2. [e \in Ends |-> state[e] \in {"CLOSED", "FREED"} /\ "FIN_RECV" \in clstate[e]]'
        = [e \in Ends |-> state[e] \in {"CLOSED", "FREED"}
                          /\ "FIN_RECV" \in clstate[e]]
  BY DEF Over
<1>. QED  BY <1>1, <1>2 DEF StreamsKept, Stream!vars

LEMMA MapFinish ==
  ASSUME TypeOK, StreamsKept, NEW e \in Ends, ~Over(e), Over(e)',
         \A f \in Ends : f # e => Over(f)' = Over(f),
         \A f \in Ends : ReceivedBytes(Peer(f)) = written[f]
  PROVE  Stream!Finish(e)
<1>. DEFINE over == [f \in Ends |-> state[f] \in {"CLOSED", "FREED"}
                                    /\ "FIN_RECV" \in clstate[f]]
            recv == [f \in Ends |-> ReceivedBytes(f)]
<1>1. ~over[e]
  BY DEF Over
<1>2. \A f \in Stream!Ends : recv[Stream!Peer(f)] = written[f]
  BY Peers DEF Stream!Ends, Stream!Peer, Ends, Peer
<1>3. over' = [over EXCEPT ![e] = TRUE]
  BY DEF Over
<1>4. recv' = recv
  BY DEF StreamsKept
<1>. QED  BY <1>1, <1>2, <1>3, <1>4 DEF StreamsKept, Stream!Finish

LEMMA MapWrite ==
  ASSUME TypeOK, NEW e \in Ends, ~Over(e), NEW n \in 1 .. M - 1,
         written[e] + n <= ReceivedBytes(Peer(e)) + M - 1,
         written' = [written EXCEPT ![e] = @ + n], UNCHANGED readLog,
         \A f \in Ends : ReceivedBytes(f)' = ReceivedBytes(f) /\ Over(f)' = Over(f)
  PROVE  Stream!Write(e)
<1>. DEFINE over == [f \in Ends |-> state[f] \in {"CLOSED", "FREED"}
                                    /\ "FIN_RECV" \in clstate[f]]
            recv == [f \in Ends |-> ReceivedBytes(f)]
<1>1. ~over[e]
  BY DEF Over
<1>2. written[e] + n <= recv[Stream!Peer(e)] + (M - 1)
  <2>1. recv[Stream!Peer(e)] = ReceivedBytes(Peer(e)) /\ ReceivedBytes(Peer(e)) \in Nat
    BY Peers, Counts DEF Stream!Peer, Peer
  <2>. HIDE DEF recv
  <2>. QED  BY <2>1, Counts
<1>3. over' = over
  BY DEF Over
<1>4. recv' = recv
  OBVIOUS
<1>. QED  BY <1>1, <1>2, <1>3, <1>4 DEF Stream!Write

LEMMA MapArrive ==
  ASSUME TypeOK, NEW e \in Ends, NEW n \in 1 .. M - 1,
         ReceivedBytes(e)' = ReceivedBytes(e) + n,
         ReceivedBytes(e)' <= written[Peer(e)], n <= Window(e),
         Window(e) = M - 1 - (ReceivedBytes(e) - Returned(e)),
         UNCHANGED <<written, readLog>>,
         \A f \in Ends : /\ f # e => ReceivedBytes(f)' = ReceivedBytes(f)
                         /\ Over(f)' = Over(f)
  PROVE  Stream!Arrive(e)
<1>. DEFINE over == [f \in Ends |-> state[f] \in {"CLOSED", "FREED"}
                                    /\ "FIN_RECV" \in clstate[f]]
            recv == [f \in Ends |-> ReceivedBytes(f)]
<1>1. recv[e] + n <= written[Stream!Peer(e)]
  BY DEF Stream!Peer, Peer
<1>2. recv[e] + n <= Len(readLog[e]) + (M - 1)
  <2>1. recv[e] = ReceivedBytes(e) /\ ReceivedBytes(e) \in Nat /\ Returned(e) \in Nat
        /\ M \in Nat /\ Returned(e) = Len(readLog[e])
    BY Counts DEF Returned
  <2>. HIDE DEF recv
  <2>. QED  BY <2>1
<1>3. over' = over
  BY DEF Over
<1>4. recv' = [recv EXCEPT ![e] = @ + n]
  OBVIOUS
<1>. QED  BY <1>1, <1>2, <1>3, <1>4 DEF Stream!Arrive

LEMMA MapReturn ==
  ASSUME TypeOK, NEW e \in Ends, NEW n \in 1 .. M - 1,
         Len(readLog[e]) + n <= ReceivedBytes(e),
         readLog' = [readLog EXCEPT ![e] = @ \o [i \in 1 .. n |-> Len(@) + i]],
         UNCHANGED written,
         \A f \in Ends : ReceivedBytes(f)' = ReceivedBytes(f) /\ Over(f)' = Over(f)
  PROVE  Stream!Return(e)
<1>. DEFINE over == [f \in Ends |-> state[f] \in {"CLOSED", "FREED"}
                                    /\ "FIN_RECV" \in clstate[f]]
            recv == [f \in Ends |-> ReceivedBytes(f)]
<1>1. Len(readLog[e]) + n <= recv[e]
  OBVIOUS
<1>2. over' = over
  BY DEF Over
<1>3. recv' = recv
  OBVIOUS
<1>. QED  BY <1>1, <1>2, <1>3 DEF Stream!Return

LEMMA MapInit == Init => Stream!Init
<1>. SUFFICES ASSUME Init PROVE Stream!Init
  OBVIOUS
<1>1. TypeOK /\ Blank /\ (\A e \in Ends : Unopened(e))
  BY TypeInit DEF Init, Blank, Unopened, Ends
<1>2. \A e \in Ends : ReceivedBytes(e) = 0 /\ ~Over(e)
  BY <1>1, BlankCounts DEF Blank, Over
<1>3. [e \in Ends |-> ReceivedBytes(e)] = [e \in Ends |-> 0]
  BY <1>2
<1>4. [e \in Ends |-> state[e] \in {"CLOSED", "FREED"} /\ "FIN_RECV" \in clstate[e]]
        = [e \in Ends |-> FALSE]
  BY <1>2 DEF Over
<1>. QED  BY <1>3, <1>4 DEF Init, Stream!Init, Stream!Ends, Ends

\* A step gives the window room or leaves it, and is a step of the two streams or
\* leaves those.
Move == LimitsUp /\ (Stream!Next \/ UNCHANGED Stream!vars)

sharedVars == <<sendFront, sendBack, ackFront, ackBack, recvFront, recvBack, written,
                readLog>>

LEMMA QuietMove ==
  ASSUME TypeOK, UNCHANGED sharedVars
  PROVE  /\ StreamsKept /\ LimitsUp
         /\ (\A e \in Ends : Over(e)' = Over(e)) => Move
<1>1. StreamsKept
  BY DEF StreamsKept, sharedVars, ReceivedBytes, RecvSpace
<1>2. LimitsUp
  <2>1. \A e \in Ends : SendLimit(e)' = SendLimit(e) /\ SendLimit(e) \in Int
    BY Counts DEF sharedVars, SendLimit, AckedBytes, SentBytes
  <2>. QED  BY <2>1 DEF LimitsUp
<1>. QED  BY <1>1, <1>2, MapStays DEF Move

LEMMA OpeningMove ==
  ASSUME StreamOK, TypeOK', Connect \/ ConnectReturn \/ Accept
  PROVE  Move
<1>1. UNCHANGED sharedVars
  BY DEF Connect, ConnectReturn, Accept, sharedVars, sendVars, recvVars, histVars
<1>2. ASSUME NEW e \in Ends PROVE Over(e)' = Over(e)
  <2>1. CASE Connect /\ e = "client"
    <3>1. clstate[e] = {} /\ clstate'[e] = clstate[e]
      BY <2>1 DEF Connect, StreamOK, StreamInv, Blank, Unopened
    <3>. QED  BY <3>1 DEF Over
  <2>2. CASE Connect /\ e # "client"
    BY <2>2 DEF Connect, Over, StreamOK, TypeOK
  <2>3. CASE ConnectReturn \/ Accept
    BY <2>3 DEF ConnectReturn, Accept, ctlVars, Over
  <2>. QED  BY <2>1, <2>2, <2>3
<1>. QED  BY <1>1, <1>2, QuietMove DEF StreamOK

LEMMA OpenMove ==
  ASSUME StreamOK, TypeOK', NEW e \in Ends, state[e] \in {"SYS_SENT", "SYS_RECV"},
         OpenBuffers(e), UNCHANGED <<clstate, written, readLog>>
  PROVE  Move
<1>1. Unopened(e) /\ ~isConnection[e] /\ clstate[e] = {} /\ readLog[e] = <<>>
  BY DEF StreamOK, StreamInv, Blank, Unopened
<1>2. /\ state'[e] = "ESTABLISHED" /\ recvFront'[e] = 0 /\ recvBack'[e] = 0
      /\ \A f \in Ends : f # e =>
           /\ state'[f] = state[f] /\ recvFront'[f] = recvFront[f]
           /\ recvBack'[f] = recvBack[f] /\ sendFront'[f] = sendFront[f]
           /\ sendBack'[f] = sendBack[f] /\ ackFront'[f] = ackFront[f]
           /\ ackBack'[f] = ackBack[f]
  BY DEF OpenBuffers, StreamOK, TypeOK
<1>3. StreamsKept
  <2>1. ReceivedBytes(e) = 0
    BY <1>1, BlankCounts DEF StreamOK, StreamInv
  <2>2. ReceivedBytes(e)' = 0
    BY <1>1, <1>2 DEF ReceivedBytes, RecvSpace, Sub
  <2>3. \A f \in Ends : f # e => ReceivedBytes(f)' = ReceivedBytes(f)
    BY <1>2 DEF ReceivedBytes, RecvSpace
  <2>. QED  BY <2>1, <2>2, <2>3 DEF StreamsKept
<1>4. LimitsUp
  <2>1. \A f \in Ends : f # e => SendLimit(f)' = SendLimit(f) /\ SendLimit(f) \in Int
    BY <1>2, Counts DEF StreamOK, SendLimit, AckedBytes, SentBytes
  <2>. QED  BY <1>1, <2>1 DEF LimitsUp
<1>5. \A f \in Ends : Over(f)' = Over(f)
  BY <1>1, <1>2 DEF Over
<1>. QED  BY <1>3, <1>4, <1>5, MapStays DEF Move

LEMMA HandshakeMove ==
  ASSUME StreamOK, TypeOK', NEW e \in Ends, NEW p,
         \/ HandleListen(e, p) \/ HandleSyssent(e, p) \/ HandleSysrecv(e, p)
         \/ HandleIgnored(e, p) \/ Lose(e)
  PROVE  Move
<1>1. CASE HandleSyssent(e, p) \/ HandleSysrecv(e, p)
  BY <1>1, OpenMove DEF HandleSyssent, HandleSysrecv, histVars
<1>2. CASE HandleListen(e, p)
  <2>1. UNCHANGED sharedVars
    BY <1>2 DEF HandleListen, sharedVars, histVars
  <2>2. clstate[e] = {} /\ clstate'[e] = {}
    BY <1>2 DEF HandleListen, StreamOK, StreamInv, Blank, Unopened, TypeOK
  <2>3. \A f \in Ends : f # e => clstate'[f] = clstate[f] /\ state'[f] = state[f]
    BY <1>2 DEF HandleListen, StreamOK, TypeOK
  <2>4. \A f \in Ends : Over(f)' = Over(f)
    BY <2>2, <2>3 DEF Over
  <2>. QED  BY <2>1, <2>4, QuietMove DEF StreamOK
<1>3. CASE HandleIgnored(e, p) \/ Lose(e)
  <2>1. UNCHANGED sharedVars /\ UNCHANGED <<state, clstate>>
    BY <1>3 DEF HandleIgnored, Lose, ctlVars, sharedVars, sendVars, recvVars, histVars
  <2>. QED  BY <2>1, QuietMove DEF StreamOK, Over
<1>. QED  BY <1>1, <1>2, <1>3

\* Closing for good, or for the program as well: a step of Finish, or the streams
\* were over already.
LEMMA CloseMove ==
  ASSUME StreamOK, StreamsKept, LimitsUp, NEW e \in Ends,
         \A f \in Ends : f # e => Over(f)' = Over(f),
         Over(e) => Over(e)',
         Over(e)' => {"FIN_SENT", "FIN_RECV"} \subseteq clstate[e]
  PROVE  Move
<1>1. CASE Over(e)' = Over(e)
  BY <1>1, MapStays DEF Move
<1>2. CASE ~Over(e) /\ Over(e)'
  <2>1. Stream!Finish(e)
    BY <1>2, OverIsWhole, MapFinish DEF StreamOK
  <2>. QED  BY <2>1 DEF Move, Stream!Next, Stream!Ends, Ends
<1>3. Over(e)' \in BOOLEAN /\ Over(e) \in BOOLEAN
  BY DEF Over
<1>. QED  BY <1>1, <1>2, <1>3

LEMMA EstablishedOver ==
  ASSUME TypeOK, NEW e \in Ends, NEW p, HandleEstablished(e, p)
  PROVE  /\ \A f \in Ends : f # e => Over(f)' = Over(f)
         /\ ~Over(e)
         /\ Over(e)' => {"FIN_SENT", "FIN_RECV"} \subseteq clstate[e]
         /\ "ACK" \notin p.ctrl => ~Over(e)'
<1>1. /\ state[e] = "ESTABLISHED"
      /\ \A f \in Ends : f # e => state'[f] = state[f] /\ clstate'[f] = clstate[f]
      /\ Closes(e, p) \/ state'[e] = state[e]
  BY DEF HandleEstablished, TypeOK
<1>2. Closes(e, p) => /\ {"FIN_SENT", "FIN_RECV"} \subseteq clstate[e]
                      /\ "ACK" \in p.ctrl
  BY DEF Closes, ClAfterAck, CL_CLOSE
<1>. QED  BY <1>1, <1>2 DEF Over

LEMMA EstablishedMove ==
  ASSUME StreamOK, TypeOK', NEW e \in Ends, net[e] # <<>>,
         HandleEstablished(e, Head(net[e]))
  PROVE  Move
<1>1. PICK p \in Packet :
        /\ p = Head(net[e]) /\ HandleEstablished(e, p) /\ PacketOK(e, p)
        /\ p.ctrl \in {{}, {"ACK"}, {"FIN"}}
  BY Established DEF HandleEstablished, StreamOK
<1>2. /\ TypeOK /\ Cursors /\ Flow /\ Content /\ Closing /\ SeqAgrees
      /\ p.ctrl # {} => p.data = <<>>
  BY <1>1 DEF StreamOK, StreamInv, CopyInv, PacketOK
<1>3. /\ \A f \in Ends : f # e => Over(f)' = Over(f)
      /\ ~Over(e)
      /\ Over(e)' => {"FIN_SENT", "FIN_RECV"} \subseteq clstate[e]
      /\ "ACK" \notin p.ctrl => ~Over(e)'
  BY <1>1, <1>2, EstablishedOver
<1>4. CASE p.ctrl = {"ACK"}
  <2>1. /\ UNCHANGED <<sendFront, sendBack, recvFront, recvBack, ackNum, written,
                       readLog, readBuffer, writeBuffer>>
        /\ \/ /\ p.ack.lo = sendBack[e]
              /\ ackBack' = [ackBack EXCEPT ![e] = sendBack[e]]
              /\ ackFront' = [ackFront EXCEPT ![e] = Add(sendBack[e], p.window)]
           \/ UNCHANGED <<ackBack, ackFront>>
    BY <1>1, <1>2, <1>4, AckTaken
  <2>2. StreamsKept
    BY <2>1 DEF StreamsKept, ReceivedBytes, RecvSpace
  <2>3. LimitsUp
    <3>1. CASE UNCHANGED <<ackBack, ackFront>>
      <4>1. UNCHANGED sharedVars
        BY <2>1, <3>1 DEF sharedVars
      <4>. QED  BY <1>2, <4>1, QuietMove
    <3>2. CASE /\ p.ack.lo = sendBack[e]
               /\ ackBack' = [ackBack EXCEPT ![e] = sendBack[e]]
               /\ ackFront' = [ackFront EXCEPT ![e] = Add(sendBack[e], p.window)]
      <4>1. AckOK(e, p)
        BY <1>1, <1>2, <1>4, <3>2, AckIsNew
      <4>2. /\ SendLimit(e)' = AckEdge(e, p)
            /\ \A f \in Ends : f # e => SendLimit(f)' = SendLimit(f)
        BY <1>2, <2>1, <3>2, <4>1, AckCounts
      <4>3. SendLimit(e) <= SendLimit(e)'
        BY <4>1, <4>2 DEF AckOK
      <4>4. /\ \A f \in Ends : SendLimit(f) \in Int
            /\ SendLimit(e)' \in Int
        <5>1. p.ack.lo \in Word /\ p.window \in Word /\ ackBack[e] \in Word
          BY <1>2 DEF Packet, SeqNo, TypeOK
        <5>2. p.window \in Int /\ Sub(p.ack.lo, ackBack[e]) \in Int
          BY <5>1, SubBounds, WordAssumption DEF Word
        <5>. QED  BY <1>2, <4>2, <5>2, Counts DEF AckEdge, AckPos
      <4>5. \A f \in Ends : SendLimit(f)' >= SendLimit(f)
        BY <4>2, <4>3, <4>4
      <4>. QED  BY <4>5 DEF LimitsUp
    <3>. QED  BY <2>1, <3>1, <3>2
  <2>. QED  BY <1>3, <2>2, <2>3, CloseMove
<1>5. CASE p.ctrl = {"FIN"}
  <2>1. UNCHANGED sharedVars
    BY <1>1, <1>2, <1>5, FinTaken DEF countVars, sharedVars
  <2>2. \A f \in Ends : Over(f)' = Over(f)
    BY <1>3, <1>5 DEF Over
  <2>. QED  BY <1>2, <2>1, <2>2, QuietMove
<1>6. CASE p.ctrl = {}
  <2>1. PICK data \in Seq(Byte), more \in Seq(Packet) :
        /\ \/ data = <<>>
           \/ data = p.data /\ p.data # <<>> /\ Before(p) = ReceivedBytes(e)
        /\ Len(data) \in Word /\ Len(data) <= Window(e)
        /\ recvFront' = [recvFront EXCEPT ![e] = Add(@, Len(data))]
        /\ ackNum' = [ackNum EXCEPT ![e] = Adv(@, Len(data))]
        /\ readBuffer' = [readBuffer EXCEPT ![e] = RingWrite(@, recvFront[e], data)]
        /\ UNCHANGED <<sendFront, sendBack, ackFront, ackBack, writeBuffer, recvBack,
                       written, readLog, clstate>>
    BY <1>1, <1>2, <1>6, DataTaken
  <2>2. /\ \A f \in Ends : /\ SendLimit(f)' = SendLimit(f)
                           /\ f # e => ReceivedBytes(f)' = ReceivedBytes(f)
        /\ ReceivedBytes(e)' = ReceivedBytes(e) + Len(data)
        /\ ReceivedBytes(e)' <= SentBytes(Peer(e))
    BY <1>1, <1>2, <2>1, DataCounts
  <2>3. \A f \in Ends : Over(f)' = Over(f)
    BY <1>3, <1>6 DEF Over
  <2>4. LimitsUp
    <3>1. \A f \in Ends : SendLimit(f) \in Int
      BY <1>2, Counts
    <3>. QED  BY <2>2, <3>1 DEF LimitsUp
  <2>5. PICK n \in 0 .. M - 1 : n = Len(data)
    BY <2>1 DEF Word
  <2>6. CASE n = 0
    <3>1. ReceivedBytes(e)' = ReceivedBytes(e)
      <4>1. ReceivedBytes(e) \in Nat
        BY <1>2, Counts
      <4>. QED  BY <2>2, <2>5, <2>6, <4>1
    <3>2. StreamsKept
      BY <2>1, <2>2, <3>1 DEF StreamsKept
    <3>. QED  BY <2>3, <2>4, <3>2, MapStays DEF Move
  <2>7. CASE n # 0
    <3>1. n \in 1 .. M - 1
      BY <2>5, <2>7, WordAssumption
    <3>2. ReceivedBytes(e)' <= written[Peer(e)]
      <4>1. /\ SentBytes(Peer(e)) <= written[Peer(e)] /\ SentBytes(Peer(e)) \in Int
            /\ written[Peer(e)] \in Nat /\ ReceivedBytes(e) \in Nat
        BY <1>2, Peers, Counts
      <4>. QED  BY <2>2, <2>5, <4>1
    <3>3. Window(e) = M - 1 - (ReceivedBytes(e) - Returned(e))
      BY <1>2, Distances
    <3>4. n <= Window(e) /\ ReceivedBytes(e)' = ReceivedBytes(e) + n
          /\ UNCHANGED <<written, readLog>>
      BY <2>1, <2>2, <2>5
    <3>5. \A f \in Ends : /\ f # e => ReceivedBytes(f)' = ReceivedBytes(f)
                          /\ Over(f)' = Over(f)
      BY <2>2, <2>3
    <3>6. Stream!Arrive(e)
      BY <1>2, <3>1, <3>2, <3>3, <3>4, <3>5, MapArrive
    <3>. QED  BY <2>4, <3>6 DEF Move, Stream!Next, Stream!Ends, Ends
  <2>. QED  BY <2>6, <2>7
<1>. QED  BY <1>1, <1>4, <1>5, <1>6

LEMMA SendMove ==
  ASSUME StreamOK, TypeOK', NEW e \in Ends, AsyncSend(e)
  PROVE  Move
<1>1. PICK expired \in BOOLEAN :
        /\ sendBack' = [sendBack EXCEPT ![e] = Add(@, NewLen(e))]
        /\ clstate' = [clstate EXCEPT ![e] =
             IF SendsFin(e, expired) THEN @ \cup {"FIN_SENT"} ELSE @]
        /\ UNCHANGED <<state, sendFront, ackFront, ackBack, writeBuffer, recvFront,
                       recvBack, ackNum, readBuffer, written, readLog>>
  BY DEF AsyncSend, recvVars, histVars
<1>2. \A f \in Ends : SendLimit(f)' = SendLimit(f) /\ SendLimit(f) \in Int
  BY <1>1, SendCounts, Counts DEF StreamOK, StreamInv
<1>3. LimitsUp
  BY <1>2 DEF LimitsUp
<1>4. StreamsKept
  BY <1>1 DEF StreamsKept, ReceivedBytes, RecvSpace
<1>5. \A f \in Ends : Over(f)' = Over(f)
  <2>1. ASSUME NEW f \in Ends
        PROVE  "FIN_RECV" \in clstate'[f] <=> "FIN_RECV" \in clstate[f]
    BY <1>1 DEF StreamOK, TypeOK
  <2>. QED  BY <1>1, <2>1 DEF Over
<1>. QED  BY <1>3, <1>4, <1>5, MapStays DEF Move

LEMMA CopyMove ==
  ASSUME StreamOK, TypeOK', SilentStep, NEW t \in Threads,
         WriteCopy(t) \/ ReadCopy(t)
  PROVE  Move
<1>. DEFINE e == Owner[t]
<1>0. /\ TypeOK /\ Cursors /\ Flow /\ Content /\ Closing /\ SilentStep
      /\ pc[t] \in {"wcopy", "rcopy"}
  BY DEF StreamOK, StreamInv, WriteCopy, ReadCopy
<1>1. /\ e \in Ends /\ arg[t] \in Word /\ ~Unopened(e)
      /\ pc[t] = "wcopy" => arg[t] <= SendSpace(e)
      /\ pc[t] = "rcopy" => arg[t] <= RecvSpace(e)
  BY <1>0, Copying DEF StreamOK
<1>2. PICK n \in 0 .. M - 1 : n = arg[t] /\ n \in Word
  BY <1>1 DEF Word
<1>3. \A f \in Ends : Over(f)' = Over(f)
  BY DEF WriteCopy, ReadCopy, ctlVars, Over
<1>4. /\ written[e] \in Nat /\ Returned(e) \in Nat /\ M \in Nat
      /\ Returned(e) = Len(readLog[e]) /\ AckedBytes(e) \in Int
      /\ \A f \in Ends : SendLimit(f) \in Int
  BY <1>0, <1>1, Counts DEF Returned
<1>. HIDE DEF e
<1>5. CASE WriteCopy(t)
  <2>1. /\ pc[t] = "wcopy"
        /\ writeBuffer' = [writeBuffer EXCEPT ![e] =
             RingWrite(@, sendFront[e], [i \in 1 .. n |-> written[e] + i])]
        /\ sendFront' = [sendFront EXCEPT ![e] = Add(@, n)]
        /\ written' = [written EXCEPT ![e] = @ + n]
        /\ UNCHANGED <<sendBack, ackFront, ackBack, recvFront, recvBack, ackNum,
                       readBuffer, readLog>>
    BY <1>2, <1>5 DEF WriteCopy, ctlVars, recvVars, e
  <2>2. /\ \A f \in Ends : /\ SendLimit(f)' = SendLimit(f)
                           /\ ReceivedBytes(f)' = ReceivedBytes(f)
        /\ written[e] + n - AckedBytes(e) <= M - 1
    BY <1>0, <1>1, <1>2, <2>1, WriteCounts
  <2>3. LimitsUp
    BY <1>4, <2>2 DEF LimitsUp
  <2>4. CASE n = 0
    <3>1. UNCHANGED written
      BY <1>0, <1>4, <2>1, <2>4 DEF TypeOK
    <3>. QED  BY <1>3, <2>1, <2>2, <2>3, <3>1, MapStays DEF Move, StreamsKept
  <2>5. CASE n # 0
    <3>1. n \in 1 .. M - 1
      BY <1>2, <1>4, <2>5
    <3>2. ~Over(e)
      <4>1. written'[e] = written[e] + n
        BY <1>0, <1>1, <2>1 DEF TypeOK
      <4>2. written'[e] # written[e]
        BY <1>4, <3>1, <4>1
      <4>3. "FIN_SENT" \notin clstate[e]
        BY <1>0, <1>1, <4>2 DEF SilentStep
      <4>. QED  BY <1>0, <1>1, <4>3 DEF Over, Closing, CL_CLOSE
    <3>3. written[e] + n <= ReceivedBytes(Peer(e)) + M - 1
      <4>1. AckedBytes(e) <= ReceivedBytes(Peer(e)) /\ ReceivedBytes(Peer(e)) \in Nat
        BY <1>0, <1>1, Peers, Counts DEF Flow
      <4>. QED  BY <1>2, <1>4, <2>2, <4>1
    <3>4. Stream!Write(e)
      BY <1>0, <1>1, <1>3, <2>1, <2>2, <3>1, <3>2, <3>3, MapWrite
    <3>. QED  BY <1>1, <2>3, <3>4 DEF Move, Stream!Next, Stream!Ends, Ends
  <2>. QED  BY <2>4, <2>5
<1>6. CASE ReadCopy(t)
  <2>1. /\ pc[t] = "rcopy"
        /\ readLog' = [readLog EXCEPT ![e] =
                         @ \o RingRead(readBuffer[e], recvBack[e], n)]
        /\ recvBack' = [recvBack EXCEPT ![e] = Add(@, n)]
        /\ UNCHANGED <<sendFront, sendBack, ackFront, ackBack, writeBuffer, recvFront,
                       ackNum, readBuffer, written>>
    BY <1>2, <1>6 DEF ReadCopy, sendVars, e
  <2>2. /\ \A f \in Ends : /\ SendLimit(f)' = SendLimit(f)
                           /\ ReceivedBytes(f)' = ReceivedBytes(f)
        /\ Returned(e)' = Returned(e) + n /\ Returned(e)' <= ReceivedBytes(e)
        /\ RingRead(readBuffer[e], recvBack[e], n) =
             [i \in 1 .. n |-> Len(readLog[e]) + i]
    BY <1>0, <1>1, <1>2, <2>1, ReadCounts
  <2>3. LimitsUp
    BY <1>4, <2>2 DEF LimitsUp
  <2>4. CASE n = 0
    <3>1. RingRead(readBuffer[e], recvBack[e], n) = <<>>
      BY <2>4 DEF RingRead
    <3>2. UNCHANGED readLog
      <4>1. readLog[e] \o <<>> = readLog[e]
        BY <1>0, <1>1 DEF TypeOK
      <4>. QED  BY <1>0, <2>1, <3>1, <4>1 DEF TypeOK
    <3>. QED  BY <1>3, <2>1, <2>2, <2>3, <3>2, MapStays DEF Move, StreamsKept
  <2>5. CASE n # 0
    <3>1. n \in 1 .. M - 1
      BY <1>2, <1>4, <2>5
    <3>2. Len(readLog[e]) + n <= ReceivedBytes(e)
      BY <1>4, <2>2
    <3>3. readLog' = [readLog EXCEPT ![e] = @ \o [i \in 1 .. n |-> Len(@) + i]]
      BY <2>1, <2>2
    <3>4. Stream!Return(e)
      BY <1>0, <1>1, <1>3, <2>1, <2>2, <3>1, <3>2, <3>3, MapReturn
    <3>. QED  BY <1>1, <2>3, <3>4 DEF Move, Stream!Next, Stream!Ends, Ends
  <2>. QED  BY <2>4, <2>5
<1>. QED  BY <1>5, <1>6

LEMMA ThreadMove ==
  ASSUME StreamOK, TypeOK', NEW t \in Threads,
         \/ WriteCall(t) \/ WriteSpin(t) \/ WriteState(t)
         \/ ReadCall(t) \/ ReadSpin(t) \/ ReadState(t)
         \/ CloseCall(t) \/ CloseSpin(t) \/ CloseFree(t)
  PROVE  Move
<1>. DEFINE e == Owner[t]
<1>0. e \in Ends
  BY ConnAssumption
<1>1. UNCHANGED sharedVars
  BY DEF WriteCall, WriteSpin, WriteState, ReadCall, ReadSpin, ReadState, CloseCall,
         CloseSpin, CloseFree, sharedVars, sendVars, recvVars, histVars
<1>2. StreamsKept /\ LimitsUp
  BY <1>1, QuietMove DEF StreamOK
<1>3. CASE CloseFree(t)
  <2>1. /\ CL_CLOSE \subseteq clstate[e] /\ clstate' = clstate
        /\ state'[e] = "FREED"
        /\ \A f \in Ends : f # e => state'[f] = state[f]
    BY <1>0, <1>3 DEF CloseFree, StreamOK, StreamInv, Closing, TypeOK
  <2>2. /\ \A f \in Ends : f # e => Over(f)' = Over(f)
        /\ Over(e)' /\ {"FIN_SENT", "FIN_RECV"} \subseteq clstate[e]
    BY <2>1 DEF Over, CL_CLOSE
  <2>. QED  BY <1>0, <1>2, <2>2, CloseMove
<1>4. CASE CloseCall(t)
  <2>1. \A f \in Ends : /\ state'[f] = state[f]
                        /\ "FIN_RECV" \in clstate'[f] <=> "FIN_RECV" \in clstate[f]
    BY <1>4 DEF CloseCall, StreamOK, TypeOK
  <2>. QED  BY <1>2, <2>1, MapStays DEF Move, Over
<1>5. CASE \/ WriteCall(t) \/ WriteSpin(t) \/ WriteState(t)
           \/ ReadCall(t) \/ ReadSpin(t) \/ ReadState(t) \/ CloseSpin(t)
  <2>1. UNCHANGED <<state, clstate>>
    BY <1>5 DEF WriteCall, WriteSpin, WriteState, ReadCall, ReadSpin, ReadState,
                CloseSpin, ctlVars
  <2>. QED  BY <1>2, <2>1, MapStays DEF Move, Over
<1>. QED  BY <1>3, <1>4, <1>5

LEMMA EveryMove ==
  ASSUME StreamOK, [Next]_vars, SilentStep
  PROVE  Move
<1>0. TypeOK'
  BY TypeStep DEF StreamOK
<1>1. CASE Connect \/ ConnectReturn \/ Accept
  BY <1>0, <1>1, OpeningMove
<1>2. ASSUME NEW e \in Ends, Receive(e)
      PROVE  Move
  BY <1>0, <1>2, HandshakeMove, EstablishedMove DEF Receive
<1>3. ASSUME NEW e \in Ends, Lose(e) \/ AsyncSend(e)
      PROVE  Move
  BY <1>0, <1>3, HandshakeMove, SendMove
<1>4. ASSUME NEW t \in Threads, Call(t) \/ Work(t)
      PROVE  Move
  BY <1>0, <1>4, CopyMove, ThreadMove DEF Call, Work
<1>5. CASE UNCHANGED vars
  <2>1. UNCHANGED sharedVars /\ UNCHANGED <<state, clstate>>
    BY <1>5 DEF vars, ctlVars, sendVars, recvVars, histVars, sharedVars
  <2>. QED  BY <2>1, QuietMove DEF StreamOK, Over
<1>. QED  BY <1>1, <1>2, <1>3, <1>4, <1>5 DEF Next

\* The right edge of the window an end was given is never taken back.
THEOREM WindowKept ==
  ASSUME OneThreadPerCall
  PROVE  Spec /\ SilentAfterFin => WindowNotRetracted
<1>1. StreamOK /\ [Next]_vars /\ [SilentStep]_vars =>
        [\A e \in Ends : isConnection[e] => SendLimit(e)' >= SendLimit(e)]_vars
  BY EveryMove, SilentOrStill DEF Move, LimitsUp
<1>. QED  BY <1>1, StreamCorrect, PTL DEF Spec, SilentAfterFin, WindowNotRetracted

\* The connection implements two byte streams: each step is one of the two streams
\* or does not show, and an end is over only when both streams have arrived.
THEOREM ImplementsByteStream ==
  ASSUME OneThreadPerCall
  PROVE  Spec /\ SilentAfterFin => ImplementsStream
<1>1. StreamOK /\ [Next]_vars /\ [SilentStep]_vars => [Stream!Next]_(Stream!vars)
  BY EveryMove, SilentOrStill DEF Move
<1>. QED  BY <1>1, MapInit, StreamCorrect, PTL
          DEF Spec, SilentAfterFin, ImplementsStream, Stream!Spec
-----------------------------------------------------------------------------
(* Applications that keep to SilentAfterFin.                               *)

\* An end that closes has read to the end or was free to close, and when a FIN has
\* gone whoever writes has called close().
WritersDone ==
  \A e \in Ends :
    /\ "CALL" \in clstate[e] =>
         eof[e] \/ \E t \in Threads : Owner[t] = e /\ "close" \in Calls[t]
    /\ "FIN_SENT" \in clstate[e] =>
         \A t \in Threads : "write" \in Calls[t] => "CALL" \in clstate[Owner[t]]

\* What a step does to the close bits: none is taken back, CALL is set by close()
\* and FIN_SENT by the timer.
LEMMA BitsSet ==
  ASSUME StreamOK, [Next]_vars, NEW e \in Ends
  PROVE  /\ clstate[e] \subseteq clstate'[e]
         /\ eof[e] => eof'[e]
         /\ "CALL" \in clstate'[e] =>
              "CALL" \in clstate[e] \/ \E t \in Threads : Owner[t] = e /\ CloseCall(t)
         /\ "FIN_SENT" \in clstate'[e] =>
              "FIN_SENT" \in clstate[e] \/ \E x \in BOOLEAN : SendsFin(e, x)
<1>0. TypeOK /\ \A t \in Threads : Owner[t] \in Ends
  BY ConnAssumption DEF StreamOK
<1>1. CASE Connect \/ ConnectReturn \/ Accept \/ UNCHANGED vars
  BY <1>1 DEF Connect, ConnectReturn, Accept, ctlVars, histVars, vars
<1>2. ASSUME NEW f \in Ends, Lose(f)
      PROVE  UNCHANGED <<clstate, eof>>
  BY <1>2 DEF Lose, ctlVars, histVars
<1>3. CASE \E f \in Ends : Receive(f)
  <2>1. PICK f \in Ends : Receive(f)
    BY <1>3
  <2>2. UNCHANGED eof
    BY <2>1 DEF Receive, HandleListen, HandleSyssent, HandleSysrecv, HandleEstablished,
                HandleIgnored, histVars
  <2>3. CASE HandleListen(f, Head(net[f]))
    <3>1. clstate[f] = {} /\ clstate' = [clstate EXCEPT ![f] = {}]
      BY <2>3 DEF HandleListen, StreamOK, StreamInv, Blank, Unopened
    <3>. QED  BY <1>0, <2>2, <3>1 DEF TypeOK
  <2>4. CASE HandleEstablished(f, Head(net[f]))
    <3>1. clstate' = [clstate EXCEPT ![f] = ClAfterAck(f, Head(net[f])) \cup
            (IF "FIN" \in Head(net[f]).ctrl THEN {"FIN_RECV", "ACK_SENT"} ELSE {})]
      BY <2>4 DEF HandleEstablished
    <3>. QED  BY <1>0, <2>2, <3>1 DEF TypeOK, ClAfterAck
  <2>5. CASE \/ HandleSyssent(f, Head(net[f])) \/ HandleSysrecv(f, Head(net[f]))
             \/ HandleIgnored(f, Head(net[f]))
    BY <2>2, <2>5 DEF HandleSyssent, HandleSysrecv, HandleIgnored, ctlVars
  <2>. QED  BY <2>1, <2>3, <2>4, <2>5 DEF Receive
<1>4. CASE \E f \in Ends : AsyncSend(f)
  <2>1. PICK f \in Ends, x \in BOOLEAN :
          clstate' = [clstate EXCEPT ![f] =
                        IF SendsFin(f, x) THEN @ \cup {"FIN_SENT"} ELSE @]
    BY <1>4 DEF AsyncSend
  <2>2. UNCHANGED eof
    BY <1>4 DEF AsyncSend, histVars
  <2>. QED  BY <1>0, <2>1, <2>2 DEF TypeOK
<1>5. CASE \E t \in Threads : CloseCall(t)
  <2>1. PICK t \in Threads : CloseCall(t)
    BY <1>5
  <2>2. UNCHANGED eof /\ clstate' = [clstate EXCEPT ![Owner[t]] = @ \cup {"CALL"}]
    BY <2>1 DEF CloseCall, histVars
  <2>. QED  BY <1>0, <2>1, <2>2 DEF TypeOK
<1>6. ASSUME NEW t \in Threads, Call(t) \/ Work(t), ~CloseCall(t)
      PROVE  UNCHANGED clstate /\ (eof[e] => eof'[e])
  <2>1. UNCHANGED clstate
    BY <1>6 DEF Call, Work, WriteCall, WriteSpin, WriteState, WriteCopy, ReadCall,
                ReadSpin, ReadState, ReadCopy, CloseSpin, CloseFree, ctlVars
  <2>2. UNCHANGED eof \/ eof' = [eof EXCEPT ![Owner[t]] = TRUE]
    BY <1>6 DEF Call, Work, WriteCall, WriteSpin, WriteState, WriteCopy, ReadCall,
                ReadSpin, ReadState, ReadCopy, CloseSpin, CloseFree, histVars
  <2>. QED  BY <1>0, <2>1, <2>2 DEF TypeOK
<1>. QED  BY <1>1, <1>2, <1>3, <1>4, <1>5, <1>6 DEF Next

\* Whoever writes has not called close(), and a FIN has gone only when it has.
LEMMA WritesSilent ==
  ASSUME StreamOK, WritersDone, [Next]_vars
  PROVE  SilentStep
<1>1. CASE \E t \in Threads : WriteCopy(t)
  <2>1. PICK t \in Threads : WriteCopy(t)
    BY <1>1
  <2>2. pc[t] = "wcopy" /\ "write" \in Calls[t]
    BY <2>1 DEF WriteCopy, StreamOK, CopyInv, Callers
  <2>3. "CALL" \notin clstate[Owner[t]]
    BY <2>2, Copying DEF StreamOK
  <2>4. \A e \in Ends : "FIN_SENT" \notin clstate[e]
    BY <2>2, <2>3 DEF WritersDone
  <2>. QED  BY <2>4 DEF SilentStep
<1>2. CASE ~\E t \in Threads : WriteCopy(t)
  <2>1. UNCHANGED written
    BY <1>2 DEF Next, Connect, ConnectReturn, Accept, Receive, HandleListen,
                HandleSyssent, HandleSysrecv, HandleEstablished, HandleIgnored, Lose,
                AsyncSend, Call, Work, WriteCall, WriteSpin, WriteState, ReadCall,
                ReadSpin, ReadState, ReadCopy, CloseCall, CloseSpin, CloseFree,
                histVars, vars
  <2>. QED  BY <2>1 DEF SilentStep
<1>. QED  BY <1>1, <1>2

LEMMA WritersDoneStep ==
  ASSUME WriterCloses, StreamOK, StreamOK', WritersDone, [Next]_vars
  PROVE  WritersDone'
<1>. SUFFICES ASSUME NEW e \in Ends
              PROVE
    /\ "CALL" \in clstate'[e] =>
         eof'[e] \/ \E t \in Threads : Owner[t] = e /\ "close" \in Calls[t]
    /\ "FIN_SENT" \in clstate'[e] =>
         \A t \in Threads : "write" \in Calls[t] => "CALL" \in clstate'[Owner[t]]
  BY DEF WritersDone
<1>1. ASSUME "CALL" \in clstate'[e]
      PROVE  eof'[e] \/ \E t \in Threads : Owner[t] = e /\ "close" \in Calls[t]
  <2>1. CASE "CALL" \in clstate[e]
    BY <2>1, BitsSet DEF WritersDone
  <2>2. CASE \E t \in Threads : Owner[t] = e /\ CloseCall(t)
    BY <2>2, BitsSet DEF CloseCall, Enters
  <2>. QED  BY <1>1, <2>1, <2>2, BitsSet
<1>2. ASSUME "FIN_SENT" \in clstate'[e], NEW t \in Threads, "write" \in Calls[t]
      PROVE  "CALL" \in clstate'[Owner[t]]
  <2>1. Owner[t] \in Ends /\ clstate[Owner[t]] \subseteq clstate'[Owner[t]]
    BY BitsSet, ConnAssumption
  <2>2. \A f \in Ends : "FIN_SENT" \in clstate[f] => "CALL" \in clstate[Owner[t]]
    BY <1>2 DEF WritersDone
  <2>3. CASE "FIN_SENT" \in clstate[e]
    BY <2>1, <2>2, <2>3
  <2>4. CASE \E x \in BOOLEAN : SendsFin(e, x)
    <3>1. "FIN_RECV" \in clstate[e] => "CALL" \in clstate[Owner[t]]
      BY <2>2, Peers DEF StreamOK, StreamInv, Closing
    <3>2. CASE "FIN_RECV" \in clstate[e]
      BY <2>1, <3>1, <3>2
    <3>3. CASE "FIN_RECV" \notin clstate[e]
      <4>1. "CALL" \in clstate[e]
        BY <2>4, <3>3 DEF SendsFin
      <4>2. ~eof[e]
        BY <3>3 DEF StreamOK, StreamInv, Closing
      <4>3. Owner[t] = e
        BY <1>2, <4>1, <4>2 DEF WritersDone, WriterCloses
      <4>. QED  BY <2>1, <4>1, <4>3
    <3>. QED  BY <3>2, <3>3
  <2>. QED  BY <1>2, <2>3, <2>4, BitsSet
<1>. QED  BY <1>1, <1>2

\* Where the peer of an end that writes closes at the end of the stream only, no
\* call of write() accepts a byte when the FIN of its end has gone, and the
\* theorems above hold without a condition on the behaviour.
THEOREM WritersAreSilent ==
  ASSUME OneThreadPerCall, WriterCloses
  PROVE  Spec => SilentAfterFin
<1>1. Init => StreamOK /\ WritersDone
  <2>1. Init => WritersDone
    BY DEF Init, WritersDone
  <2>. QED  BY <2>1, TypeInit, CopyInvInit, StreamInit DEF StreamOK
<1>2. StreamOK /\ WritersDone /\ [Next]_vars => StreamOK' /\ WritersDone'
  BY OneThreadPerCall, WriterCloses, WritesSilent, WritersDoneStep, TypeStep,
     CopyInvStep, StreamStep DEF StreamOK
<1>3. StreamOK /\ WritersDone /\ [Next]_vars => [SilentStep]_vars
  BY WritesSilent
<1>. QED  BY <1>1, <1>2, <1>3, PTL DEF Spec, SilentAfterFin
=============================================================================
