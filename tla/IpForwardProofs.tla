--------------------------- MODULE IpForwardProofs ---------------------------
(* What is proved of IpForward: that it leaves the tables of Route to Route, *)
(* so that Route's theorems hold under it, and that no packet is put off.    *)
EXTENDS IpForward, RouteProofs, TLAPS

\* A step of the IP layer is one of Route or leaves the tables as they are.
LEMMA IpStepIsRoute == [IpNext]_allVars => [Next]_vars
<1>1. ASSUME NEW h \in Hosts,
             BroadcastOnTime(h) \/ UpdateOnTime(h) \/ Restart(h) \/ IpCrash(h)
      PROVE  Next
  BY <1>1 DEF BroadcastOnTime, UpdateOnTime, IpCrash, Next
<1>2. ASSUME NEW h \in Hosts, SetRoutingTable(h)
      PROVE  UNCHANGED vars
  BY <1>2 DEF SetRoutingTable
<1>3. ASSUME NEW d \in Devices, HandleRouteTable(d)
      PROVE  Next
  BY <1>3 DEF Next
<1>4. ASSUME NEW d \in ArpAt, HandleARPPacket(d)
      PROVE  UNCHANGED vars
  BY <1>4 DEF HandleARPPacket
<1>5. ASSUME NEW t \in Traffic, Submit(t)
      PROVE  UNCHANGED vars
  BY <1>5 DEF Submit
<1>6. Forward => UNCHANGED vars
  BY DEF Forward
<1>7. UNCHANGED allVars => UNCHANGED vars
  BY DEF allVars
<1>. QED  BY <1>1, <1>2, <1>3, <1>4, <1>5, <1>6, <1>7 DEF IpNext

\* Whatever packets are sent, passed on and lost, and whatever is set by hand, the
\* tables change as Route says: sending and forwarding only read them.
THEOREM ImplementsRoute == IpSpec => Spec
<1>1. IpInit => Init
  BY DEF IpInit
<1>. QED  BY <1>1, IpStepIsRoute, PTL DEF IpSpec, Spec

\* Hence a host keeps its own addresses in its table, and takes in what is sent
\* to them, under every traffic and all routes set by hand.
THEOREM OwnUnderTraffic == IpSpec => []OwnAddresses
BY ImplementsRoute, OwnKept, PTL

-----------------------------------------------------------------------------
\* The ARP list stays empty: handleARPPacket compares a number it has not
\* converted.  So the question that is answered the wrong way round always gets
\* the answer that lets a packet leave.
NothingLearned ==
  /\ \A h \in Hosts : arp[h] = {}
  /\ packet = NoPacket \/ packet.at = "wire"

LEMMA NoCodeIsReply == {n \in {1, 2} : Code(n) = 2} = {}
BY DEF Code

\* A packet that is sent is on a wire.
LEMMA SentIsOnWire ==
  ASSUME NEW r, NEW t, SendFrame(r, t)
  PROVE  packet'.at = "wire"
BY DEF SendFrame

LEMMA NothingLearnedStep == NothingLearned /\ [IpNext]_allVars => NothingLearned'
<1>. SUFFICES ASSUME NothingLearned, [IpNext]_allVars PROVE NothingLearned'
  OBVIOUS
<1>1. CASE UNCHANGED ipVars
  BY <1>1 DEF ipVars, NothingLearned, NoPacket
<1>2. ASSUME NEW h \in Hosts, IpCrash(h)
      PROVE  NothingLearned'
  BY <1>2 DEF IpCrash, NothingLearned, NoPacket
<1>3. ASSUME NEW h \in Hosts, SetRoutingTable(h)
      PROVE  NothingLearned'
  BY <1>3 DEF SetRoutingTable, NothingLearned, NoPacket
<1>4. ASSUME NEW d \in ArpAt, HandleARPPacket(d)
      PROVE  NothingLearned'
  <2>1. arp' = [arp EXCEPT ![Host[d]] = @ \cup {}] /\ UNCHANGED packet
    BY <1>4, NoCodeIsReply DEF HandleARPPacket
  <2>. QED  BY <2>1 DEF NothingLearned, NoPacket
<1>5. ASSUME NEW t \in Traffic, Submit(t)
      PROVE  NothingLearned'
  <2>1. NotInARPList(t.from, t.dst)
    BY <1>5, TrafficAssumption DEF NothingLearned, NotInARPList
  <2>2. PICK r : SendFrame(r, t)
    BY <1>5, <2>1 DEF Submit
  <2>3. UNCHANGED arp
    BY <1>5 DEF Submit
  <2>. QED  BY <2>2, <2>3, SentIsOnWire DEF NothingLearned
<1>6. CASE Forward
  <2>1. packet.at = "wire" /\ HandleIPPacket /\ UNCHANGED arp
    BY <1>6 DEF Forward, NothingLearned
  <2>2. Gone \/ \E r : SendFrame(r, packet)
    BY <2>1 DEF HandleIPPacket
  <2>. QED  BY <2>1, <2>2, SentIsOnWire DEF Gone, NothingLearned
<1>. QED  BY <1>1, <1>2, <1>3, <1>4, <1>5, <1>6 DEF IpNext, allVars

\* No packet ever waits for processResendIPTask, on any network and whatever ARP
\* packets come in: two mistakes in the ARP code keep each other from showing.
THEOREM NothingPutOff == IpSpec => []NeverPutOff
<1>1. IpInit => NothingLearned
  BY DEF IpInit, NothingLearned
<1>2. NothingLearned => NeverPutOff
  BY DEF NothingLearned, NeverPutOff, NoPacket
<1>. QED  BY <1>1, <1>2, NothingLearnedStep, PTL DEF IpSpec

-----------------------------------------------------------------------------
(* The search for the longest mask, which is a recursive function.         *)

\* One turn of the loop of queryRouteTable over the routes m set by hand.
Turn(m, a, i, best) == IF a \in m[i].covers /\ Better(m[i], best) THEN m[i] ELSE best
IsSearch(m, a, n, b) ==
  b = [i \in 0 .. n |-> IF i = 0 THEN [len |-> 0] ELSE Turn(m, a, i, b[i - 1])]

\* Of the turns that have no search up to them there would be a least one.
LEMMA SearchExists ==
  ASSUME NEW m, NEW a, NEW n \in Nat
  PROVE  \E b : IsSearch(m, a, n, b)
<1>. DEFINE T == {k \in Nat : ~\E b : IsSearch(m, a, k, b)}
<1>1. SUFFICES ASSUME T # {} PROVE FALSE
  OBVIOUS
<1>2. PICK k \in T : \A j \in T : k <= j
  <2>. HIDE DEF T
  <2>1. T \in SUBSET Nat
    BY DEF T
  <2>. QED  BY <1>1, <2>1, Least
<1>3. CASE k = 0
  <2>1. IsSearch(m, a, 0, [i \in 0 .. 0 |-> [len |-> 0]])
    BY DEF IsSearch
  <2>. QED  BY <1>2, <1>3, <2>1
<1>4. CASE k # 0
  <2>1. k - 1 \in Nat /\ k - 1 \notin T
    BY <1>2, <1>4
  <2>2. PICK b : IsSearch(m, a, k - 1, b)
    BY <2>1
  <2>. DEFINE c == [i \in 0 .. k |-> IF i < k THEN b[i] ELSE Turn(m, a, k, b[k - 1])]
  <2>3. \A i \in 0 .. k : c[i] = IF i = 0 THEN [len |-> 0] ELSE Turn(m, a, i, c[i - 1])
    <3>. TAKE i \in 0 .. k
    <3>1. CASE i < k
      <4>1. i \in 0 .. k - 1 /\ (i # 0 => i - 1 \in 0 .. k /\ i - 1 < k)
        BY <3>1, <1>2
      <4>2. b[i] = IF i = 0 THEN [len |-> 0] ELSE Turn(m, a, i, b[i - 1])
        BY <2>2, <4>1 DEF IsSearch
      <4>3. c[i] = b[i] /\ (i # 0 => c[i - 1] = b[i - 1])
        BY <3>1, <4>1
      <4>. QED  BY <4>2, <4>3
    <3>2. CASE i = k
      <4>1. k - 1 \in 0 .. k /\ k - 1 < k
        BY <2>1, <1>2
      <4>2. c[k] = Turn(m, a, k, b[k - 1]) /\ c[k - 1] = b[k - 1]
        BY <4>1, <1>2
      <4>. QED  BY <3>2, <4>2, <1>4
    <3>. QED  BY <3>1, <3>2, <1>2
  <2>4. IsSearch(m, a, k, c)
    <3>1. c = [i \in 0 .. k |-> c[i]]
      OBVIOUS
    <3>. HIDE DEF c
    <3>. QED  BY <2>3, <3>1 DEF IsSearch
  <2>. QED  BY <1>2, <2>4
<1>. QED  BY <1>3, <1>4

\* After k turns best is the first of the routes with the longest of the masks that
\* match, or, if none is longer than 0, what the search began with.
Covering(m, a, k) == {i \in 1 .. k : a \in m[i].covers}
IsLongest(m, a, k, best) ==
  \/ best = [len |-> 0] /\ \A j \in Covering(m, a, k) : m[j].len = 0
  \/ \E i \in Covering(m, a, k) :
       /\ best = m[i] /\ m[i].len > 0
       /\ \A j \in Covering(m, a, k) : m[j].len <= m[i].len
       /\ \A j \in Covering(m, a, k) : j < i => m[j].len < m[i].len

LEMMA TurnKeepsLongest ==
  ASSUME NEW m, NEW a, NEW k \in Nat, NEW best, IsLongest(m, a, k, best),
         \A i \in 1 .. k + 1 : m[i].len \in Nat
  PROVE  IsLongest(m, a, k + 1, Turn(m, a, k + 1, best))
<1>1. Covering(m, a, k + 1) =
        Covering(m, a, k) \cup {i \in {k + 1} : a \in m[i].covers}
  BY DEF Covering
<1>2. k + 1 \in 1 .. k + 1 /\ \A i \in Covering(m, a, k) : i \in 1 .. k + 1 /\ i < k + 1
  BY DEF Covering
<1>3. CASE a \notin m[k + 1].covers
  <2>1. Covering(m, a, k + 1) = Covering(m, a, k) /\ Turn(m, a, k + 1, best) = best
    BY <1>1, <1>3 DEF Turn
  <2>. QED  BY <2>1 DEF IsLongest
<1>4. CASE a \in m[k + 1].covers
  <2>1. Covering(m, a, k + 1) = Covering(m, a, k) \cup {k + 1}
    BY <1>1, <1>4
  <2>2. CASE best = [len |-> 0] /\ \A j \in Covering(m, a, k) : m[j].len = 0
    <3>1. CASE m[k + 1].len > 0
      <4>1. Turn(m, a, k + 1, best) = m[k + 1]
        BY <1>4, <2>2, <3>1 DEF Turn, Better
      <4>. QED  BY <1>2, <2>1, <2>2, <3>1, <4>1 DEF IsLongest
    <3>2. CASE ~(m[k + 1].len > 0)
      <4>1. Turn(m, a, k + 1, best) = best
        BY <1>4, <2>2, <3>2 DEF Turn, Better
      <4>2. m[k + 1].len = 0
        BY <1>2, <3>2
      <4>. QED  BY <2>1, <2>2, <4>1, <4>2 DEF IsLongest
    <3>. QED  BY <3>1, <3>2
  <2>3. ASSUME NEW i \in Covering(m, a, k), best = m[i], m[i].len > 0,
               \A j \in Covering(m, a, k) : m[j].len <= m[i].len,
               \A j \in Covering(m, a, k) : j < i => m[j].len < m[i].len
        PROVE  IsLongest(m, a, k + 1, Turn(m, a, k + 1, best))
    <3>0. m[i].len \in Nat /\ m[k + 1].len \in Nat /\ i < k + 1
          /\ \A j \in Covering(m, a, k) : m[j].len \in Nat
      BY <1>2
    <3>1. CASE m[k + 1].len > m[i].len
      <4>1. Turn(m, a, k + 1, best) = m[k + 1]
        BY <1>4, <2>3, <3>1 DEF Turn, Better
      <4>2. \A j \in Covering(m, a, k) : m[j].len < m[k + 1].len
        BY <2>3, <3>0, <3>1
      <4>3. m[k + 1].len > 0
        BY <3>0, <3>1
      <4>. QED  BY <2>1, <3>0, <4>1, <4>2, <4>3 DEF IsLongest
    <3>2. CASE ~(m[k + 1].len > m[i].len)
      <4>1. Turn(m, a, k + 1, best) = m[i]
        BY <1>4, <2>3, <3>2 DEF Turn, Better
      <4>2. m[k + 1].len <= m[i].len /\ ~(k + 1 < i)
        BY <1>2, <3>0, <3>2 DEF Covering
      <4>. QED  BY <2>1, <2>3, <4>1, <4>2 DEF IsLongest
    <3>. QED  BY <3>1, <3>2
  <2>. QED  BY <2>2, <2>3 DEF IsLongest
<1>. QED  BY <1>3, <1>4

LEMMA MaskLength == \A r \in ManualRoute : r.len \in Nat
<1>. SUFFICES ASSUME NEW r \in ManualRoute PROVE r.len \in Nat
  OBVIOUS
<1>1. r.len \in 0 .. 32
  BY DEF ManualRoute
<1>. QED  BY <1>1

LEMMA SearchFinds ==
  ASSUME NEW m, NEW a, NEW n \in Nat, NEW b, IsSearch(m, a, n, b),
         \A i \in 1 .. n : m[i].len \in Nat
  PROVE  IsLongest(m, a, n, b[n])
<1>. DEFINE T == {k \in Nat : k <= n /\ ~IsLongest(m, a, k, b[k])}
<1>1. SUFFICES ASSUME T # {} PROVE FALSE
  OBVIOUS
<1>2. PICK k \in T : \A j \in T : k <= j
  <2>. HIDE DEF T
  <2>1. T \in SUBSET Nat
    BY DEF T
  <2>. QED  BY <1>1, <2>1, Least
<1>3. b[0] = [len |-> 0] /\ \A i \in 1 .. n : b[i] = Turn(m, a, i, b[i - 1])
  BY DEF IsSearch
<1>4. CASE k = 0
  <2>1. Covering(m, a, 0) = {}
    BY DEF Covering
  <2>. QED  BY <1>2, <1>3, <1>4, <2>1 DEF IsLongest
<1>5. CASE k # 0
  <2>1. PICK j \in Nat : k = j + 1 /\ j < n /\ j \notin T
    <3>1. k - 1 \in Nat /\ k = (k - 1) + 1 /\ k - 1 < n /\ k - 1 \notin T
      BY <1>2, <1>5
    <3>. QED  BY <3>1
  <2>2. IsLongest(m, a, j, b[j])
    BY <2>1
  <2>3. \A i \in 1 .. j + 1 : m[i].len \in Nat
    BY <2>1
  <2>4. b[k] = Turn(m, a, j + 1, b[j])
    BY <1>2, <1>3, <2>1
  <2>. QED  BY <1>2, <2>1, <2>2, <2>3, <2>4, TurnKeepsLongest
<1>. QED  BY <1>4, <1>5

\* queryRouteTable's search among the routes of h.
LEMMA MatchIsLongest ==
  ASSUME NEW h \in Hosts, NEW a, manual[h] \in Seq(ManualRoute)
  PROVE  IsLongest(manual[h], a, Len(manual[h]), MatchByHand(h, a))
<1>. DEFINE m == manual[h]
            n == Len(manual[h])
            best == CHOOSE b : b = [i \in 0 .. n |->
                      IF i = 0 THEN [len |-> 0]
                      ELSE IF a \in m[i].covers /\ Better(m[i], b[i - 1])
                           THEN m[i] ELSE b[i - 1]]
<1>1. n \in Nat /\ \A i \in 1 .. n : m[i].len \in Nat
  <2>1. n \in Nat /\ \A i \in 1 .. n : m[i] \in ManualRoute
    BY ElementOfSeq
  <2>2. \A r \in ManualRoute : r.len \in Nat
    BY MaskLength
  <2>. HIDE DEF m, n
  <2>. QED  BY <2>1, <2>2
<1>2. MatchByHand(h, a) = best[n]
  BY DEF MatchByHand
<1>3. best = CHOOSE b : IsSearch(m, a, n, b)
  BY DEF IsSearch, Turn
<1>. HIDE DEF best, m, n
<1>4. IsSearch(m, a, n, best)
  BY <1>1, <1>3, SearchExists
<1>5. IsLongest(m, a, n, best[n])
  BY <1>1, <1>4, SearchFinds
<1>. QED  BY <1>2, <1>5 DEF m, n

-----------------------------------------------------------------------------
\* The routes of a host by hand are the first of its calls, and a packet is where
\* it can be.
HandOK ==
  /\ manual \in [Hosts -> Seq(ManualRoute)]
  /\ \A h \in Hosts : /\ Len(manual[h]) <= Len(Manual[h])
                      /\ \A i \in 1 .. Len(manual[h]) : manual[h][i] = Manual[h][i]
                      /\ h \notin alive => manual[h] = <<>>
  /\ arp \in [Hosts -> SUBSET Devices]
  /\ \A h \in Hosts : h \notin alive => arp[h] = {}
PacketOK ==
  \/ packet = NoPacket
  \/ /\ packet.at = "wire" /\ packet.dev \in Devices /\ packet.to \in Hosts
     /\ packet.dst \in Devices
  \/ packet.at = "later" /\ packet.from \in Hosts /\ packet.dst \in Devices
IpInv == TableInv /\ HandOK /\ PacketOK

\* A route that queryRouteTable returns is set by hand, the one the search found,
\* or is in the table.
LEMMA RouteFrom ==
  ASSUME IpInv, NEW h \in Hosts, NEW a, NEW r \in QueryRouteTable(h, a)
  PROVE  /\ \/ \E i \in Covering(manual[h], a, Len(manual[h])) :
                 /\ r = manual[h][i] /\ r.len > 0
                 /\ \A j \in Covering(manual[h], a, Len(manual[h])) :
                      j < i => manual[h][j].len < r.len
            \/ r \in online[h] /\ r.addr = a
         /\ r.dev \in Devices /\ r.via \in Hosts
<1>1. manual[h] \in Seq(ManualRoute) /\ online[h] \subseteq Entry
  BY DEF IpInv, HandOK, TableInv, RouteInv
<1>2. IsLongest(manual[h], a, Len(manual[h]), MatchByHand(h, a))
  BY <1>1, MatchIsLongest
<1>3. CASE MatchByHand(h, a).len > 0
  <2>1. r = MatchByHand(h, a)
    BY <1>3 DEF QueryRouteTable
  <2>2. r # [len |-> 0]
    BY <1>3, <2>1
  <2>3. PICK i \in Covering(manual[h], a, Len(manual[h])) :
          /\ r = manual[h][i] /\ r.len > 0
          /\ \A j \in Covering(manual[h], a, Len(manual[h])) :
               j < i => manual[h][j].len < r.len
    BY <1>2, <2>1, <2>2 DEF IsLongest
  <2>4. r \in ManualRoute
    BY <1>1, <2>3, ElementOfSeq DEF Covering
  <2>. QED  BY <2>3, <2>4 DEF ManualRoute
<1>4. CASE ~(MatchByHand(h, a).len > 0)
  <2>1. r \in online[h] /\ r.addr = a
    BY <1>4 DEF QueryRouteTable
  <2>. QED  BY <1>1, <2>1 DEF Entry
<1>. QED  BY <1>3, <1>4

\* A frame that is sent is on its way to a device.
LEMMA SentIsOK ==
  ASSUME NEW r, NEW t, SendFrame(r, t), r.dev \in Devices, r.via \in Hosts,
         t.dst \in Devices
  PROVE  PacketOK'
BY RouteAssumption DEF SendFrame, PacketOK

LEMMA IpInvInit == IpInit => IpInv
<1>. SUFFICES ASSUME IpInit PROVE IpInv
  OBVIOUS
<1>1. TableInv
  BY TableInit DEF IpInit
<1>2. \A h \in Hosts : Len(Manual[h]) \in Nat
  BY ManualAssumption
<1>. QED  BY <1>1, <1>2 DEF IpInit, IpInv, HandOK, PacketOK

LEMMA HandStep == IpInv /\ [IpNext]_allVars => HandOK'
<1>. SUFFICES ASSUME IpInv, [IpNext]_allVars PROVE HandOK'
  OBVIOUS
<1>0. HandOK
  BY DEF IpInv
<1>1. ASSUME UNCHANGED <<manual, arp>>, alive \subseteq alive' PROVE HandOK'
  BY <1>0, <1>1 DEF HandOK
<1>2. ASSUME NEW h \in Hosts, SetRoutingTable(h) PROVE HandOK'
  <2>1. /\ h \in alive /\ Len(manual[h]) < Len(Manual[h])
        /\ manual' = [manual EXCEPT ![h] = Added(h)] /\ UNCHANGED <<alive, arp>>
    BY <1>2 DEF SetRoutingTable, vars
  <2>2. manual[h] \in Seq(ManualRoute) /\ Manual[h] \in Seq(ManualRoute)
    BY <1>0, ManualAssumption DEF HandOK
  <2>3. PICK n \in Nat : n = Len(manual[h])
    BY <2>2
  <2>4. Manual[h][n + 1] \in ManualRoute
    <3>1. Len(Manual[h]) \in Nat /\ n + 1 \in 1 .. Len(Manual[h])
      BY <2>1, <2>2, <2>3
    <3>. QED  BY <2>2, <3>1, ElementOfSeq
  <2>5. /\ Added(h) \in Seq(ManualRoute) /\ Len(Added(h)) = n + 1
        /\ \A i \in 1 .. n : Added(h)[i] = manual[h][i]
        /\ Added(h)[n + 1] = Manual[h][n + 1]
    BY <2>2, <2>3, <2>4 DEF Added
  <2>6. \A i \in 1 .. n + 1 : Added(h)[i] = Manual[h][i]
    <3>1. \A i \in 1 .. n : manual[h][i] = Manual[h][i]
      BY <1>0, <2>3 DEF HandOK
    <3>2. \A i \in 1 .. n + 1 : i \in 1 .. n \/ i = n + 1
      BY <2>3
    <3>. QED  BY <2>5, <3>1, <3>2
  <2>7. n + 1 <= Len(Manual[h])
    BY <2>1, <2>2, <2>3
  <2>8. manual'[h] = Added(h) /\ \A g \in Hosts \ {h} : manual'[g] = manual[g]
    BY <1>0, <2>1 DEF HandOK
  <2>9. manual' \in [Hosts -> Seq(ManualRoute)]
    BY <1>0, <2>1, <2>5 DEF HandOK
  <2>. QED  BY <1>0, <2>1, <2>5, <2>6, <2>7, <2>8, <2>9 DEF HandOK
<1>3. ASSUME NEW d \in ArpAt, HandleARPPacket(d) PROVE HandOK'
  <2>1. arp' = [arp EXCEPT ![Host[d]] = @ \cup {}] /\ UNCHANGED <<manual, alive>>
    BY <1>3, NoCodeIsReply DEF HandleARPPacket, vars
  <2>. QED  BY <1>0, <2>1 DEF HandOK
<1>4. ASSUME NEW h \in Hosts, IpCrash(h) PROVE HandOK'
  <2>1. /\ manual' = [manual EXCEPT ![h] = <<>>] /\ arp' = [arp EXCEPT ![h] = {}]
        /\ alive' = alive \ {h}
    BY <1>4 DEF IpCrash, Crash
  <2>2. manual'[h] = <<>> /\ Len(Manual[h]) \in Nat
    BY <1>0, <2>1, ManualAssumption DEF HandOK
  <2>3. \A g \in Hosts \ {h} : manual'[g] = manual[g] /\ arp'[g] = arp[g]
                              /\ (g \notin alive' => g \notin alive)
    BY <1>0, <2>1 DEF HandOK
  <2>4. manual' \in [Hosts -> Seq(ManualRoute)] /\ arp' \in [Hosts -> SUBSET Devices]
        /\ arp'[h] = {}
    BY <1>0, <2>1 DEF HandOK
  <2>5. /\ Len(manual'[h]) <= Len(Manual[h])
        /\ \A i \in 1 .. Len(manual'[h]) : manual'[h][i] = Manual[h][i]
    BY <2>2
  <2>6. ASSUME NEW g \in Hosts
        PROVE  /\ Len(manual'[g]) <= Len(Manual[g])
               /\ \A i \in 1 .. Len(manual'[g]) : manual'[g][i] = Manual[g][i]
               /\ g \notin alive' => manual'[g] = <<>> /\ arp'[g] = {}
    <3>1. CASE g = h
      BY <2>2, <2>4, <2>5, <3>1
    <3>2. CASE g # h
      BY <1>0, <2>3, <3>2 DEF HandOK
    <3>. QED  BY <3>1, <3>2
  <2>. QED  BY <2>4, <2>6 DEF HandOK
<1>5. ASSUME NEW h \in Hosts,
             (BroadcastOnTime(h) \/ UpdateOnTime(h) \/ Restart(h)) /\ UNCHANGED ipVars
      PROVE  HandOK'
  BY <1>1, <1>5
  DEF BroadcastOnTime, Broadcast, UpdateOnTime, Update, Restart, ipVars
<1>6. ASSUME NEW d \in Devices, HandleRouteTable(d) /\ UNCHANGED ipVars
      PROVE  HandOK'
  BY <1>1, <1>6 DEF HandleRouteTable, ipVars
<1>7. ASSUME NEW t \in Traffic, Submit(t) PROVE HandOK'
  BY <1>1, <1>7 DEF Submit, vars
<1>8. CASE Forward
  BY <1>1, <1>8 DEF Forward, vars
<1>9. CASE UNCHANGED allVars
  BY <1>1, <1>9 DEF allVars, vars, ipVars
<1>. QED  BY <1>2, <1>3, <1>4, <1>5, <1>6, <1>7, <1>8, <1>9 DEF IpNext

LEMMA PacketStep == IpInv /\ [IpNext]_allVars => PacketOK'
<1>. SUFFICES ASSUME IpInv, [IpNext]_allVars PROVE PacketOK'
  OBVIOUS
<1>0. PacketOK
  BY DEF IpInv
<1>1. CASE UNCHANGED packet \/ packet' = NoPacket
  BY <1>0, <1>1 DEF PacketOK
<1>2. ASSUME NEW t \in Traffic, Submit(t) PROVE PacketOK'
  <2>1. t.from \in Hosts /\ t.dst \in Devices
    BY TrafficAssumption
  <2>2. PICK r \in QueryRouteTable(t.from, t.dst) :
          IF NotInARPList(t.from, t.dst) THEN SendFrame(r, t) ELSE PutOff(t.from, t)
    BY <1>2 DEF Submit
  <2>3. r.dev \in Devices /\ r.via \in Hosts
    BY <2>1, RouteFrom
  <2>4. CASE SendFrame(r, t)
    BY <2>1, <2>3, <2>4, SentIsOK
  <2>5. CASE PutOff(t.from, t)
    BY <2>1, <2>5 DEF PutOff, PacketOK
  <2>. QED  BY <2>2, <2>4, <2>5
<1>3. CASE Forward
  <2>1. packet # NoPacket
    BY <1>3 DEF Forward
  <2>2. ASSUME NEW h \in Hosts, NEW r \in QueryRouteTable(h, packet.dst),
               SendFrame(r, packet)
        PROVE  PacketOK'
    <3>1. packet.dst \in Devices
      BY <1>0, <2>1 DEF PacketOK
    <3>2. r.dev \in Devices /\ r.via \in Hosts
      BY <2>2, RouteFrom
    <3>. QED  BY <2>2, <3>1, <3>2, SentIsOK
  <2>3. CASE Gone
    BY <1>1, <2>3 DEF Gone
  <2>4. CASE packet.at = "wire" /\ HandleIPPacket
    <3>1. Host[packet.dev] \in Hosts
      BY <1>0, <2>1, <2>4, RouteAssumption DEF PacketOK, NoPacket
    <3>. QED  BY <2>2, <2>3, <2>4, <3>1 DEF HandleIPPacket
  <2>5. CASE packet.at # "wire" /\ Resend
    <3>1. packet.from \in Hosts
      BY <1>0, <2>1, <2>5 DEF PacketOK
    <3>. QED  BY <2>2, <2>3, <2>5, <3>1 DEF Resend
  <2>. QED  BY <1>3, <2>4, <2>5 DEF Forward
<1>4. UNCHANGED ipVars => UNCHANGED packet
  BY DEF ipVars
<1>5. ASSUME NEW h \in Hosts, IpCrash(h) \/ SetRoutingTable(h)
      PROVE  UNCHANGED packet \/ packet' = NoPacket
  BY <1>5 DEF IpCrash, SetRoutingTable
<1>6. ASSUME NEW d \in ArpAt, HandleARPPacket(d) PROVE UNCHANGED packet
  BY <1>6 DEF HandleARPPacket
<1>7. UNCHANGED allVars => UNCHANGED packet
  BY DEF allVars, ipVars
<1>. QED  BY <1>1, <1>2, <1>3, <1>4, <1>5, <1>6, <1>7 DEF IpNext

LEMMA IpCorrect == IpSpec => []IpInv
<1>1. IpInv /\ [IpNext]_allVars => IpInv'
  <2>1. IpInv /\ [IpNext]_allVars => TableInv'
    BY IpStepIsRoute, TableStep DEF IpInv
  <2>. QED  BY <2>1, HandStep, PacketStep DEF IpInv
<1>. QED  BY <1>1, IpInvInit, PTL DEF IpSpec

\* What is known of a route by hand, of the ARP list and of the packet on every
\* network: the routes are those of the calls, in their order, and a dead host has
\* none; a packet is never sent to where there is no device.
THEOREM IpTypeCorrect == IpSpec => []IpTypeOK
<1>1. ASSUME IpInv PROVE IpTypeOK
  <2>1. ASSUME NEW h \in Hosts PROVE manual[h] = SubSeq(Manual[h], 1, Len(manual[h]))
    <3>1. manual[h] \in Seq(ManualRoute) /\ Manual[h] \in Seq(ManualRoute)
          /\ Len(manual[h]) <= Len(Manual[h])
          /\ \A i \in 1 .. Len(manual[h]) : manual[h][i] = Manual[h][i]
      BY <1>1, ManualAssumption DEF IpInv, HandOK
    <3>2. Len(manual[h]) \in Nat /\ Len(Manual[h]) \in Nat
      BY <3>1
    <3>3. /\ SubSeq(Manual[h], 1, Len(manual[h])) \in Seq(ManualRoute)
          /\ Len(SubSeq(Manual[h], 1, Len(manual[h]))) = Len(manual[h])
          /\ \A i \in 1 .. Len(manual[h]) :
               SubSeq(Manual[h], 1, Len(manual[h]))[i] = Manual[h][i]
      BY <3>1, <3>2, SubSeqProperties
    <3>. QED  BY <3>1, <3>3, SeqEqual
  <2>2. \A h \in Hosts : arp[h] \subseteq Devices
                        /\ (h \notin alive => manual[h] = <<>> /\ arp[h] = {})
    BY <1>1 DEF IpInv, HandOK
  <2>3. /\ packet.at \in {"none", "wire", "later"}
        /\ packet.at = "wire" => packet.dev \in Devices /\ packet.to \in Hosts
    BY <1>1 DEF IpInv, PacketOK, NoPacket
  <2>. QED  BY <2>1, <2>2, <2>3 DEF IpTypeOK
<1>. QED  BY <1>1, IpCorrect, PTL

-----------------------------------------------------------------------------
(* Every hop is a step nearer.                                             *)

\* By a route set by hand it is what was asked of these routes, by the table it
\* is what agreement means.
LEMMA RouteLeadsNearer ==
  ASSUME HopsExact, HandRoutesLead, IpInv, Settled,
         NEW h \in Hosts, NEW a \in Devices, Host[a] # h,
         NEW r \in QueryRouteTable(h, a)
  PROVE  r.via = Host[Wire[r.dev]] /\ Hops[r.via][a] < Hops[h][a]
<1>1. TableInv /\ HandOK /\ AgreedIsShortest
  BY AgreedTables DEF IpInv
<1>2. ASSUME NEW i \in Covering(manual[h], a, Len(manual[h])),
             r = manual[h][i], r.len > 0,
             \A j \in Covering(manual[h], a, Len(manual[h])) :
               j < i => manual[h][j].len < r.len
      PROVE  r.via = Host[Wire[r.dev]] /\ Hops[r.via][a] < Hops[h][a]
  <2>1. /\ manual[h] \in Seq(ManualRoute) /\ Manual[h] \in Seq(ManualRoute)
        /\ Len(manual[h]) \in Nat /\ Len(Manual[h]) \in Nat
        /\ Len(manual[h]) <= Len(Manual[h])
        /\ \A k \in 1 .. Len(manual[h]) : manual[h][k] = Manual[h][k]
    BY <1>1, ManualAssumption DEF HandOK
  <2>2. i \in 1 .. Len(manual[h]) /\ a \in manual[h][i].covers
    BY <1>2 DEF Covering
  <2>3. i \in DOMAIN Manual[h] /\ r = Manual[h][i] /\ a \in r.covers
    BY <1>2, <2>1, <2>2
  <2>4. ASSUME NEW j \in 1 .. i - 1, a \in Manual[h][j].covers,
               Manual[h][j].len >= r.len
        PROVE  FALSE
    <3>1. j \in 1 .. Len(manual[h]) /\ j < i
      BY <2>1, <2>2, <2>4
    <3>2. manual[h][j] = Manual[h][j]
      BY <2>1, <3>1
    <3>3. manual[h][j].len < r.len
      BY <1>2, <2>4, <3>1, <3>2 DEF Covering
    <3>4. manual[h][j].len \in Nat /\ r.len \in Nat
      BY <1>2, <2>1, <2>2, <3>1, ElementOfSeq, MaskLength
    <3>. QED  BY <2>4, <3>2, <3>3, <3>4
  <2>. QED  BY <1>2, <2>3, <2>4 DEF HandRoutesLead
<1>3. CASE r \in online[h] /\ r.addr = a
  <2>1. r \in Entry
    BY <1>1, <1>3 DEF TableInv, RouteInv
  <2>2. r.dist \in Nat /\ r.via \in Hosts /\ r.dist # 0
    <3>1. h \in alive
      BY DEF Settled
    <3>2. r.dist = 0 => r \in Defaults(h)
      BY <1>1, <1>3, <3>1 DEF TableInv, OwnAddresses
    <3>3. r \notin Defaults(h)
      BY <1>3, DefaultsOwn
    <3>. QED  BY <2>1, <3>2, <3>3 DEF Entry
  <2>3. r.via = Host[Wire[r.dev]]
    BY <1>1, <1>3, <2>2 DEF TableInv, RouteInv, NextHopIsNeighbour
  <2>4. r.dist - 1 \in DistsTo(r.via, a)
    BY <1>3, <2>2 DEF Settled, Agree
  <2>5. r.dist \in DistsTo(h, a)
    BY <1>3 DEF DistsTo
  <2>6. r.dist = Hops[h][a] /\ r.dist - 1 = Hops[r.via][a]
    BY <1>1, <2>2, <2>4, <2>5 DEF AgreedIsShortest, Settled
  <2>. QED  BY <2>2, <2>3, <2>6
<1>. QED  BY <1>2, <1>3, RouteFrom

\* Where the tables agree there is a way to every address.
LEMMA RouteIsThere ==
  ASSUME HopsExact, IpInv, Settled, NEW h \in Hosts, NEW a \in Devices
  PROVE  QueryRouteTable(h, a) # {}
<1>1. Hops[h][a] \in DistsTo(h, a)
  BY AgreedTables DEF IpInv, AgreedIsShortest, Settled
<1>. QED  BY <1>1 DEF DistsTo, QueryRouteTable

\* While the tables agree and every host runs, a packet is nearer to where it is
\* sent with every hop and is not lost but by the loss rate, on every network
\* whose routes set by hand, if any, lead there.  With HopsExact the distance is
\* within the limit, so that a packet takes at most MaxDist hops.
THEOREM EveryHopNearer ==
  ASSUME HopsExact, HandRoutesLead
  PROVE  IpSpec => NearerEachHop
<1>1. ASSUME IpInv, [IpNext]_allVars, Passing, packet' # packet, alive' = Hosts, Settled
      PROVE  \/ packet.drop /\ packet' = NoPacket
             \/ /\ packet'.to = Host[packet'.dev]
                /\ Hops[packet'.to][packet.dst] < Hops[Host[packet.dev]][packet.dst]
  <2>1. PICK h \in Hosts : h = Host[packet.dev] /\ packet.dst \in Devices
                           /\ Host[packet.dst] # h /\ packet.at = "wire"
    BY <1>1, RouteAssumption DEF IpInv, PacketOK, Passing, NoPacket, IsMine
  <2>2. Forward
    <3>1. packet # NoPacket
      BY <2>1 DEF NoPacket
    <3>2. ~\E t \in Traffic : Submit(t)
      BY <3>1 DEF Submit
    <3>3. ~\E g \in Hosts : IpCrash(g)
      BY <1>1 DEF IpCrash, Crash
    <3>4. (\E g \in Hosts : SetRoutingTable(g)) => UNCHANGED packet
      BY DEF SetRoutingTable
    <3>5. (\E d \in ArpAt : HandleARPPacket(d)) => UNCHANGED packet
      BY DEF HandleARPPacket
    <3>6. (UNCHANGED ipVars \/ UNCHANGED allVars) => UNCHANGED packet
      BY DEF ipVars, allVars
    <3>. QED  BY <1>1, <3>2, <3>3, <3>4, <3>5, <3>6 DEF IpNext
  <2>3. HandleIPPacket
    BY <2>1, <2>2 DEF Forward
  <2>4. ASSUME NEW r \in QueryRouteTable(h, packet.dst), SendFrame(r, packet)
        PROVE  /\ packet'.to = Host[packet'.dev]
               /\ Hops[packet'.to][packet.dst] < Hops[h][packet.dst]
    <3>1. packet'.to = r.via /\ packet'.dev = Wire[r.dev]
      BY <2>4 DEF SendFrame
    <3>. QED  BY <1>1, <2>1, <3>1, RouteLeadsNearer
  <2>5. ASSUME packet.drop \/ QueryRouteTable(h, packet.dst) = {}, Gone
        PROVE  packet.drop /\ packet' = NoPacket
    BY <1>1, <2>1, <2>5, RouteIsThere DEF Gone
  <2>. QED  BY <1>1, <2>1, <2>3, <2>4, <2>5 DEF HandleIPPacket, Passing
<1>2. IpInv /\ [IpNext]_allVars =>
        [Passing /\ packet' # packet /\ alive' = Hosts /\ Settled =>
           \/ packet.drop /\ packet' = NoPacket
           \/ /\ packet'.to = Host[packet'.dev]
              /\ Hops[packet'.to][packet.dst]
                   < Hops[Host[packet.dev]][packet.dst]]_allVars
  BY <1>1
<1>. QED  BY <1>2, IpCorrect, PTL DEF IpSpec, NearerEachHop
=============================================================================
