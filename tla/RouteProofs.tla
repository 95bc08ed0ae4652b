----------------------------- MODULE RouteProofs -----------------------------
(***************************************************************************)
(* What TLAPS proves of Route, for every network, distance limit and       *)
(* number of crashes, and for every order of broadcasts and updates.       *)
(***************************************************************************)
EXTENDS Route, FiniteSetTheorems, SequenceTheorems, WellFoundedInduction,
        TLAPS

\* What has to be known of the entries on their way to a table: those that
\* were heard, and those in the frames that wait.
HeardGood ==
  \A h \in Hosts : \A e \in tmp[h] :
    /\ e.dist > 0 /\ e.dist >= Hops[h][e.addr]
    /\ Host[e.dev] = h /\ e.via = Host[Wire[e.dev]]
SentGood ==
  \A d \in Devices : \A i \in 1 .. Len(net[d]) :
    /\ net[d][i].from = Host[Wire[d]]
    /\ \A e \in net[d][i].table : e.dist >= Hops[Host[Wire[d]]][e.addr]

RouteInv ==
  /\ online \in [Hosts -> SUBSET Entry] /\ tmp \in [Hosts -> SUBSET Entry]
  /\ net \in [Devices -> Seq(Burst)]
  /\ NeverTooShort /\ NextHopIsNeighbour /\ HeardGood /\ SentGood

\* A host's own addresses are at distance 0.
LEMMA DefaultsGood ==
  ASSUME NEW h \in Hosts
  PROVE  /\ Defaults(h) \subseteq Entry
         /\ \A e \in Defaults(h) :
              /\ e.dist = 0 /\ e.dist >= Hops[h][e.addr]
              /\ Host[e.dev] = h /\ e.via = h
BY RouteAssumption, HopsAssumption DEF Defaults, DevicesOf, Entry

LEMMA RouteInit == Init => RouteInv
BY DefaultsGood
DEF Init, RouteInv, NeverTooShort, NextHopIsNeighbour, HeardGood, SentGood

\* A step that leaves the tables as they are keeps what is said of them.
LEMMA TablesKept ==
  ASSUME RouteInv, UNCHANGED online
  PROVE  online' \in [Hosts -> SUBSET Entry] /\ (NeverTooShort /\ NextHopIsNeighbour)'
BY DEF RouteInv, NeverTooShort, NextHopIsNeighbour

\* broadcastRouteTable sends what the table holds.
LEMMA RouteBroadcast ==
  ASSUME RouteInv, NEW h \in Hosts, Broadcast(h)
  PROVE  RouteInv'
<1>. DEFINE burst == [from |-> h, table |-> online[h],
                      frames |-> Cardinality(DevicesOf(h))]
<1>1. UNCHANGED <<online, tmp>>
  BY DEF Broadcast
<1>2. ASSUME NEW d \in Devices, net'[d] # net[d]
      PROVE  burst \in Burst /\ net'[d] = Append(net[d], burst)
             /\ h = Host[Wire[d]]
  <2>1. net'[d] = Append(net[d], burst) /\ d \in {Wire[x] : x \in DevicesOf(h)}
    BY <1>2 DEF Broadcast
  <2>2. PICK x \in Devices : Host[x] = h /\ d = Wire[x]
    BY <2>1 DEF DevicesOf
  <2>3. h = Host[Wire[d]]
    BY <2>2, RouteAssumption
  <2>4. IsFiniteSet(DevicesOf(h)) /\ DevicesOf(h) # {}
    BY <2>2, RouteAssumption, FS_Subset DEF DevicesOf
  <2>5. Cardinality(DevicesOf(h)) \in Nat \ {0}
    BY <2>4, FS_CardinalityType, FS_EmptySet
  <2>6. burst \in Burst
    BY <2>5 DEF Burst, RouteInv
  <2>. QED  BY <2>1, <2>3, <2>6
<1>3. net' \in [Devices -> Seq(Burst)]
  <2>1. ASSUME NEW d \in Devices
        PROVE  net'[d] \in Seq(Burst)
    <3>1. net[d] \in Seq(Burst)
      BY DEF RouteInv
    <3>2. burst \in Burst => Append(net[d], burst) \in Seq(Burst)
      BY <3>1
    <3>. QED  BY <1>2, <3>1, <3>2
  <2>. QED  BY <2>1 DEF Broadcast
<1>4. SentGood'
  <2>. SUFFICES ASSUME NEW d \in Devices, NEW i \in 1 .. Len(net'[d])
                PROVE  /\ net'[d][i].from = Host[Wire[d]]
                       /\ \A e \in net'[d][i].table :
                            e.dist >= Hops[Host[Wire[d]]][e.addr]
    BY DEF SentGood
  <2>0. net[d] \in Seq(Burst)
    BY DEF RouteInv
  <2>1. CASE net'[d] = net[d]
    BY <2>1 DEF RouteInv, SentGood
  <2>2. CASE net'[d] # net[d] /\ i \in 1 .. Len(net[d])
    <3>1. net'[d][i] = net[d][i]
      BY <1>2, <2>0, <2>2
    <3>. QED  BY <2>2, <3>1 DEF RouteInv, SentGood
  <2>3. CASE net'[d] # net[d] /\ i \notin 1 .. Len(net[d])
    <3>1. net'[d][i] = burst /\ h = Host[Wire[d]]
      BY <1>2, <2>0, <2>3
    <3>. QED  BY <3>1 DEF RouteInv, NeverTooShort
  <2>. QED  BY <2>1, <2>2, <2>3
<1>. QED  BY <1>1, <1>3, <1>4, TablesKept DEF RouteInv, HeardGood

\* Taking a frame leaves in the queues only what was there.
LEMMA TakeGood ==
  ASSUME RouteInv, NEW d \in Devices, net[d] # <<>>, Take(d)
  PROVE  net' \in [Devices -> Seq(Burst)] /\ SentGood'
<1>0. net[d] \in Seq(Burst) /\ Head(net[d]) \in Burst /\ Tail(net[d]) \in Seq(Burst)
      /\ Head(net[d]) = net[d][1] /\ 1 \in 1 .. Len(net[d])
  BY DEF RouteInv
<1>. DEFINE less == [Head(net[d]) EXCEPT !.frames = Head(net[d]).frames - 1]
<1>1. CASE Head(net[d]).frames = 1
  <2>1. net' = [net EXCEPT ![d] = Tail(net[d])]
    BY <1>1 DEF Take
  <2>2. \A i \in 1 .. Len(Tail(net[d])) :
          Tail(net[d])[i] = net[d][i + 1] /\ i + 1 \in 1 .. Len(net[d])
    BY <1>0
  <2>. QED  BY <1>0, <2>1, <2>2 DEF RouteInv, SentGood
<1>2. CASE Head(net[d]).frames # 1
  <2>0. less \in Burst /\ less.from = Head(net[d]).from
        /\ less.table = Head(net[d]).table
    <3>1. PICK f \in Hosts, tab \in SUBSET Entry, n \in Nat \ {0} :
            Head(net[d]) = [from |-> f, table |-> tab, frames |-> n]
      BY <1>0 DEF Burst
    <3>2. n - 1 \in Nat \ {0}
      BY <1>2, <3>1
    <3>3. less = [from |-> f, table |-> tab, frames |-> n - 1]
      BY <3>1
    <3>. QED  BY <3>1, <3>2, <3>3 DEF Burst
  <2>1. net' = [net EXCEPT ![d] = <<less>> \o Tail(net[d])]
    BY <1>2 DEF Take
  <2>2. <<less>> \o Tail(net[d]) \in Seq(Burst)
    BY <1>0, <2>0
  <2>3. \A i \in 1 .. Len(<<less>> \o Tail(net[d])) :
          /\ i \in 1 .. Len(net[d])
          /\ (<<less>> \o Tail(net[d]))[i] = IF i = 1 THEN less ELSE net[d][i]
    BY <1>0
  <2>4. net'[d] = <<less>> \o Tail(net[d])
        /\ \A c \in Devices \ {d} : net'[c] = net[c]
    BY <2>1 DEF RouteInv
  <2>5. \A i \in 1 .. Len(net'[d]) :
          /\ i \in 1 .. Len(net[d])
          /\ net'[d][i].from = net[d][i].from
          /\ net'[d][i].table = net[d][i].table
    BY <1>0, <2>0, <2>3, <2>4
  <2>6. SentGood'
    <3>1. ASSUME NEW c \in Devices, NEW i \in 1 .. Len(net'[c])
          PROVE  /\ i \in 1 .. Len(net[c])
                 /\ net'[c][i].from = net[c][i].from
                 /\ net'[c][i].table = net[c][i].table
      BY <2>4, <2>5
    <3>2. SentGood
      BY DEF RouteInv
    <3>3. ASSUME NEW c \in Devices, NEW i \in 1 .. Len(net'[c])
          PROVE  /\ net'[c][i].from = Host[Wire[c]]
                 /\ \A x \in net'[c][i].table :
                      x.dist >= Hops[Host[Wire[c]]][x.addr]
      BY <3>1, <3>2 DEF SentGood
    <3>. QED  BY <3>3 DEF SentGood
  <2>7. net' \in [Devices -> Seq(Burst)]
    <3>1. net \in [Devices -> Seq(Burst)]
      BY DEF RouteInv
    <3>. HIDE DEF less
    <3>. QED  BY <2>1, <2>2, <3>1
  <2>. QED  BY <2>6, <2>7
<1>. QED  BY <1>1, <1>2

\* handleRouteTable adds the one wire the table came by.
LEMMA RouteHandle ==
  ASSUME RouteInv, NEW d \in Devices, HandleRouteTable(d)
  PROVE  RouteInv'
<1>. DEFINE h == Host[d]
            burst == Head(net[d])
<1>0. /\ net[d] # <<>> /\ Take(d) /\ UNCHANGED online /\ h \in Hosts
      /\ tmp' = [tmp EXCEPT ![h] =
                   tmp[h] \cup {Learned(e, d, burst.from) : e \in burst.table}]
  BY RouteAssumption DEF HandleRouteTable, RouteInv
<1>1. burst \in Burst /\ burst = net[d][1] /\ 1 \in 1 .. Len(net[d])
  BY <1>0 DEF RouteInv
<1>2. ASSUME NEW e \in burst.table
      PROVE  LET l == Learned(e, d, burst.from) IN
             /\ l \in Entry
             /\ l.dist > 0 /\ l.dist >= Hops[h][l.addr]
             /\ Host[l.dev] = h /\ l.via = Host[Wire[l.dev]]
  <2>1. e \in Entry /\ burst.from \in Hosts
    BY <1>1 DEF Burst
  <2>2. burst.from = Host[Wire[d]] /\ e.dist >= Hops[Host[Wire[d]]][e.addr]
    BY <1>1 DEF RouteInv, SentGood
  <2>3. /\ Hops[h][e.addr] <= Hops[Host[Wire[d]]][e.addr] + 1
        /\ Hops[h][e.addr] \in Nat /\ Hops[Host[Wire[d]]][e.addr] \in Nat
    BY <2>1, <1>0, RouteAssumption, HopsAssumption DEF Entry
  <2>4. Learned(e, d, burst.from) =
          [addr |-> e.addr, dist |-> e.dist + 1, dev |-> d, via |-> burst.from]
    BY DEF Learned
  <2>. QED  BY <2>1, <2>2, <2>3, <2>4 DEF Entry
<1>3. tmp' \in [Hosts -> SUBSET Entry] /\ HeardGood'
  BY <1>0, <1>2 DEF RouteInv, HeardGood
<1>. QED  BY <1>0, <1>3, TablesKept, TakeGood DEF RouteInv

\* updateRouteTable keeps some of what was heard and of the own addresses.
LEMMA RouteUpdate ==
  ASSUME RouteInv, NEW h \in Hosts, Update(h)
  PROVE  RouteInv'
<1>1. PICK unique \in OneEach(Nearest(tmp[h] \cup Defaults(h))) :
        online' = [online EXCEPT ![h] = Kept(unique)]
  BY DEF Update
<1>2. Kept(unique) \subseteq tmp[h] \cup Defaults(h)
  BY <1>1 DEF OneEach, Nearest, Kept
<1>3. \A e \in Kept(unique) :
        /\ e \in Entry /\ e.dist >= Hops[h][e.addr] /\ Host[e.dev] = h
        /\ e.via = IF e.dist = 0 THEN h ELSE Host[Wire[e.dev]]
  BY <1>2, DefaultsGood DEF RouteInv, HeardGood
<1>4. /\ online' \in [Hosts -> SUBSET Entry]
      /\ (NeverTooShort /\ NextHopIsNeighbour)'
  BY <1>1, <1>3 DEF RouteInv, NeverTooShort, NextHopIsNeighbour
<1>5. tmp' = [tmp EXCEPT ![h] = {}] /\ UNCHANGED net
  BY DEF Update
<1>6. tmp' \in [Hosts -> SUBSET Entry] /\ HeardGood' /\ SentGood'
  BY <1>5 DEF RouteInv, HeardGood, SentGood
<1>. QED  BY <1>4, <1>5, <1>6 DEF RouteInv

\* So do the steps that end a process and start it.
LEMMA RouteCrash ==
  ASSUME RouteInv, NEW h \in Hosts, Crash(h) \/ Restart(h)
  PROVE  RouteInv'
<1>1. CASE Crash(h)
  <2>1. /\ online' = [online EXCEPT ![h] = {}] /\ tmp' = [tmp EXCEPT ![h] = {}]
        /\ net' = [d \in Devices |-> IF Host[d] = h THEN <<>> ELSE net[d]]
    BY <1>1 DEF Crash
  <2>2. net' \in [Devices -> Seq(Burst)] /\ SentGood'
    BY <2>1 DEF RouteInv, SentGood
  <2>. QED  BY <2>1, <2>2 DEF RouteInv, NeverTooShort, NextHopIsNeighbour, HeardGood
<1>2. CASE Restart(h)
  <2>1. /\ online' = [online EXCEPT ![h] = Defaults(h)] /\ UNCHANGED <<tmp, net>>
    BY <1>2 DEF Restart
  <2>2. /\ online' \in [Hosts -> SUBSET Entry]
        /\ (NeverTooShort /\ NextHopIsNeighbour)'
    BY <2>1, DefaultsGood DEF RouteInv, NeverTooShort, NextHopIsNeighbour
  <2>. QED  BY <2>1, <2>2 DEF RouteInv, HeardGood, SentGood
<1>. QED  BY <1>1, <1>2

LEMMA RouteStep == RouteInv /\ [Next]_vars => RouteInv'
<1>. SUFFICES ASSUME RouteInv, [Next]_vars PROVE RouteInv'
  OBVIOUS
<1>1. ASSUME NEW h \in Hosts, Broadcast(h) \/ Update(h) \/ Crash(h) \/ Restart(h)
      PROVE  RouteInv'
  BY <1>1, RouteBroadcast, RouteUpdate, RouteCrash
<1>2. ASSUME NEW d \in Devices, HandleRouteTable(d)
      PROVE  RouteInv'
  BY <1>2, RouteHandle
<1>3. ASSUME NEW d \in Devices, Lose(d)
      PROVE  RouteInv'
  <2>1. net[d] # <<>> /\ Take(d) /\ UNCHANGED <<online, tmp>>
    BY <1>3 DEF Lose
  <2>. QED  BY <2>1, TablesKept, TakeGood DEF RouteInv, HeardGood
<1>4. CASE UNCHANGED vars
  BY <1>4 DEF vars, RouteInv, NeverTooShort, NextHopIsNeighbour, HeardGood, SentGood
<1>. QED  BY <1>1, <1>2, <1>3, <1>4 DEF Next

\* No table ever calls an address nearer than it is, for every network, however
\* old the tables that come in, whatever is lost and whichever hosts are killed:
\* each table says so because the tables it was made from did.
THEOREM DistancesHonest == Spec => []NeverTooShort
<1>1. RouteInv => NeverTooShort
  BY DEF RouteInv
<1>. QED  BY <1>1, RouteInit, RouteStep, PTL DEF Spec

\* Every entry sends to the host at the other end of the wire it sends by.
THEOREM NextHopRight == Spec => []NextHopIsNeighbour
<1>1. RouteInv => NextHopIsNeighbour
  BY DEF RouteInv
<1>. QED  BY <1>1, RouteInit, RouteStep, PTL DEF Spec

-----------------------------------------------------------------------------
\* The types, and that a host's own addresses are never lost or taken over.

HeardDevices == heard \in [Hosts -> SUBSET Devices]
TableInv == RouteInv /\ TypeOK /\ OwnAddresses /\ HeardDevices

Bounded(h) ==
  /\ \A e \in online[h] : e.dist <= MaxDist
  /\ \A e, f \in online[h] : e.addr = f.addr => e = f
Own(h) == {e \in online[h] : e.dist = 0 \/ Host[e.addr] = h} = Defaults(h)

LEMMA TableInvParts ==
  TableInv <=> /\ RouteInv /\ HeardDevices /\ alive \in SUBSET Hosts
               /\ crashes \in 0 .. MaxCrash
               /\ \A h \in Hosts : Bounded(h)
               /\ \A h \in alive : Own(h)
BY DEF TableInv, RouteInv, TypeOK, OwnAddresses, HeardDevices, Bounded, Own

COROLLARY TablePrimed ==
  ASSUME RouteInv', HeardDevices', (alive \in SUBSET Hosts)',
         (crashes \in 0 .. MaxCrash)',
         \A h \in Hosts : Bounded(h)' /\ (h \in alive' => Own(h)')
  PROVE  TableInv'
BY DEF TableInv, RouteInv, TypeOK, OwnAddresses, HeardDevices, Bounded, Own

\* A table of the host's own addresses.
LEMMA DefaultsOwn ==
  ASSUME NEW h \in Hosts
  PROVE  /\ \A e, f \in Defaults(h) : e.addr = f.addr => e = f
         /\ \A e \in Defaults(h) : /\ e.dist = 0 /\ e.dist <= MaxDist
                                   /\ Host[e.addr] = h
         /\ {e \in Defaults(h) : e.dist = 0 \/ Host[e.addr] = h} = Defaults(h)
         /\ \A a \in Devices : Host[a] = h => \E e \in Defaults(h) : e.addr = a
<1>1. \A e \in Defaults(h) : e.dist = 0 /\ e.addr \in Devices /\ Host[e.addr] = h
                            /\ e = [addr |-> e.addr, dist |-> 0, dev |-> e.addr, via |-> h]
  BY DEF Defaults, DevicesOf
<1>2. \A a \in Devices : Host[a] = h =>
        [addr |-> a, dist |-> 0, dev |-> a, via |-> h] \in Defaults(h)
  BY DEF Defaults, DevicesOf
<1>3. \A e, f \in Defaults(h) : e.addr = f.addr => e = f
  BY <1>1
<1>4. \A e \in Defaults(h) : e.dist <= MaxDist
  BY <1>1, RouteAssumption
<1>5. {e \in Defaults(h) : e.dist = 0 \/ Host[e.addr] = h} = Defaults(h)
  BY <1>1
<1>6. \A a \in Devices : Host[a] = h => \E e \in Defaults(h) : e.addr = a
  <2>. TAKE a \in Devices
  <2>. DEFINE e == [addr |-> a, dist |-> 0, dev |-> a, via |-> h]
  <2>. QED  BY <1>2, e.addr = a
<1>. QED  BY <1>1, <1>3, <1>4, <1>5, <1>6

LEMMA TableInit == Init => TableInv
<1>. SUFFICES ASSUME Init PROVE TableInv
  OBVIOUS
<1>1. \A h \in Hosts : Bounded(h) /\ Own(h)
  BY DefaultsOwn DEF Init, Bounded, Own
<1>2. HeardDevices
  BY DEF Init, HeardDevices
<1>. QED  BY <1>1, <1>2, RouteInit, RouteAssumption, TableInvParts DEF Init

\* Whatever was heard, the table that is made from it holds the own addresses at
\* distance 0, no other entry for one of them, and one entry for an address.
LEMMA MadeAnew ==
  ASSUME TableInv, NEW h \in Hosts,
         NEW unique \in OneEach(Nearest(tmp[h] \cup Defaults(h)))
  PROVE  /\ \A e \in Kept(unique) : e.dist <= MaxDist
         /\ \A e, f \in Kept(unique) : e.addr = f.addr => e = f
         /\ {e \in Kept(unique) : e.dist = 0 \/ Host[e.addr] = h} = Defaults(h)
<1>. DEFINE all == tmp[h] \cup Defaults(h)
<1>1. \A e \in all : e \in Entry /\ e.dist \in Nat /\ (e.dist = 0 => e \in Defaults(h))
  BY DefaultsGood DEF TableInv, RouteInv, HeardGood, Entry
<1>2. unique \subseteq Nearest(all)
      /\ \A e, f \in unique : e.addr = f.addr => e = f
  BY DEF OneEach
<1>2a. \A e \in Nearest(all) : \E f \in unique : f.addr = e.addr
  BY DEF OneEach
<1>3. \A e \in Nearest(all) : Host[e.addr] = h => e \in Defaults(h)
  <2>. SUFFICES ASSUME NEW e \in Nearest(all), Host[e.addr] = h
                PROVE  e \in Defaults(h)
    OBVIOUS
  <2>1. e \in all /\ e.addr \in Devices
    BY <1>1 DEF Nearest, Entry
  <2>2. PICK f \in Defaults(h) : f.addr = e.addr
    BY <2>1, DefaultsOwn
  <2>3. e.dist <= f.dist /\ f.dist = 0
    BY <2>2, DefaultsOwn DEF Nearest
  <2>. QED  BY <1>1, <2>1, <2>3
<1>4. Defaults(h) \subseteq unique
  <2>. SUFFICES ASSUME NEW e \in Defaults(h) PROVE e \in unique
    OBVIOUS
  <2>1. e \in Nearest(all)
    BY <1>1, DefaultsOwn DEF Nearest
  <2>2. PICK f \in unique : f.addr = e.addr
    BY <1>2a, <2>1
  <2>3. Host[f.addr] = h
    BY <2>2, DefaultsOwn
  <2>4. f \in Defaults(h)
    <3>1. f \in Nearest(all)
      BY <1>2, <2>2
    <3>. HIDE DEF all
    <3>. QED  BY <1>3, <2>3, <3>1
  <2>5. e = f
    BY <2>2, <2>4, DefaultsOwn
  <2>. QED  BY <2>2, <2>5
<1>5. \A e : e \in Kept(unique) <=> e \in unique /\ e.dist <= MaxDist
  BY DEF Kept
<1>6. ASSUME NEW e \in Kept(unique), e.dist = 0 \/ Host[e.addr] = h
      PROVE  e \in Defaults(h)
  BY <1>1, <1>2, <1>3, <1>5, <1>6 DEF Nearest
<1>7. \A e \in Defaults(h) : e \in Kept(unique) /\ e.dist = 0
  BY <1>4, <1>5, DefaultsOwn
<1>. QED  BY <1>2, <1>5, <1>6, <1>7

LEMMA TableStep == TableInv /\ [Next]_vars => TableInv'
<1>. SUFFICES ASSUME TableInv, [Next]_vars PROVE TableInv'
  OBVIOUS
<1>0. RouteInv' /\ RouteInv
  BY RouteStep DEF TableInv
<1>a. /\ HeardDevices /\ alive \in SUBSET Hosts /\ crashes \in 0 .. MaxCrash
      /\ \A h \in Hosts : Bounded(h)
      /\ \A h \in alive : Own(h)
      /\ online \in [Hosts -> SUBSET Entry]
  BY <1>0, TableInvParts DEF RouteInv
\* What holds of a table does while the table stays as it is.
<1>b. ASSUME NEW h \in Hosts, online'[h] = online[h], h \in alive' => h \in alive
      PROVE  Bounded(h)' /\ (h \in alive' => Own(h)')
  BY <1>a, <1>b DEF Bounded, Own, Defaults, DevicesOf
<1>1. ASSUME UNCHANGED <<online, alive, crashes>>, HeardDevices'
      PROVE  TableInv'
  BY <1>0, <1>1, <1>a, <1>b, TablePrimed
<1>2. ASSUME NEW h \in Hosts, Broadcast(h)
      PROVE  TableInv'
  BY <1>1, <1>2, <1>a DEF Broadcast, HeardDevices
<1>3. ASSUME NEW d \in Devices, HandleRouteTable(d) \/ Lose(d)
      PROVE  TableInv'
  <2>1. UNCHANGED <<online, alive, crashes>>
        /\ (heard' = heard \/ heard' = [heard EXCEPT ![Host[d]] = @ \cup {d}])
    BY <1>3 DEF HandleRouteTable, Lose
  <2>2. HeardDevices'
    BY <2>1, <1>a DEF HeardDevices
  <2>. QED  BY <1>1, <2>1, <2>2
<1>4. ASSUME NEW h \in Hosts, Update(h)
      PROVE  TableInv'
  <2>1. PICK unique \in OneEach(Nearest(tmp[h] \cup Defaults(h))) :
          online' = [online EXCEPT ![h] = Kept(unique)]
    BY <1>4 DEF Update
  <2>2. /\ h \in alive /\ UNCHANGED <<alive, crashes>>
        /\ heard' = [heard EXCEPT ![h] = {}]
    BY <1>4 DEF Update
  <2>3. online'[h] = Kept(unique) /\ \A g \in Hosts \ {h} : online'[g] = online[g]
    BY <1>a, <2>1
  <2>4. Bounded(h)' /\ Own(h)'
    BY <2>3, MadeAnew DEF Bounded, Own, Defaults, DevicesOf
  <2>5. \A g \in Hosts \ {h} : Bounded(g)' /\ (g \in alive' => Own(g)')
    BY <2>2, <2>3, <1>b
  <2>6. HeardDevices'
    BY <2>2, <1>a DEF HeardDevices
  <2>. QED  BY <1>0, <1>a, <2>2, <2>4, <2>5, <2>6, TablePrimed
<1>5. ASSUME NEW h \in Hosts, Crash(h)
      PROVE  TableInv'
  <2>1. /\ online' = [online EXCEPT ![h] = {}] /\ heard' = [heard EXCEPT ![h] = {}]
        /\ alive' = alive \ {h} /\ crashes' = crashes + 1 /\ crashes < MaxCrash
    BY <1>5 DEF Crash
  <2>2. Bounded(h)' /\ h \notin alive'
    BY <1>a, <2>1 DEF Bounded
  <2>3. \A g \in Hosts \ {h} : Bounded(g)' /\ (g \in alive' => Own(g)')
    BY <1>a, <2>1, <1>b
  <2>4. HeardDevices' /\ crashes' \in 0 .. MaxCrash /\ alive' \in SUBSET Hosts
    BY <2>1, <1>a, RouteAssumption DEF HeardDevices
  <2>. QED  BY <1>0, <2>2, <2>3, <2>4, TablePrimed
<1>6. ASSUME NEW h \in Hosts, Restart(h)
      PROVE  TableInv'
  <2>1. /\ online' = [online EXCEPT ![h] = Defaults(h)] /\ UNCHANGED <<heard, crashes>>
        /\ alive' = alive \cup {h}
    BY <1>6 DEF Restart
  <2>2. online'[h] = Defaults(h) /\ \A g \in Hosts \ {h} : online'[g] = online[g]
    BY <1>a, <2>1
  <2>3. Bounded(h)' /\ Own(h)'
    BY <2>2, DefaultsOwn DEF Bounded, Own, Defaults, DevicesOf
  <2>4. \A g \in Hosts \ {h} : Bounded(g)' /\ (g \in alive' => Own(g)')
    BY <2>1, <2>2, <1>b
  <2>5. HeardDevices' /\ crashes' \in 0 .. MaxCrash /\ alive' \in SUBSET Hosts
    BY <2>1, <1>a DEF HeardDevices
  <2>. QED  BY <1>0, <2>3, <2>4, <2>5, TablePrimed
<1>7. CASE UNCHANGED vars
  BY <1>7, <1>1, <1>a DEF vars, HeardDevices
<1>. QED  BY <1>2, <1>3, <1>4, <1>5, <1>6, <1>7 DEF Next

\* Whatever comes in and whoever is killed, tables hold well-formed entries, one
\* for each address and none beyond the limit: removeDuplicates leaves no other.
THEOREM TypeCorrect == Spec => []TypeOK
<1>1. TableInv => TypeOK
  BY DEF TableInv
<1>. QED  BY <1>1, TableInit, TableStep, PTL DEF Spec

\* A host never loses one of its own addresses from its table, and never takes
\* a neighbour's way to one of them for its own.
THEOREM OwnKept == Spec => []OwnAddresses
<1>1. TableInv => OwnAddresses
  BY DEF TableInv
<1>. QED  BY <1>1, TableInit, TableStep, PTL DEF Spec

-----------------------------------------------------------------------------
(* Tables that agree.  What is said of all distances goes from each to the *)
(* next: of the distances it fails for there would be a least one.         *)

LEMMA Least ==
  ASSUME NEW T \in SUBSET Nat, T # {}
  PROVE  \E x \in T : \A y \in T : x <= y
<1>1. PICK n \in T : TRUE
  OBVIOUS
<1>. DEFINE S == 0 .. n
            U == {0 .. k : k \in {m \in T : m <= n}}
<1>2. IsWellFoundedOn(StrictSubsetOrdering(S), SUBSET S)
  <2>1. IsFiniteSet(S)
    BY <1>1, FS_Interval
  <2>. HIDE DEF S
  <2>2. FiniteSubsetsOf(S) = SUBSET S
    BY <2>1, FS_FiniteSubsetsOfFinite
  <2>. QED  BY <2>2, FS_StrictSubsetOrderingWellFounded
<1>3. U \subseteq SUBSET S /\ 0 .. n \in U
  BY <1>1
<1>4. PICK u \in U : \A v \in U : ~(<<v, u>> \in StrictSubsetOrdering(S))
  <2>. HIDE DEF U, S
  <2>1. U \subseteq SUBSET S /\ U # {}
    BY <1>3
  <2>. QED  BY <1>2, <2>1, WFMin
<1>5. PICK x \in T : x <= n /\ u = 0 .. x
  BY <1>4
<1>6. ASSUME NEW y \in T, y < x PROVE FALSE
  <2>1. 0 .. y \in U
    BY <1>1, <1>5, <1>6
  <2>2. 0 .. y \subseteq u /\ x \in u /\ x \notin 0 .. y
    BY <1>5, <1>6
  <2>3. <<0 .. y, u>> \in StrictSubsetOrdering(S)
    BY <1>3, <1>4, <2>1, <2>2 DEF StrictSubsetOrdering
  <2>. QED  BY <1>4, <2>1, <2>3
<1>. QED  BY <1>6

\* A host at the true distance n + 1 has a neighbour at n, which offers n + 1.
LEMMA NextOffer ==
  ASSUME TableInv, HopsExact, Agree, alive = Hosts,
         NEW h \in Hosts, NEW a \in Devices, Host[a] # h,
         \A g \in Hosts : Hops[g][a] < Hops[h][a] => Hops[g][a] \in DistsTo(g, a)
  PROVE  Hops[h][a] \in DistsTo(h, a)
<1>1. PICK d \in DevicesOf(h) : Hops[Host[Wire[d]]][a] = Hops[h][a] - 1
  BY DEF HopsExact
<1>2. PICK g \in Hosts : g = Host[Wire[d]] /\ g \in Neighbours(h)
  BY <1>1, RouteAssumption DEF Neighbours, DevicesOf
<1>3. Hops[h][a] \in Nat /\ Hops[g][a] \in Nat /\ MaxDist \in Nat
      /\ Hops[h][a] <= MaxDist
  BY RouteAssumption, HopsAssumption DEF HopsExact
<1>4. Hops[g][a] \in DistsTo(g, a) /\ Hops[g][a] + 1 = Hops[h][a]
  BY <1>1, <1>2, <1>3
<1>. DEFINE offers == {n + 1 : n \in UNION {DistsTo(f, a) : f \in Neighbours(h)}}
                        \cap 0 .. MaxDist
<1>5. DistsTo(h, a) = {n \in offers : \A k \in offers : n <= k}
  <2>. HIDE DEF offers
  <2>1. a \in Devices \ DevicesOf(h)
    BY DEF DevicesOf
  <2>. QED  BY <2>1 DEF Agree, offers
<1>6. Hops[h][a] \in offers
  BY <1>2, <1>3, <1>4
<1>7. \A k \in offers : k \in Nat
  OBVIOUS
<1>8. PICK n \in offers : \A k \in offers : n <= k
  <2>. HIDE DEF offers
  <2>. QED  BY <1>6, <1>7, Least
<1>9. n \in DistsTo(h, a) /\ n <= Hops[h][a]
  <2>. HIDE DEF offers
  <2>. QED  BY <1>5, <1>6, <1>8
<1>10. PICK e \in online[h] : e.addr = a /\ e.dist = n
  BY <1>9 DEF DistsTo
<1>11. n >= Hops[h][a]
  BY <1>10 DEF TableInv, RouteInv, NeverTooShort
<1>12. n \in Nat
  <2>. HIDE DEF offers
  <2>. QED  BY <1>7, <1>8
<1>. QED  BY <1>3, <1>9, <1>11, <1>12

LEMMA AgreedTables ==
  ASSUME HopsExact, TableInv
  PROVE  AgreedIsShortest
<1>. SUFFICES ASSUME Agree, alive = Hosts, NEW a \in Devices
              PROVE  \A h \in Hosts : DistsTo(h, a) = {Hops[h][a]}
  BY DEF AgreedIsShortest
<1>. DEFINE T == {n \in Nat : \E h \in Hosts : /\ Hops[h][a] = n
                                             /\ n \notin DistsTo(h, a)}
<1>1. ASSUME T # {} PROVE FALSE
  <2>1. PICK x \in T : \A y \in T : x <= y
    <3>. HIDE DEF T
    <3>1. T \in SUBSET Nat
      BY DEF T
    <3>. QED  BY <1>1, <3>1, Least
  <2>2. PICK h \in Hosts : Hops[h][a] = x /\ x \notin DistsTo(h, a)
    BY <2>1
  <2>3. \A g \in Hosts : Hops[g][a] \in Nat
    BY HopsAssumption
  <2>4. \A g \in Hosts : Hops[g][a] < Hops[h][a] => Hops[g][a] \in DistsTo(g, a)
    BY <2>1, <2>2, <2>3
  <2>5. CASE Host[a] = h
    <3>1. PICK e \in Defaults(h) : e.addr = a /\ e.dist = 0
      BY <2>5, DefaultsOwn
    <3>2. e \in online[h]
      BY DEF TableInv, OwnAddresses
    <3>3. Hops[h][a] = 0
      BY <2>5, HopsAssumption
    <3>. QED  BY <2>2, <3>1, <3>2, <3>3 DEF DistsTo
  <2>6. CASE Host[a] # h
    <3>1. Hops[h][a] \in DistsTo(h, a)
      BY <2>4, <2>6, NextOffer
    <3>. QED  BY <2>2, <3>1
  <2>. QED  BY <2>5, <2>6
<1>2. \A h \in Hosts : Hops[h][a] \in DistsTo(h, a)
  BY <1>1, HopsAssumption
<1>3. \A h \in Hosts : \A e, f \in online[h] : e.addr = f.addr => e = f
  BY DEF TableInv, TypeOK
<1>. QED  BY <1>2, <1>3 DEF DistsTo

\* When the tables have come to agree they are those of the network: the address
\* of every host is in every table, with the number of wires there are to it.
THEOREM AgreementIsRight ==
  ASSUME HopsExact
  PROVE  Spec => []AgreedIsShortest
BY AgreedTables, TableInit, TableStep, PTL DEF Spec
=============================================================================
