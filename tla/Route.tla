-------------------------------- MODULE Route --------------------------------
(***************************************************************************)
(* Automatic routing (network/route.c): every host broadcasts its table of *)
(* distances through all of its devices once a second, collects the tables *)
(* it hears, and makes its own anew from them every 2.5 seconds.           *)
(*                                                                         *)
(* A device stands for its IP address.  A MAC address is known by its      *)
(* host: handleFrame takes a frame for any of the host's devices, whatever *)
(* wire it comes by.  A wire joins two devices, as the veth pairs of       *)
(* vnetUtils do.  A table is a set of entries; automatic entries all have  *)
(* the mask 255.255.255.255, which is left out.  The two timers are left   *)
(* to fire at any time, except in TimelySpec.  A host may be killed and    *)
(* started again.                                                          *)
(***************************************************************************)
EXTENDS Integers, Sequences, FiniteSets

CONSTANTS
  Hosts, Devices,
  Host,       \* Host[d]: the host device d belongs to
  Wire,       \* Wire[d]: the device at the other end of d's wire
  Hops,       \* Hops[h][a]: the least number of wires from h to address a
  MaxDist,    \* the largest distance removeDuplicates() keeps (20)
  MaxQueue,   \* bound: bursts of frames waiting at a device
  MaxBusy,    \* bound: devices with frames waiting when a host broadcasts
  Mortal,     \* bound: the hosts that may be killed
  MaxCrash    \* bound: how often one is

ASSUME RouteAssumption ==
  /\ IsFiniteSet(Devices)
  /\ Host \in [Devices -> Hosts]
  /\ Wire \in [Devices -> Devices]
  /\ \A d \in Devices : Wire[Wire[d]] = d
  /\ Mortal \subseteq Hosts
  /\ MaxDist \in Nat /\ MaxQueue \in Nat /\ MaxBusy \in Nat /\ MaxCrash \in Nat

\* What is needed of Hops: an address is at its host, one wire is one hop.
ASSUME HopsAssumption ==
  /\ Hops \in [Hosts -> [Devices -> Nat]]
  /\ \A a \in Devices : Hops[Host[a]][a] = 0
  /\ \A a, d \in Devices : Hops[Host[d]][a] <= Hops[Host[Wire[d]]][a] + 1

VARIABLES
  alive,    \* the hosts whose process runs
  online,   \* online[h]: onlineRouteTable
  tmp,      \* tmp[h]: tmpRouteTable, what was heard since the last update
  heard,    \* heard[h]: the devices a table came in by since then
  net,      \* net[d]: the bursts of frames waiting at d, oldest first
  crashes   \* how many times a host has been killed

vars == <<alive, online, tmp, heard, net, crashes>>

DevicesOf(h) == {d \in Devices : Host[d] = h}

\* A RouteEntry: the address, how far it is, the device to send by and the
\* host whose MAC address to send to.
Entry == [addr : Devices, dist : Nat, dev : Devices, via : Hosts]

\* One broadcast on one wire: the sender's MAC address, its table, and how
\* many of the frames that carry it are still to come.
Burst == [from : Hosts, table : SUBSET Entry, frames : Nat \ {0}]

\* Mutant of Defaults: the walk begins behind the first device.
DefaultsButFirst(h) ==
  {[addr |-> d, dist |-> 0, dev |-> d, via |-> h] :
     d \in DevicesOf(h) \ {CHOOSE d \in DevicesOf(h) : TRUE}}

\* addDefaultRouteTable: the host's own addresses.
Defaults(h) ==
  {[addr |-> d, dist |-> 0, dev |-> d, via |-> h] : d \in DevicesOf(h)}

Init ==
  /\ alive = Hosts
  /\ online = [h \in Hosts |-> Defaults(h)]
  /\ tmp = [h \in Hosts |-> {}]
  /\ heard = [h \in Hosts |-> {}]
  /\ net = [d \in Devices |-> <<>>]
  /\ crashes = 0

\* broadcastRouteTable: a frame for each device, with its MAC address, and
\* sendIPPacket puts each of them on every wire.  A dead host hears nothing.
Broadcast(h) ==
  LET reached == {Wire[d] : d \in DevicesOf(h)} IN
  /\ h \in alive
  /\ \A d \in reached : Len(net[d]) < MaxQueue
  /\ Cardinality({d \in Devices : net[d] # <<>>}) <= MaxBusy
  /\ net' = [d \in Devices |->
               IF d \in reached /\ Host[d] \in alive
               THEN Append(net[d], [from |-> h, table |-> online[h],
                                    frames |-> Cardinality(DevicesOf(h))])
               ELSE net[d]]
  /\ UNCHANGED <<alive, online, tmp, heard, crashes>>

\* Mutants of Learned: the distance is taken over; the MAC address is.
LearnedSameDist(e, d, from) == [e EXCEPT !.dev = d, !.via = from]
LearnedSameVia(e, d, from) == [e EXCEPT !.dist = @ + 1, !.dev = d]

\* What handleRouteTable makes of an entry heard by device d.
Learned(e, d, from) ==
  [addr |-> e.addr, dist |-> e.dist + 1, dev |-> d, via |-> from]

\* The first frame waiting at d is taken.
Take(d) ==
  LET burst == Head(net[d])
      rest  == [burst EXCEPT !.frames = burst.frames - 1]
  IN net' = [net EXCEPT ![d] = IF burst.frames = 1 THEN Tail(@)
                               ELSE <<rest>> \o Tail(@)]

\* handleRouteTable.
HandleRouteTable(d) ==
  LET h == Host[d]  burst == Head(net[d]) IN
  /\ net[d] # <<>>
  /\ Take(d)
  /\ tmp' = [tmp EXCEPT ![h] =
               @ \cup {Learned(e, d, burst.from) : e \in burst.table}]
  /\ heard' = [heard EXCEPT ![h] = @ \cup {d}]
  /\ UNCHANGED <<alive, online, crashes>>

\* Mutants of Nearest and Kept: an entry is kept whatever its distance.
NearestAny(entries) == {e \in entries : e.dist \in Nat}
KeptFar(entries) == {e \in entries : e.dist \in Nat}

\* removeDuplicates: the entries of the least distance for their address, of
\* which one is kept, the first after qsort(), which orders equals as it
\* likes; and no address is kept that is too far.
Nearest(entries) ==
  {e \in entries : \A f \in entries : f.addr = e.addr => e.dist <= f.dist}
OneEach(entries) ==
  {kept \in SUBSET entries :
     /\ \A e \in entries : \E f \in kept : f.addr = e.addr
     /\ \A e, f \in kept : e.addr = f.addr => e = f}
Kept(entries) == {e \in entries : e.dist <= MaxDist}

\* updateRouteTable: the table is made anew, the old one forgotten.
Update(h) ==
  /\ h \in alive
  /\ \E unique \in OneEach(Nearest(tmp[h] \cup Defaults(h))) :
       online' = [online EXCEPT ![h] = Kept(unique)]
  /\ tmp' = [tmp EXCEPT ![h] = {}]
  /\ heard' = [heard EXCEPT ![h] = {}]
  /\ UNCHANGED <<alive, net, crashes>>

\* A frame is lost: the capture buffer of the device was full.
Lose(d) ==
  /\ net[d] # <<>>
  /\ Take(d)
  /\ UNCHANGED <<alive, online, tmp, heard, crashes>>

\* The process is killed (checkpoints 4 and 5 do) and its state with it.
Crash(h) ==
  /\ h \in alive \cap Mortal /\ crashes < MaxCrash
  /\ crashes' = crashes + 1
  /\ alive' = alive \ {h}
  /\ online' = [online EXCEPT ![h] = {}]
  /\ tmp' = [tmp EXCEPT ![h] = {}]
  /\ heard' = [heard EXCEPT ![h] = {}]
  /\ net' = [d \in Devices |-> IF Host[d] = h THEN <<>> ELSE net[d]]

\* It starts again: initRouteTable.
Restart(h) ==
  /\ h \in Hosts \ alive
  /\ alive' = alive \cup {h}
  /\ online' = [online EXCEPT ![h] = Defaults(h)]
  /\ UNCHANGED <<tmp, heard, net, crashes>>

Next ==
  \/ \E h \in Hosts : Broadcast(h) \/ Update(h) \/ Crash(h) \/ Restart(h)
  \/ \E d \in Devices : HandleRouteTable(d) \/ Lose(d)

Spec == Init /\ [][Next]_vars

-----------------------------------------------------------------------------
\* The timers as they are set.  They count seconds and a turn of the loop thread
\* takes microseconds: the frames of one broadcast have been taken when the next
\* timer fires.  And the 2.5 seconds from one update to the next are time
\* enough for a broadcast of each neighbour, which comes every second.
Quiet == \A d \in Devices : net[d] = <<>>
BroadcastOnTime(h) == Quiet /\ Broadcast(h)
UpdateOnTime(h) ==
  /\ Quiet
  /\ \A d \in DevicesOf(h) : Host[Wire[d]] \in alive => d \in heard[h]
  /\ Update(h)

TimelyNext ==
  \/ \E h \in Hosts : \/ BroadcastOnTime(h) \/ UpdateOnTime(h)
                      \/ Crash(h) \/ Restart(h)
  \/ \E d \in Devices : HandleRouteTable(d)

\* The loop thread of a host comes back to every device and to both tasks: a
\* timer that is due whenever the network is quiet fires.
TimelySpec ==
  /\ Init /\ [][TimelyNext]_vars
  /\ \A h \in Hosts : SF_vars(BroadcastOnTime(h)) /\ SF_vars(UpdateOnTime(h))
  /\ \A d \in Devices : WF_vars(HandleRouteTable(d))

-----------------------------------------------------------------------------
(* Properties.                                                             *)

\* Tables hold well-formed entries no farther than the limit, one for each
\* address.
TypeOK ==
  /\ alive \in SUBSET Hosts
  /\ \A h \in Hosts :
       /\ online[h] \subseteq Entry /\ tmp[h] \subseteq Entry
       /\ \A e \in online[h] : e.dist <= MaxDist
       /\ \A e, f \in online[h] : e.addr = f.addr => e = f
       /\ heard[h] \in SUBSET Devices
  /\ \A d \in Devices : net[d] \in Seq(Burst)
  /\ crashes \in 0 .. MaxCrash

\* However stale the tables that come in and whichever hosts are killed, no
\* table says of an address that it is nearer than the wires allow.
NeverTooShort ==
  \A h \in Hosts : \A e \in online[h] : e.dist >= Hops[h][e.addr]

\* A frame sent as an entry says reaches the host of the MAC address: it goes
\* out by a wire of this host, and the other end is at that very host.
NextHopIsNeighbour ==
  \A h \in Hosts : \A e \in online[h] :
    /\ Host[e.dev] = h
    /\ e.via = IF e.dist = 0 THEN h ELSE Host[Wire[e.dev]]

\* What a host holds at distance 0 is its own addresses, all of them, even
\* when its neighbours tell it of a way to them.
OwnAddresses ==
  \A h \in alive : {e \in online[h] : e.dist = 0 \/ Host[e.addr] = h}
                     = Defaults(h)

DistsTo(h, a) == {e.dist : e \in {f \in online[h] : f.addr = a}}
Neighbours(h) == {g \in alive : \E d \in DevicesOf(h) : Host[Wire[d]] = g}

\* The tables agree: a live host has an address that is not its own at one
\* hop more than the nearest of its live neighbours, if that is within the
\* limit, and not at all otherwise; and the next hop is one step nearer.
Agree ==
  \A h \in alive :
    /\ \A a \in Devices \ DevicesOf(h) :
         LET offers == {n + 1 : n \in UNION {DistsTo(g, a) : g \in Neighbours(h)}}
                         \cap 0 .. MaxDist
         IN DistsTo(h, a) = {n \in offers : \A k \in offers : n <= k}
    /\ \A e \in online[h] : e.dist > 0 =>
         e.dist - 1 \in DistsTo(e.via, e.addr)

\* Hops is what it is said to be on a network whose hosts all reach each other
\* within the limit: from every host but its own an address is one wire farther
\* than from one of the neighbours.
HopsExact ==
  \A h \in Hosts, a \in Devices :
    /\ Hops[h][a] <= MaxDist
    /\ Host[a] # h => \E d \in DevicesOf(h) : Hops[Host[Wire[d]]][a] = Hops[h][a] - 1

\* Tables that agree are right: while every host runs, that each table fits those
\* of its neighbours, whatever came in before, is enough for every host to have
\* every address, at its true distance.
AgreedIsShortest ==
  Agree /\ alive = Hosts =>
    \A h \in Hosts, a \in Devices : DistsTo(h, a) = {Hops[h][a]}

\* Once no more hosts are killed or started the tables come to agree and stay
\* so: the addresses of a host that is gone, which its neighbours at first
\* offer back to each other, are counted up to the limit and forgotten.
Converges == <>[]Agree
=============================================================================
