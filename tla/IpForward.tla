------------------------------ MODULE IpForward ------------------------------
(***************************************************************************)
(* The IP layer (network/ippacket.c) over the tables of Route: sending a   *)
(* packet, passing it on, taking it in; the routes that are set by hand,   *)
(* which come before the automatic ones; and the ARP list, which decides   *)
(* whether a packet may leave at once.  No TTL is counted down and no      *)
(* sender told of a loss, so that all there is to stop a packet is that    *)
(* the tables agree in the end.                                            *)
(*                                                                         *)
(* One packet is followed at a time: nothing in this layer makes packets   *)
(* depend on one another.  A MAC address is known by its host, as in       *)
(* Route.                                                                  *)
(***************************************************************************)
EXTENDS Route

CONSTANTS
  Manual,    \* Manual[h]: the calls of setRoutingTable h may make, in order
  Traffic,   \* the packets that may be sent: sender, destination, whether the
             \* loss rate applies to it (TCP, no flag set)
  ArpAt      \* bound: the devices at which ARP packets come in

\* A route set by hand: the addresses the prefix covers, its length, the device
\* and whose MAC address.  16 pointers' worth of memory hold four of them.
ManualRoute == [covers : SUBSET Devices, len : 0 .. 32, dev : Devices, via : Hosts]

ASSUME ManualAssumption ==
  /\ Manual \in [Hosts -> Seq(ManualRoute)]
  /\ \A h \in Hosts : Len(Manual[h]) <= 4
  /\ \A h \in Hosts : \A i \in DOMAIN Manual[h] : Host[Manual[h][i].dev] = h
ASSUME TrafficAssumption ==
  \A t \in Traffic : t.from \in Hosts /\ t.dst \in Devices /\ t.drop \in BOOLEAN

VARIABLES
  manual,    \* manual[h]: manRouteTable
  arp,       \* arp[h]: the addresses in arpList
  packet     \* the packet: on its way to a device, put off, or nowhere

ipVars == <<manual, arp, packet>>
allVars == <<vars, ipVars>>

NoPacket == [at |-> "none"]
IsMine(h, a) == Host[a] = h

IpInit ==
  /\ Init
  /\ manual = [h \in Hosts |-> <<>>] /\ arp = [h \in Hosts |-> {}]
  /\ packet = NoPacket

\* Mutant of Added: the new route comes first.
AddedFirst(h) == <<Manual[h][Len(manual[h]) + 1]>> \o manual[h]

\* setRoutingTable.
Added(h) == Append(manual[h], Manual[h][Len(manual[h]) + 1])
SetRoutingTable(h) ==
  /\ h \in alive /\ Len(manual[h]) < Len(Manual[h])
  /\ manual' = [manual EXCEPT ![h] = Added(h)]
  /\ UNCHANGED <<vars, arp, packet>>

\* Mutant of Better: of all the routes that match, the last.
BetterLast(r, s) == r.len > 0

\* queryRouteTable takes the first of the longest masks; the mask of length 0 is
\* not longer than what it starts from.
Better(r, s) == r.len > s.len
MatchByHand(h, a) ==
  LET best[i \in 0 .. Len(manual[h])] ==
        IF i = 0 THEN [len |-> 0]
        ELSE IF a \in manual[h][i].covers /\ Better(manual[h][i], best[i - 1])
             THEN manual[h][i] ELSE best[i - 1]
  IN best[Len(manual[h])]

\* The routes it returns: one, or none.
QueryRouteTable(h, a) ==
  LET byHand == MatchByHand(h, a) IN
  IF byHand.len > 0 THEN {byHand} ELSE {e \in online[h] : e.addr = a}

\* sendFrame: the frame is at the other end of the wire.
SendFrame(r, t) ==
  packet' = [at |-> "wire", dev |-> Wire[r.dev], to |-> r.via, dst |-> t.dst, drop |-> t.drop]
PutOff(h, t) == packet' = [at |-> "later", from |-> h, dst |-> t.dst, drop |-> t.drop]
Gone == packet' = NoPacket

\* queryARPList returns 0 for an address it finds, which its callers take for no.
NotInARPList(h, a) == a \notin arp[h]

\* sendIPPacket, which returns -1 without a route.
Submit(t) ==
  /\ t.from \in alive /\ packet = NoPacket
  /\ \E r \in QueryRouteTable(t.from, t.dst) :
       IF NotInARPList(t.from, t.dst) THEN SendFrame(r, t) ELSE PutOff(t.from, t)
  /\ UNCHANGED <<vars, manual, arp>>

\* processResendIPTask: the same again, and if it cannot be sent it is given up.
Resend ==
  \/ /\ NotInARPList(packet.from, packet.dst)
     /\ \E r \in QueryRouteTable(packet.from, packet.dst) : SendFrame(r, packet)
  \/ /\ \/ ~NotInARPList(packet.from, packet.dst)
        \/ QueryRouteTable(packet.from, packet.dst) = {}
     /\ Gone

\* handleFrame takes a frame with the MAC address of any of the host's devices;
\* then handleIPPacket, randomDrop, isMyPacket, deliverIPPacket.
Taken == packet.to = Host[packet.dev] /\ packet.to \in alive
HandleIPPacket ==
  LET h == Host[packet.dev]  routes == QueryRouteTable(h, packet.dst) IN
  \/ Taken /\ ~IsMine(h, packet.dst) /\ \E r \in routes : SendFrame(r, packet)
  \/ (Taken /\ ~IsMine(h, packet.dst) => packet.drop \/ routes = {}) /\ Gone

\* The packet's next step, on a wire or in the list of those put off.
Forward ==
  /\ packet # NoPacket
  /\ IF packet.at = "wire" THEN HandleIPPacket ELSE Resend
  /\ UNCHANGED <<vars, manual, arp>>

\* Mutant of Code: the number is converted as the rest of the stack does.
CodeConverted(code) == code

\* A 16 bit number of the packet as handleARPPacket reads it, unconverted.
Code(code) == (code % 256) * 256 + code \div 256

\* handleARPPacket, for the requests and replies of the kernel at the other end of
\* a wire.  A reply to a request would be a frame that the kernel takes.
HandleARPPacket(d) ==
  /\ Host[d] \in alive
  /\ arp' = [arp EXCEPT ![Host[d]] = @ \cup {Wire[d] : code \in {n \in {1, 2} : Code(n) = 2}}]
  /\ UNCHANGED <<vars, manual, packet>>

\* Route's steps.  With its process a host loses what it was told by hand, its
\* ARP list, and the packet that waited at one of its devices.
IpCrash(h) ==
  /\ Crash(h)
  /\ manual' = [manual EXCEPT ![h] = <<>>] /\ arp' = [arp EXCEPT ![h] = {}]
  /\ packet' = IF \/ packet.at = "wire" /\ Host[packet.dev] = h
                  \/ packet.at = "later" /\ packet.from = h
               THEN NoPacket ELSE packet

IpNext ==
  \/ \E h \in Hosts : \/ BroadcastOnTime(h) /\ UNCHANGED ipVars
                      \/ UpdateOnTime(h) /\ UNCHANGED ipVars
                      \/ Restart(h) /\ UNCHANGED ipVars
                      \/ IpCrash(h) \/ SetRoutingTable(h)
  \/ \E d \in Devices : HandleRouteTable(d) /\ UNCHANGED ipVars
  \/ \E d \in ArpAt : HandleARPPacket(d)
  \/ \E t \in Traffic : Submit(t)
  \/ Forward

\* The loop thread comes to the packet.
IpSpec == IpInit /\ [][IpNext]_allVars /\ WF_allVars(Forward)

-----------------------------------------------------------------------------
(* Properties.                                                             *)

\* The routes set by hand are those of the calls made so far, in their order, and
\* a frame is on its way to a device from one that could send it.
IpTypeOK ==
  /\ \A h \in Hosts : /\ manual[h] = SubSeq(Manual[h], 1, Len(manual[h]))
                      /\ arp[h] \subseteq Devices
                      /\ h \notin alive => manual[h] = <<>> /\ arp[h] = {}
  /\ packet.at \in {"none", "wire", "later"}
  /\ packet.at = "wire" => packet.dev \in Devices /\ packet.to \in Hosts

\* There is no TTL, and while the tables disagree packets do go back and forth.
\* But none goes round for ever if the tables come to agree in the end, which is
\* what Converges says of Route.
Leaves == <>[]Agree => (packet # NoPacket ~> packet = NoPacket)

\* Where the tables agree and every host runs, a packet that is passed on goes to
\* the host at the end of the wire, nearer to where it is sent, and is not lost
\* unless the loss rate says so.
Settled == Agree /\ alive = Hosts
Passing == packet.at = "wire" /\ Taken /\ ~IsMine(Host[packet.dev], packet.dst)
NearerEachHop ==
  [][Passing /\ packet' # packet /\ alive' = Hosts /\ Settled =>
       \/ packet.drop /\ packet' = NoPacket
       \/ /\ packet'.to = Host[packet'.dev]
          /\ Hops[packet'.to][packet.dst] < Hops[Host[packet.dev]][packet.dst]]_allVars

\* Routes set by hand that lead there: each goes to the neighbour on its wire, and
\* nearer to what it covers, or comes after one with a mask as long.
HandRoutesLead ==
  \A h \in Hosts : \A i \in DOMAIN Manual[h] : \A a \in Manual[h][i].covers :
    LET r == Manual[h][i] IN
    Host[a] # h /\ r.len > 0 =>
      \/ r.via = Host[Wire[r.dev]] /\ Hops[r.via][a] < Hops[h][a]
      \/ \E j \in 1 .. i - 1 : a \in Manual[h][j].covers /\ Manual[h][j].len >= r.len

\* A packet is never put off: processResendIPTask tries once more, at once, and
\* with a buffer its sender may have given back.
NeverPutOff == packet.at # "later"
=============================================================================
