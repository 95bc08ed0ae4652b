# Verification of the lab network stack

A TLA+ development for the userspace TCP/IP stack of this repository: an
Ethernet, IP and TCP implementation on libpcap, linked into test programs in
place of libc's socket calls. TLC checks the modules on small instances, TLAPS
proves the safety properties for all values of the constants, and that a connection
implements two byte streams.

Paths below are those of the repository, `src/transport/loopthread.c` and so on.

## The system

One process per host. It has a **loop thread** (`loopCycle`, `link/frame.c`)
that for ever takes a frame from each device in turn and then runs the list of
*loop tasks*, and the **application threads**, which call `socket`, `bind`,
`listen`, `accept`, `connect`, `read`, `write`, `close`. The loop thread does
all of the receiving, resending, probing and routing; an application thread
copies bytes to and from a socket's ring buffers and waits by spinning.

| component | state | operations | how it meets the others |
|---|---|---|---|
| link layer (`link/`) | device list | `sendFrame`, `handleFrame`, `receiveFrame`, `loopCycle` | calls the frame callbacks: IP and ARP |
| IP layer (`network/ippacket.c`) | drop rate, list of packets to send again | `sendIPPacket`, `handleIPPacket`, `deliverIPPacket`, `randomDrop`, `processResendIPTask` | asks routing for the next hop; calls the packet callbacks: TCP and routing |
| routing (`network/route.c`) | table set by hand, table in use, table being collected, a mutex | `setRoutingTable`, `handleRouteTable`, `broadcastRouteTable` (1 s), `updateRouteTable` (2.5 s), `queryRouteTable` | protocol 210 packets between hosts; loop tasks |
| ARP (`network/arp.c`) | list of addresses | `handleARPPacket`, `insertARPNode`, `queryARPList` | frames |
| socket list (`transport/mainthread.c`) | linked list, its mutex, one mutex per socket, the next descriptor | `allocSocket`, `freeSocket`, `findSocket`, `matchSocket` and the walks of `asyncSendTCPPacket` and `accept` | shared by every thread |
| TCP connection (`transport/loopthread.c`, `mainthread.c`) | `struct Socket`: two states, six 16-bit cursors, two 32-bit numbers, two ring buffers | packet handlers by state, `asyncSendTCPPacket`, the eight calls | handlers and tasks run in the loop thread, calls in the applications'; packets to the peer |
| tasks and start-up (`utils/`, `transport/transport.c`) | callback lists | `initTransportLayer`, `setLoopTask`, `processTask` | everything else is registered here |
| mperf (`src/mperf`) | the controller's process number and locks, shared memory, the servers it forks | `main`'s loop, `doConfigure`, `doTerminate`, `rTerminate`, the handlers (`server.c`); `serverMain` (`worker.c`); `reconfigureServer` (`client.c`) | processes that synchronise by signals; a program on top of the stack or of the kernel's |
| mperf's UDP probe | two threads' counters | `udpsender.c`, `udpreceiver.c` | programs of their own |
| wrappers, debugging, lab programs, vnetUtils | — | — | on top of the stack, or beside it |

### What is hard

* **Threads.** `read` and `write` look at the cursors without the mutex, then
  copy under it; `close` and `accept` poll; every walk over the list takes two
  kinds of locks; the handler of a listening socket takes them in the other order.
* **Loss.** There is a single resend timer per socket and no timer at all for
  the handshake. Whether the sender gets on after a loss depends on which packets
  the receiver answers.
* **Wrap-around.** The ring has 2^16 cells, the cursors are 16-bit integers
  that are never reduced, acknowledgements are compared in 16 bits.
* **Closing.** Two directions, FINs that carry no data, acknowledgements that do
  not say what they acknowledge.
* **Routing.** Stale tables, hosts killed and started again, counting to the limit.
  No TTL: while the tables disagree packets go round.
* **Signals.** mperf's controller learns what its servers do by signals only, which
  come at any time, are not queued, and may be those of an earlier server.

`PROJECT.json` lists each hazard with the line where it bites and the properties
that watch it, or why none does yet.

### What makes each component correct

* Connection: what `read` returns is a prefix of what the other end wrote; what
  counts as acknowledged has arrived; the assertions in the handler hold; FIN
  comes last; everything written arrives; `close` returns.
* Socket list: nobody looks at a socket that is freed; one socket per
  connection, accepted once; threads do not wait for each other in a circle.
* Routing: a table never says that an address is nearer than it is; the MAC
  address of an entry is that of the neighbour on the entry's wire; the tables
  come to agree when the network is left alone.
* IP layer: no packet goes round for ever once the tables agree, and then each hop
  brings it nearer; what a route set by hand says comes before the tables.
* ARP: a packet is never put off. It should be when its next hop is unknown, but
  neither the list nor the task that would send it later does what it is for.
* mperf: the answer to a request is about the server started for it; an old server
  is told to end when a new one comes; the controller always gets back to the next
  request; no server stays a zombie.

## Modules

| module | models |
|---|---|
| `RingWord` | 16-bit cursors, sequence numbers in two halves, ring buffers |
| `TcpConn` | one connection: both sockets, both loop threads, the applications' threads, the path between |
| `ByteStream` | the abstract specification: two byte streams through bounded buffers |
| `TcpConnProofs` | proofs about `TcpConn`: types, cursors, the first assertion |
| `TcpStreamProofs` | proofs about `TcpConn`: the content of the streams, flow control, closing, and that it implements `ByteStream` |
| `SockTable` | the socket list of one host and all its locks |
| `SockTableProofs` | proofs about `SockTable` |
| `Route` | automatic routing on a network of hosts |
| `RouteProofs` | proofs about `Route` |
| `IpForward` | the IP layer on top of `Route`: sending, passing on, routes set by hand, the ARP list |
| `IpForwardProofs` | proofs about `IpForward`, from those about `Route` |
| `Mperf` | mperf's controller, its servers and its clients |
| `MperfProofs` | proofs about `Mperf` |
| `MCTcpConn`, `MCSockTable`, `MCRoute`, `MCIpForward`, `MCMperf` | instances for TLC |

Definitions named *Mutant* are deliberate mistakes (a dropped guard, a missing
wrap). No specification uses them: each is put in the place of the definition it
varies to see that a property notices.

### TcpConn

The variables are the fields of `struct Socket`, for the two ends, with the
names of the code. `state` has two values more, for the socket that does not exist
yet and the one freed. `clstate` is the set of its bits. `net[e]` is the FIFO path to
`e`; the stack neither reorders nor duplicates, and `Lossy` says what kinds of
packet may be lost. `pc` and `arg` are an application thread's place in a call and its
`recvByte` or `sendByte`. `written`, `readLog`, `eof` are history.

* `Connect`, `ConnectReturn`, `Accept`: `connectLab` before and after its wait for
  `mutex2`, the turn of `acceptLab`'s loop that finds the child.
* `Receive(e)`: the loop thread takes the next packet; `HandleListen`,
  `HandleSyssent`, `HandleSysrecv`, `HandleEstablished`, `HandleIgnored` are the
  functions in `TCPHandleFunList`.
* `AsyncSend(e)`: `asyncSendTCPPacket` for one socket: resend, probe, new data, FIN.
  `resendTime` is abstracted: it may have expired or not. With `MaxNet` packets in
  flight it sends nothing: an unbounded queue otherwise.
* `WriteCall` … `WriteCopy`, `ReadCall` … `ReadCopy`, `CloseCall` … `CloseFree`: the calls,
  cut where the code lets the mutex go or reads without it.

Bytes are their positions in the stream, so that a byte taken from the wrong
cell, sent twice or left out shows. `M` stands for 2^16 and `Wraps` for the 2^16
values of the upper half of a sequence number: with `M = 4` the cursors wrap after
four bytes and with `Wraps = 2` the sequence numbers after eight.

`ConnAssumption` asks that the thread that closes a socket is the only one to use
it. Otherwise the code frees the memory that another thread's loop reads. Two more
conditions on the applications are definitions, which only theorems use:
`OneThreadPerCall` (the code has a TODO for concurrent callers) and `SilentAfterFin`,
that no `write` accepts bytes when the FIN of its own end has gone. The code does not
keep to the second by itself (`late_write`).

### SockTable

The list is a set in the order of the descriptors: sockets are appended as they
are numbered. A walk locks the list (`FindBegin`, `MatchBegin`, `AsyncBegin`), then
each socket in its turn (`Find`, `Match`, `MatchListener`, `Async`); a step is one
lock taken and what follows up to the next. `HandleListen` and `Child` are
`TCPHandleListen` before and after `allocSocket` has the list. `ConnectBad` is
`connectLab` with a wrong address. A caller may send any packet at any time,
also a second SYN, as from a host started again; the other end of a socket that
has connected is known by that socket, which has a port of its own. What data a connection
carries is left to `TcpConn`: here a handshake takes the right packets, and in
`ESTABLISHED` any packet may complete the closing.

The applications behave: they name their own sockets, do not use a socket from
two threads, bind and connect new sockets only, and listen with bound ones. Several threads may accept
on one listening socket.

### Route

A device stands for its address, a host for its MAC addresses (`handleFrame`
takes a frame for any of them). `Broadcast` puts a burst on each wire: one frame for
each device of the sender, since `broadcastRouteTable` calls `sendIPPacket` once
for each and that sends the broadcast through all. `HandleRouteTable` takes a frame,
`Update` makes the table from what was heard, `removeDuplicates` is `Nearest`,
`OneEach` (any of the nearest, as `qsort` may order them) and `Kept`. `Crash` and
`Restart` are what checkpoints 4 and 5 do to hosts. In `Spec` the timers fire at
any time; in `TimelySpec` as they are set.

### IpForward

It extends `Route` and takes each of its steps, with the timers as set; to the tables it adds
`manual` (`manRouteTable`), `arp` (the addresses in `arpList`) and `packet`. One packet
is followed at a time: nothing in this layer makes one depend on another.

* `Submit`: `sendIPPacket`, by the first of the routes that `QueryRouteTable` returns;
  `PutOff` is `insertResendIPNode`.
* `Forward`: the loop thread comes to the packet. On a wire it is `HandleIPPacket`
  (`handleFrame`, `handleIPPacket`, `randomDrop`, `isMyPacket`, `deliverIPPacket`); put
  off, it is `Resend` (`processResendIPTask`).
* `SetRoutingTable`: the calls of `setRoutingTable`. `MatchByHand` is the search for the
  longest mask, with the mask of length 0 never longer than none. At most four calls:
  the table is allocated for 16 pointers and not for 16 entries, and a fifth writes
  behind it.
* `HandleARPPacket`: the kernel at the other end of a wire asks or answers. The code
  of the packet is compared with 2 before it is converted (`Code`), so that an answer
  is not taken for one.
* `IpCrash`: `Route`'s `Crash`, and what the IP layer loses with its process.

### Mperf

The variables are those of the controller (`pc`, `conn`, `ret`, `chldPID`, the locks that
are `released`, its alarm and pending signals), the shared memory, the servers it has
forked and the clients. A process number is the number of the fork. A handler runs with
all signals blocked and is one step; between two steps of its own a process takes what is
pending first. A call that waits may be interrupted, and a signal that comes just before the call
is not noticed by it.

* `Accept`, `Parse`, `StopBegin`, `Kill`, `StopEnd`, `Harder`: `main`'s loop, `parse` and `rTerminate`.
* `Message`, `Fork`, `ForkFails`, `Forked`, `Started`: `doConfigure`, with the server there before
  `chldPID` is assigned.
* `Handler`: the four handlers of the controller, `Reap` the one for SIGCHLD.
* `Configure` … `ExitTest`, `Interrupted`, `Terminated`: a server. `Bind` fails while another server
  listens.
* `Dial`, `Send`, `Stop`, `Connect`: a client. A client in `Silent` may be killed half way
  through its request, or the read may time out.

What is transferred in a test is left out: only that each read or write may be
the last, be interrupted, or wait.

## Runs

| run | shows |
|---|---|
| `conn_upload` | a whole connection, all losses: all safety properties, also that `read` returns 0 only when all has arrived (`EofMeansArrived`), and that it implements `ByteStream!Spec` |
| `conn_close` | `close()` returns in a plain upload with losses |
| `conn_live` | with data lost but not for ever, and nobody closing, everything is read; implements `ByteStream!FairSpec` |
| `sock_server` | several threads, listening sockets, arbitrary packets, `connect` called wrongly: nothing freed is looked at, one socket for each remote end, accepted once |
| `sock_client` | no listening socket: nothing freed is looked at, no circular wait, every search ends |
| `route_safe` | timers at any time, loss, a host killed and started again: tables are never too good, and where they agree they are right (`AgreedIsShortest`) |
| `route_live` | timers as set: the tables come to agree |
| `ip_forward` | packets and routes set by hand over the tables of a network in which a host is killed: no packet goes round for ever if the tables agree in the end, and where they agree each hop brings it nearer |
| `mperf_control` | three clients, one of which may fall silent: right answers, old servers told to end, the controller always back at the next request, no zombies |

Two directions at once, and a reader and a writer thread on one socket, are left to
the theorems of `TcpStreamProofs`, which are about any number of threads at both ends.

The following runs end in a counterexample. Each shows that the code does not do
what its comments, headers or tests say.

| run | shows |
|---|---|
| `late_write` | a FIN that comes in between `write`'s test and its copy: the call accepts bytes although the comment at `loopthread.c:181` says that it may not be called any more |
| `lost_ack` | a duplicate of data already taken is not acknowledged again; one lost acknowledgement stalls the stream for ever |
| `lock_order` | a SYN and any call at the same time: the loop thread and the caller wait for each other |

`ip_forward` says of `Leaves` only *if* the tables come to agree, which `route_live` shows
that they do: the premise there is the conclusion here (`Converges` is `<>[]Agree`), for
the same steps of the tables (`ImplementsRoute`). Fairness of the timers within
`ip_forward` would say the same in one run and makes it too large.

Other things that the models make plain and no run repeats:

* `close()` of a listening socket waits for ever (`CloseSpin` is never enabled); when both
  ends close with more unread than a buffer holds neither FIN is sent; a connection
  that closes before `accept()` looks is not accepted (`Accept` wants ESTABLISHED); a
  failed `connect()` leaves its socket locked (`ConnectBad`).
* `read()` looks at the buffer first and then at the state (`mainthread.c:239`): with
  data and the close in between it returns 0 with bytes left, and a further
  call returns them.
* What `write()` accepts after the peer's FIN (`late_write`) goes out if it is there
  before this side's FIN, which `asyncSendTCPPacket` sends by itself when all is
  acknowledged. If it comes later, nobody takes it: the peer may have closed, and the
  acknowledgement of the FIN is one more than there were bytes, which moves `ackBack` over
  a byte that was never sent. `FinIsLast`, `ClosedMeansDelivered` and `NoFalseAck` are false
  of such a connection. That is what `SilentAfterFin` keeps out.
* A default route with mask 0 set by hand is never taken (`MatchByHand`). A packet
  that was put off would be given up at once or sent from a buffer its owner may have
  freed (`Resend`).
* mperf: a server that ends before its number is assigned (`Forked` after `Reap`) leaves the
  number of a dead process in `chldPID`, and every later request is answered
  RET_EKILL, although `src/mperf/README.md:202` says that the controller is in a valid state again whatever happens. A
  server that ends between the look at `chldPID` and `kill()` makes that `kill(-1)`,
  which signals every process of the user. Under `-k` a late SIGCHLD of an earlier
  server keeps the last one from being sent SIGTERM. A signal that interrupts the
  read of a request drops the request. A SIGINT between a server's look at its locks
  and `accept()` is not seen until a client comes, and its port is not free for the next
  server, which has reported success before it listens (`Bind` after `Report`): the client may be
  served by the old one. `client.c:250` overwrites a refusal by the result of reading
  it (`Connect`).

### Bounds

* Connection: buffers of 4 cells (3 bytes usable), segments of 2 bytes, at most 5
  bytes each way, at most 3 packets in flight when a timer sends. That is more
  than a buffer, more than a window, and one turn of the ring: windows shut and are
  probed, copies wrap, segments are resent, and packets of different times are in
  flight together. Not reached: 2^16 bytes in flight with old acknowledgements of
  the same low half; the proof of `AckAssertion` covers it.
* Socket list: three sockets (a listening one and two more) and two threads for the
  server, two sockets for the client: every pair of threads can meet at every
  lock, a walk has a socket before and behind, and a child can be made while
  another is closed.
* Routing: three hosts in a line, so that the address of the far one goes over a
  middle one that may pass on stale news. `MaxDist`, 20 in the code, is 2 in
  `route_safe`, the length of the longest path, and 3 in `route_live`, so that there
  is something to count up to. In `route_safe` the bursts of one broadcast are under
  way at a time and the middle or an outer host is killed.

* IP layer: the same line; packets from end to end both ways and one to the middle, which
  forwards; two routes set by hand in the middle, one of them back to where
  the packet came from; the host at one end killed once, so that the count to the limit is
  met with packets under way. ARP packets at one device.
* mperf: three clients, so that there can be three servers: one that ends, one that
  runs its test and one that starts. One client each asks for a test, for one or for
  a test it may not have or may fall silent in, and for no test. With `-k`,
  which has the additional step.

`CHECK_DEADLOCK FALSE` in the connection runs: a connection ends, and applications
stop when they have written their share. In the runs of `SockTable` with a
listening socket the host may stand still (`lock_order`), and also after `ConnectBad`.
In `mperf_control` the system stands still when all clients have been served.
`sock_client`, `route_safe`, `route_live` and `ip_forward` check for deadlock.

### Fairness

* `FairSystem`: weak fairness of the loop thread's steps and of threads inside a
  call: the kernel schedules both, and the loop comes back to every device and
  every task. Strong fairness of receiving a packet of a kind that may be lost: a
  drop rate below 100% does not lose every copy. `FairReader` is the application that
  calls read again, as the test programs do.
* `FairSpec` of `SockTable`: strong fairness of getting a lock that is free again
  and again. pthread mutexes do not promise it, the scheduler gives it with
  probability one; under weak fairness alone the spinning of `accept` could shut
  the loop thread out.
* `TimelySpec`: the timers count seconds and handling a frame takes
  microseconds, so a timer fires when the frames before it have been taken, and
  between two updates each living neighbour has broadcast (1 s against 2.5 s). A
  timer that is due again and again fires (strong fairness).
* `IpSpec`: weak fairness of `Forward`: the loop thread comes to the packet.
* `FairSpec` of `Mperf`: weak fairness of the controller, of the delivery of its signals, of
  its alarm, of what a server can do by itself, and of a client that is not silent
  sending its request. Nothing is asked of the reads and writes of a test, nor of
  silent clients. The alarm of one second rings only when every server waits: what a
  server does before it answers takes microseconds.

## Proofs

All of it is checked by TLAPS without gaps, from the assumptions named in the
modules, on the constants only.

* `TypeCorrect`: `Spec => []TypeOK` of `TcpConn`, one lemma for each handler or
  call. Arithmetic lemmas (`WordClosed`, `SeqNoClosed`, `RingClosed`) close words and
  buffers under the operators of `RingWord`.
* `AckAssertion`: the first assertion in `TCPHandleEstablished` never fails. By
  itself it is not inductive: it needs that the low half of `seqNum` equals
  `ackBack` for an established socket, which is the invariant `SeqAgrees`. It holds
  for all acknowledgements, also old ones and ones from nowhere: the
  assertion cannot fail whatever is received.
* `CopiesStayGood`: a count taken without the mutex still fits under it, from the
  assumption that one thread reads and one writes at an end
  (`OneThreadPerCall`; the code has a TODO there). The invariant orders
  the cursors: what is sent is between what is acknowledged and what is
  written, so an acknowledgement only adds room and a segment only adds bytes.
* `DistancesHonest` and `NextHopRight`: for every network, in every order of broadcasts,
  updates, losses and crashes. The invariant `RouteInv` says of the entries
  collected and of those in flight what the properties say of the tables: an entry
  in flight is as honest as its sender's, an entry collected is one hop more
  (`HopsAssumption` says that a wire is one hop).

* `TypeCorrect` and `OwnKept` of `RouteProofs`: tables are bounded and have one entry for
  an address, and a host's own addresses stay in its table whatever comes in. The
  invariant `TableInv` adds to `RouteInv` what each table is; the lemma `MadeAnew` is about
  `removeDuplicates`: of what was heard nothing is at distance 0 (from
  `RouteInv`), so the own addresses are nearest and none of them is replaced.
* `ImplementsRoute`: every step of `IpForward` is one of `Route` or leaves its variables
  alone, hence `OwnUnderTraffic`. `NothingPutOff`: the ARP list stays empty,
  because a code of 1 or 2 is never 2 after it has been read unconverted.
* `SockTableProofs`, for any number of threads, sockets and remote ends: `TypeCorrect`,
  `NothingFreedUsed`, `AcceptsOnce`, `OnePeerOneSocket` and `NoCircleWithoutListeners`. One
  invariant, `SockInv`, carries them all. It says of the threads: who holds the list is on
  a walk and stands at a socket in it, who holds a socket has its mutex, and a socket in
  a call belongs to the caller, who alone may free it. So `freeSocket` can take a socket
  from the list only when no walk stands at it. Of the packet in the loop thread's hands it
  says that no socket seen so far in the search is the one it is for (`Fresh`), which is why
  a second child cannot be made for a remote end. `RoomOK` is about the bound on sockets:
  there is one left for every thread in `socket()` and for a SYN on its way. The last theorem
  assumes that nobody calls from outside and that no `connect()` has a wrong address: the
  run `lock_order` finds the circle where somebody does. The threads are assumed to be
  finitely many (`TableAssumption`).

### The streams: `TcpStreamProofs`

`LenAssertion`, `StreamIntegrity`, `NothingFalselyAcked`, `LastIsFin`, `CloseDelivers`,
`EofIsEnd` and `WindowKept` state what `conn_upload` checks, for all buffer and
segment sizes, threads, amounts of data and losses, with both ends reading, writing and
closing. They assume `OneThreadPerCall` and are about the behaviours in which
`SilentAfterFin` holds: `Spec /\ SilentAfterFin => ...`. `WritersAreSilent` says for which
applications that is every behaviour: those in which the peer of an end that writes
closes only when it has read to the end (`WriterCloses`), as the programs of `test/lab3`
do. An end that closes when it likes, as an echo client does, is covered as long as the other
does not write after its FIN.

None of these properties is inductive. The invariant is `StreamOK`, that is `TypeOK`,
`CopyInv` of `TcpConnProofs` and `StreamInv`, which has seven parts:

* `Handshake`: one SYN and one SYN|ACK are under way, and nothing else until the
  client has opened its buffers. Without it a second SYN could open an end again.
* `Blank`: an end whose buffers are not open has its cursors and counts at 0.
* `Closing`: what the close bits say about each other and about the peer's; a FIN goes
  when everything written is acknowledged. A read of 0 and a socket in CLOSED take the
  peer's FIN, so this is what ties them to the data.
* `Cursors`: every cursor is the count of bytes it stands for, modulo `M`, and the counts
  compared are less than a buffer apart. All arithmetic on cursors is turned into
  arithmetic on counts by this (lemmas `AtUnique`, `AtAdd`, `AtSub`).
* `Flow`: acknowledged <= received <= sent <= limit <= returned + `M` - 1, across both ends.
* `Content`: the cells of the two ring buffers between the cursors hold the bytes that
  the counts say.
* `Packets`: each packet on the path is of the stream. A data segment starts at or before what
  has been received and ends at or after it, so a duplicate is either all old or the next
  bytes; an acknowledgement is of bytes received, or it is the answer to the FIN; and of two packets on
  the path the later one says no less (`InTurn`), which is why the window cannot shrink.

One lemma for each handler and call shows that `StreamInv` stays (`AckStream`, `DataStream`,
`FinStream`, `SendStream`, `WriteStream`, `ReadStream`, `ThreadStream`, ...).

`ImplementsByteStream`: `written`, `ReceivedBytes`, `readLog` and the close bits map to the
variables of `ByteStream`. By `EveryMove` each step is the `Write`, `Arrive`, `Return` or
`Finish` of one stream, or leaves the streams alone: `WriteCopy` is `Write`, `ReadCopy` is
`Return`, `HandleEstablished` is `Arrive` when it takes data and `Finish` when it closes,
and never both, since the segment that closes is an acknowledgement without data. That `Write` does
not overfill the stream is `Flow`, and that both streams are whole at `Finish` is `Closing`.

### Tables that agree, and packets over them

* `AgreementIsRight` (`RouteProofs`): tables that agree with each other have the shortest ways,
  from whatever they came. `Agree` speaks of neighbours only; that it gives the true distance
  everywhere goes from each distance to the next. The provers cannot do that
  induction, so the proof takes the least distance for which it fails: the lemma `Least`
  (every non-empty set of naturals has a least element) is proved from the finiteness of an
  interval. `HopsExact` is assumed: hosts reach each other within the limit, and `Hops` is the
  number of wires.
* `IpTypeCorrect` and `EveryHopNearer` (`IpForwardProofs`). A hop over tables that agree is nearer
  by `AgreementIsRight`'s lemma, and over a route set by hand by `HandRoutesLead`: such a route
  goes to the neighbour on its wire and nearer to what it covers, or stands behind another with a
  mask as long, which `queryRouteTable` takes instead. What the recursive search for the longest
  mask returns is again proved by `Least`. The MC modules assume both, and `OneThreadPerCall`,
  of their instances, where TLC evaluates them.

### mperf: `MperfProofs`

`MperfTypeCorrect`, `EarlierServersTold` and `AnswersAreRight`, for any number of clients. The invariant
`MInv`:

* `InTurn`: clients are accepted in the order in which they dial and each costs one fork at
  most, so the forks, and with them the numbers of processes, are bounded by the clients.
* `Preempted` and `LastTold`: every server but the last has been told to end. It is inductive
  only with what holds of the last one: it has been told, or `chldPID` is its number (or it is
  being assigned), so that the next `rTerminate` finds it.
* `SmemInv` and `SignalsInv`: while the controller waits, the shared memory is of the request it serves, and
  a SIGUSR1 or SIGUSR2 that has come in is the newest server's. An earlier server cannot send
  one any more: it has been told to end, and a server that has not listened yet exits at the first signal.

Most steps are *calm*, no client is accepted, no server comes or speaks, and the lemma
`CalmKeeps` does for all of them at once.

### Only model-checked

Liveness, since fairness and ENABLED are outside the prover's reach: `CloseReturns`,
`AllDelivered`, `ImplementsReliableStream`, `Converges`, `Leaves`, `FindReturns`, `Serves`, `Reaped`.
Every invariant and action property that a passing run checks is also a theorem.

## Not modelled

* The clock: how long a timer waits. Only that it may run out, or in `TimelySpec`
  in which order.
* Start-up: `initTransportLayer` sets its flag before it initialises, so that a second
  thread's first call finds no lists; every module starts after it. That the callback
  lists grow while the loop thread walks them, and that the table set by hand is read while an
  application grows it.
* `getaddrinfo` and the wrappers: no state. Debug output. The scripts of `vnetUtils`: they make
  what is `Wire` in `Route`.
* `sendARPRequest` and `sendARPPacket`: nothing calls them. The time after which an ARP
  entry is to go: nothing reads it.
* mperf's UDP probe: two programs of their own with little to state: a lost
  packet leaves the sender waiting until its alarm. In mperf, what is
  transferred, the logs, and what `PROBE`, `FIX` and `CHECK` compile for other programs.
* Use of a socket by several threads when one of them closes it: undefined in the code,
  excluded by an assumption.
* Loss of FIN, SYN and acknowledgements in the liveness runs: `randomDrop` spares
  them. The safety run `conn_upload` loses them.

## Plan

Written, in this order, the core of the system first: `RingWord`, `TcpConn`, `ByteStream`,
`TcpConnProofs`, `Route`, `RouteProofs`, `SockTable`,
`SockTableProofs`, `IpForward`, `IpForwardProofs`, `Mperf`, `TcpStreamProofs`, `MperfProofs`.

Next, the model: `TcpConn` with a peer that is killed and started again, and with lost SYNs
and FINs in the liveness runs; start-up with two threads.

Then, the proofs: which theorems of `TcpStreamProofs` need `SilentAfterFin` and which do not
(`LenAssertion` and `WindowKept` may not); that a listening host can stand still only in the
circle that `lock_order` shows.
