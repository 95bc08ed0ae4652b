----------------------------- MODULE MperfProofs -----------------------------
(***************************************************************************)
(* What TLAPS proves of mperf's controller and servers, for any number of  *)
(* clients, whatever they ask for, however signals, exits and failed forks *)
(* come in between, with and without -k.                                   *)
(***************************************************************************)
EXTENDS Mperf, SequenceTheorems, TLAPS

Pcs == {"accept", "parse", "stop", "kill", "stopping", "harder", "message",
        "fork", "forked", "starting"}
Places == {"unborn", "born", "report", "bind", "check", "accept", "test", "io",
           "exit", "zombie", "reaped"}
Young == {"unborn", "born", "report", "bind"}
Fresh(s) == (s.at \in Young => s.got = {}) /\ (s.at = "unborn" => s.sigs = {})
ServerRec == [at : Places, config : {Nobody} \cup Clients, got : SUBSET {"SIGINT", "SIGTERM", "SIGALRM"},
              sigs : SUBSET {"SIGINT", "SIGTERM", "SIGALRM"}, backlog : Seq(Clients),
              peer : {Nobody} \cup Clients]
ClientRec == [at : {"idle", "asking", "answered", "gone"},
              wants : Requests \cup {"none"}, sent : Nat]

Ending == {"stop", "kill", "stopping", "harder"}

\* The types.  A server that has not begun to listen has handled no signal: it
\* exits at the first.
Types ==
  /\ pc \in Pcs /\ conn \in Clients \cup {Nobody} /\ (conn = Nobody <=> pc = "accept")
  /\ ret \in {"none", "succ", "emsg", "ekill", "eread", "eproc"}
  /\ forks \in 0 .. N /\ chldPID \in -1 .. forks /\ (pc \in Ending => chldPID # 0)
  /\ released \subseteq Locks /\ alarm \in BOOLEAN /\ pending \subseteq DOMAIN LockOf
  /\ smem \in 0 .. N + 1 /\ queue \in Seq(Clients)
  /\ server \in [Pids -> ServerRec] /\ client \in [Clients -> ClientRec]
  /\ \A p \in Pids : server[p].at = "unborn" <=> p > forks
  /\ \A p \in Pids : Fresh(server[p])

\* Clients are served in the order in which they have dialled, and each is one
\* fork at most: k have been accepted so far.
Before == {"parse", "stop", "kill", "stopping", "harder", "message", "fork"}
Accepted(k) ==
  /\ \A i \in 1 .. Len(queue) : queue[i] = k + i
  /\ \A c \in Clients : client[c].at = "idle" <=> c > k + Len(queue)
  /\ pc # "accept" => conn = k
  /\ forks <= k /\ (pc \in Before => forks < k)
InTurn == \E k \in 0 .. N : Accepted(k)

\* A server that has been told to end, or has.  The last one has been told, or
\* the controller has its number, or is about to; and where it goes on to the next
\* it has been told.
Told(p) == Alive(p) => {"SIGINT", "SIGTERM"} \cap (server[p].sigs \cup server[p].got) # {}
LastTold ==
  forks > 0 =>
    /\ Told(forks) \/ chldPID = forks \/ pc = "forked"
    /\ pc \in {"stopping", "harder", "message", "fork"} => Told(forks)

\* Shared memory holds a request when a server that may go on reads it, and that
\* of the client that is served when it is for that one's server.
Reads(p) == p > 0 /\ server[p].at = "born" /\ server[p].sigs = {}
Reports(p) == p > 0 /\ server[p].at = "report" /\ server[p].sigs = {}
SmemInv ==
  /\ Reads(forks) => smem \in Clients
  /\ pc = "fork" => smem = conn
  /\ pc \in {"forked", "starting"} /\ Reads(forks) => smem = conn

\* While the controller waits for the new server, what has come in of the two
\* signals is that server's, about the client's own request.
Came(sig) == sig \in pending \/ LockOf[sig] \in released
Configured == forks > 0 /\ server[forks].config = conn
SignalsInv ==
  /\ pc = "fork" => ~Came("SIGUSR1") /\ ~Came("SIGUSR2")
  /\ pc \in {"forked", "starting"} =>
       /\ Reports(forks) => Configured
       /\ Came("SIGUSR1") => Configured /\ Valid(conn)
       /\ Came("SIGUSR2") => Configured /\ ~Valid(conn)

MInv == Types /\ InTurn /\ Preempted /\ LastTold /\ SmemInv /\ SignalsInv

-----------------------------------------------------------------------------
LEMMA LockNames ==
  /\ DOMAIN LockOf = {"SIGUSR1", "SIGUSR2", "SIGCHLD", "SIGALRM"}
  /\ LockOf["SIGUSR1"] = "sigusr1" /\ LockOf["SIGUSR2"] = "sigusr2"
  /\ LockOf["SIGCHLD"] = "sigchld" /\ LockOf["SIGALRM"] = "sigalrm"
BY DEF LockOf

LEMMA MInit == Init => MInv
<1>. SUFFICES ASSUME Init PROVE MInv
  OBVIOUS
<1>0. N \in Nat
  BY MperfAssumption
<1>1. Types
  <2>1. Unborn \in ServerRec /\ Unborn.at = "unborn"
    BY DEF Unborn, ServerRec, Places
  <2>2. NewClient \in ClientRec
    BY DEF NewClient, ClientRec
  <2>3. server \in [Pids -> ServerRec] /\ client \in [Clients -> ClientRec]
        /\ \A p \in Pids : server[p].at = "unborn" /\ p > forks
    BY <2>1, <2>2 DEF Init, Pids
  <2>4. pc \in Pcs /\ conn = 0 /\ Nobody = 0 /\ pc = "accept" /\ forks = 0 /\ chldPID = 0
        /\ released = Locks /\ alarm = FALSE /\ pending = {} /\ smem = 0 /\ queue = <<>>
        /\ ret = "none"
    BY DEF Init, Pcs, Nobody
  <2>5. queue \in Seq(Clients)
    BY <2>4
  <2>6. forks \in 0 .. N /\ chldPID \in -1 .. forks /\ smem \in 0 .. N + 1
    BY <1>0, <2>4
  <2>7. \A p \in Pids : server[p].at = "unborn" <=> p > forks
    BY <2>3
  <2>8. \A p \in Pids : Fresh(server[p])
    BY DEF Init, Unborn, Fresh
  <2>9. pc \notin Ending
    BY <2>4 DEF Ending
  <2>. QED  BY <2>3, <2>4, <2>5, <2>6, <2>7, <2>8, <2>9 DEF Types
<1>2. InTurn
  <2>1. Accepted(0)
    BY <1>0 DEF Init, Accepted, Clients, NewClient, Before
  <2>. QED  BY <1>0, <2>1 DEF InTurn
<1>3. Preempted /\ LastTold /\ SmemInv /\ SignalsInv
  BY <1>0 DEF Init, Preempted, LastTold, SmemInv, SignalsInv, Reads
<1>. QED  BY <1>1, <1>2, <1>3 DEF MInv

-----------------------------------------------------------------------------
(* Most steps are calm: no client is accepted, no server comes or speaks.  *)

\* The servers go on or end, and who has been told stays told.
ServersFit ==
  /\ server' \in [Pids -> ServerRec]
  /\ \A q \in Pids :
       /\ server'[q].config = server[q].config
       /\ server'[q].at = "unborn" <=> server[q].at = "unborn"
       /\ Fresh(server'[q])
       /\ Told(q) => Told(q)'
       /\ Reads(q)' => Reads(q)
       /\ Reports(q)' => Reports(q)
ClientsFit ==
  /\ client' \in [Clients -> ClientRec]
  /\ \A c \in Clients : /\ client'[c].at = "idle" <=> client[c].at = "idle"
                        /\ client'[c].wants = client[c].wants
Paths == {<<"parse", "stop">>, <<"parse", "message">>, <<"stop", "kill">>,
          <<"kill", "stopping">>, <<"stopping", "harder">>, <<"stopping", "message">>,
          <<"harder", "message">>, <<"fork", "starting">>, <<"forked", "starting">>}
Placed ==
  \/ pc' = "accept" /\ conn' = Nobody
  \/ conn' = conn /\ (pc' = pc \/ <<pc, pc'>> \in Paths)
Calm ==
  /\ ServersFit /\ ClientsFit /\ Placed
  /\ UNCHANGED <<queue, forks, smem>>
  /\ ret' \in {"none", "succ", "emsg", "ekill", "eread", "eproc"}
  /\ chldPID' \in -1 .. forks /\ (pc' \in Ending => chldPID' # 0)
  /\ released' \subseteq Locks /\ alarm' \in BOOLEAN
  /\ pending' \subseteq DOMAIN LockOf
  /\ Came("SIGUSR1")' => Came("SIGUSR1")
  /\ Came("SIGUSR2")' => Came("SIGUSR2")
  /\ LastTold'

\* A server that has been told, or that has ended, reads no message and reports
\* nothing.
LEMMA ToldIsSilent ==
  ASSUME Types, NEW p \in Pids, Told(p)
  PROVE  ~Reads(p) /\ ~Reports(p)
BY DEF Types, Told, Reads, Reports, Alive, Exists, Young, Fresh

\* So that all that do are the last one.
LEMMA OnlyLast ==
  ASSUME MInv, NEW p \in Pids, Reads(p) \/ Reports(p)
  PROVE  p = forks /\ forks > 0 /\ ~Told(forks)
<1>1. ~Told(p)
  BY ToldIsSilent DEF MInv
<1>2. p <= forks /\ p \in Nat /\ p > 0 /\ forks \in Nat
  BY DEF MInv, Types, Reads, Reports, Pids
<1>3. ~(p \in 1 .. forks - 1)
  BY <1>1 DEF MInv, Preempted, Told
<1>. QED  BY <1>1, <1>2, <1>3

LEMMA ConnTypes ==
  ASSUME Types, Placed
  PROVE  pc' \in Pcs /\ conn' \in Clients \cup {Nobody} /\ (conn' = Nobody <=> pc' = "accept")
BY DEF Types, Placed, Paths, Pcs

LEMMA CalmTypes ==
  ASSUME Types, Calm
  PROVE  Types'
<1>1. \A p \in Pids : server'[p].at = "unborn" <=> p > forks'
  BY DEF Types, Calm, ServersFit
<1>2. \A p \in Pids : Fresh(server'[p])
  BY DEF Calm, ServersFit
<1>3. server' \in [Pids -> ServerRec] /\ client' \in [Clients -> ClientRec]
  BY DEF Calm, ServersFit, ClientsFit
<1>. QED  BY <1>1, <1>2, <1>3, ConnTypes DEF Types, Calm

LEMMA CalmInTurn ==
  ASSUME Types, InTurn, Calm
  PROVE  InTurn'
<1>1. PICK k \in 0 .. N : Accepted(k)
  BY DEF InTurn
<1>2. pc' # "accept" => pc # "accept" /\ conn' = conn /\ (pc' \in Before => pc \in Before)
  <2>1. CASE pc' = "accept"
    BY <2>1
  <2>2. CASE pc' # "accept" /\ pc' = pc /\ conn' = conn
    BY <2>2
  <2>3. CASE conn' = conn /\ <<pc, pc'>> \in Paths
    BY <2>3 DEF Paths, Before
  <2>. QED  BY <2>1, <2>2, <2>3 DEF Calm, Placed
<1>3. pc' \in Before => pc' # "accept"
  BY DEF Before
<1>4. queue' = queue /\ forks' = forks
  BY DEF Calm
<1>5. \A c \in Clients : client'[c].at = "idle" <=> client[c].at = "idle"
  BY DEF Calm, ClientsFit
<1>6. Accepted(k)'
  <2>1. \A i \in 1 .. Len(queue') : queue'[i] = k + i
    BY <1>1, <1>4 DEF Accepted
  <2>2. \A c \in Clients : client'[c].at = "idle" <=> c > k + Len(queue')
    BY <1>1, <1>4, <1>5 DEF Accepted
  <2>3. pc' # "accept" => conn' = k
    BY <1>1, <1>2 DEF Accepted
  <2>4. forks' <= k /\ (pc' \in Before => forks' < k)
    BY <1>1, <1>2, <1>3, <1>4 DEF Accepted
  <2>. QED  BY <2>1, <2>2, <2>3, <2>4 DEF Accepted
<1>. QED  BY <1>6 DEF InTurn

LEMMA CalmKeeps ==
  ASSUME MInv, Calm
  PROVE  MInv'
<1>1. Types /\ InTurn /\ Preempted /\ LastTold /\ SmemInv /\ SignalsInv
  BY DEF MInv
<1>2. Types' /\ InTurn' /\ LastTold'
  BY <1>1, CalmTypes, CalmInTurn DEF Calm
<1>3. forks \in 0 .. N /\ forks' = forks /\ smem' = smem /\ N \in Nat
  BY <1>1, MperfAssumption DEF Types, Calm
<1>4. \A p \in 1 .. forks - 1 : p \in Pids
  BY <1>3 DEF Pids
<1>5. Preempted'
  <2>1. \A p \in 1 .. forks - 1 : Told(p)'
    BY <1>1, <1>4 DEF Calm, ServersFit, Preempted, Told
  <2>. QED  BY <1>3, <2>1 DEF Preempted, Told
<1>6. /\ Reads(forks)' => Reads(forks)
      /\ Reports(forks)' => Reports(forks)
      /\ forks > 0 => server'[forks].config = server[forks].config
  <2>1. forks > 0 => forks \in Pids
    BY <1>3 DEF Pids
  <2>2. (Reads(forks)' \/ Reports(forks)') => forks > 0
    BY <1>3 DEF Reads, Reports
  <2>. QED  BY <1>3, <2>1, <2>2 DEF Calm, ServersFit
<1>7. CASE pc' \in {"forked", "starting"}
  <2>1. conn' = conn /\ pc \in {"fork", "forked", "starting"}
    BY <1>7 DEF Calm, Placed, Paths
  <2>2. conn \in Clients
    BY <1>1, <2>1 DEF Types
  <2>3. Valid(conn)' <=> Valid(conn)
    <3>1. client'[conn].wants = client[conn].wants
      BY <2>2 DEF Calm, ClientsFit
    <3>. QED  BY <2>1, <2>2, <3>1 DEF Valid
  <2>4. pc = "fork" => ~Reads(forks) /\ ~Reports(forks)
    <3>1. CASE forks > 0
      BY <1>1, <1>3, <3>1, ToldIsSilent DEF LastTold, Pids
    <3>2. CASE ~(forks > 0)
      BY <3>2 DEF Reads, Reports
    <3>. QED  BY <3>1, <3>2
  <2>5. SmemInv'
    BY <1>1, <1>3, <1>6, <1>7, <2>1, <2>4 DEF SmemInv
  <2>6. Configured => Configured'
    BY <1>3, <1>6, <2>1 DEF Configured
  <2>7. SignalsInv'
    <3>1. CASE pc = "fork"
      BY <1>1, <1>3, <1>6, <1>7, <2>4, <3>1 DEF SignalsInv, Calm
    <3>2. CASE pc \in {"forked", "starting"}
      BY <1>1, <1>3, <1>6, <1>7, <2>1, <2>3, <2>6, <3>2 DEF SignalsInv, Calm
    <3>. QED  BY <2>1, <3>1, <3>2
  <2>. QED  BY <1>2, <1>5, <2>5, <2>7 DEF MInv
<1>8. CASE pc' = "fork"
  <2>1. pc = "fork" /\ conn' = conn
    BY <1>8 DEF Calm, Placed, Paths
  <2>2. SmemInv' /\ SignalsInv'
    BY <1>1, <1>3, <1>6, <1>8, <2>1 DEF SmemInv, SignalsInv, Calm
  <2>. QED  BY <1>2, <1>5, <2>2 DEF MInv
<1>9. CASE pc' \notin {"fork", "forked", "starting"}
  BY <1>1, <1>2, <1>3, <1>5, <1>6, <1>9 DEF MInv, SmemInv, SignalsInv
<1>. QED  BY <1>7, <1>8, <1>9
-----------------------------------------------------------------------------
(* What makes a step calm.                                                 *)

LEMMA ServersSame ==
  ASSUME Types, server' = server
  PROVE  ServersFit
BY DEF Types, ServersFit, Told, Alive, Exists, Reads, Reports

LEMMA ClientsSame ==
  ASSUME Types, client' = client
  PROVE  ClientsFit
BY DEF Types, ClientsFit

\* The last server: once told it stays told, and before the controller goes on to
\* the next one it has been told.
Telling == {"stopping", "harder", "message", "fork"}
LEMMA LastKept ==
  ASSUME MInv, ServersFit, forks' = forks,
         pc = "forked" => pc' = "forked" \/ chldPID' = forks,
         forks > 0 /\ chldPID = forks => chldPID' = forks \/ Told(forks)',
         pc' \in Telling => pc \in Telling \/ (forks > 0 => Told(forks)')
  PROVE  LastTold'
<1>1. forks > 0 => forks \in Pids
  BY MperfAssumption DEF MInv, Types, Pids
<1>2. forks > 0 /\ Told(forks) => Told(forks)'
  BY <1>1 DEF ServersFit
<1>. HIDE DEF Told
<1>3. LastTold
  BY DEF MInv
<1>4. forks > 0 => Told(forks)' \/ chldPID' = forks \/ pc' = "forked"
  BY <1>2, <1>3 DEF LastTold
<1>5. forks > 0 /\ pc' \in Telling => Told(forks)'
  BY <1>2, <1>3 DEF LastTold, Telling
<1>. QED  BY <1>4, <1>5 DEF LastTold, Telling

\* A server changes, and nothing else but that it may end.
LEMMA OneServer ==
  ASSUME Types, NEW p \in Pids, NEW r \in ServerRec,
         server' = [server EXCEPT ![p] = r],
         r.config = server[p].config, r.at = "unborn" <=> server[p].at = "unborn",
         Fresh(r),
         Told(p) => \/ r.at \in {"unborn", "zombie", "reaped"}
                    \/ {"SIGINT", "SIGTERM"} \cap (r.sigs \cup r.got) # {},
         r.at = "born" /\ r.sigs = {} => server[p].at = "born" /\ server[p].sigs = {},
         r.at = "report" /\ r.sigs = {} => server[p].at = "report" /\ server[p].sigs = {}
  PROVE  ServersFit
<1>1. server' \in [Pids -> ServerRec]
  BY DEF Types
<1>2. server'[p] = r /\ \A q \in Pids : q # p => server'[q] = server[q]
  BY DEF Types
<1>3. ASSUME NEW q \in Pids
      PROVE  /\ server'[q].config = server[q].config
             /\ server'[q].at = "unborn" <=> server[q].at = "unborn"
             /\ Fresh(server'[q])
             /\ Told(q) => Told(q)'
             /\ Reads(q)' => Reads(q)
             /\ Reports(q)' => Reports(q)
  <2>1. CASE q = p
    <3>1. Told(p) => Told(p)'
      BY <1>2 DEF Told, Alive, Exists
    <3>2. (Reads(p)' => Reads(p)) /\ (Reports(p)' => Reports(p))
      BY <1>2 DEF Reads, Reports
    <3>. QED  BY <1>2, <2>1, <3>1, <3>2
  <2>2. CASE q # p
    BY <1>2, <2>2 DEF Types, Told, Alive, Exists, Reads, Reports
  <2>. QED  BY <2>1, <2>2
<1>. QED  BY <1>1, <1>3 DEF ServersFit

\* The lock that a signal releases is of no other signal.
LEMMA CameKept ==
  ASSUME pending' \subseteq pending \cup {"SIGCHLD", "SIGALRM"},
         released' \subseteq released \cup {"sigchld", "sigalrm"}
  PROVE  (Came("SIGUSR1")' => Came("SIGUSR1")) /\ (Came("SIGUSR2")' => Came("SIGUSR2"))
BY LockNames DEF Came

LEMMA ServerCalm ==
  ASSUME MInv, ServersFit, UNCHANGED <<controller, smem, queue, forks>>, ClientsFit,
         pending' \subseteq pending \cup {"SIGCHLD"}
  PROVE  MInv'
<1>1. Types
  BY DEF MInv
<1>2. UNCHANGED <<pc, conn, ret, chldPID, released, alarm, smem, queue, forks>>
  BY DEF controller
<1>3. LastTold'
  <2>1. pc' = pc /\ chldPID' = chldPID /\ forks' = forks
    BY <1>2
  <2>. QED  BY <2>1, LastKept
<1>4. (Came("SIGUSR1")' => Came("SIGUSR1")) /\ (Came("SIGUSR2")' => Came("SIGUSR2"))
  BY <1>2, CameKept
<1>5. pending' \subseteq DOMAIN LockOf
  BY <1>1, LockNames DEF Types
<1>6. Placed
  BY <1>2 DEF Placed
<1>7. Calm
  BY <1>1, <1>2, <1>3, <1>4, <1>5, <1>6 DEF Calm, Types
<1>. QED  BY <1>7, CalmKeeps

-----------------------------------------------------------------------------
(* The servers.                                                            *)

LEMMA ServerTypes ==
  ASSUME Types, NEW p \in Pids
  PROVE  /\ server[p] \in ServerRec /\ server[p].at \in Places
         /\ server[p].sigs \in SUBSET {"SIGINT", "SIGTERM", "SIGALRM"}
         /\ server[p].got \in SUBSET {"SIGINT", "SIGTERM", "SIGALRM"}
         /\ server[p].backlog \in Seq(Clients)
         /\ server[p].config \in {Nobody} \cup Clients
         /\ server[p].peer \in {Nobody} \cup Clients
         /\ Fresh(server[p])
<1>1. server[p] \in ServerRec /\ (Fresh(server[p]))
  BY DEF Types
<1>. QED  BY <1>1 DEF ServerRec

LEMMA ExitKeeps ==
  ASSUME MInv, NEW p \in Pids, server[p].at # "unborn", Exit(p)
  PROVE  MInv'
<1>1. Types
  BY DEF MInv
<1>2. Dead(p) \in ServerRec /\ Dead(p).at = "zombie" /\ Dead(p).config = server[p].config
  <2>1. server[p] \in ServerRec /\ <<>> \in Seq(Clients)
    BY <1>1, ServerTypes
  <2>. QED  BY <2>1 DEF Dead, ServerRec, Places
<1>3. ServersFit
  <2>. HIDE DEF Dead
  <2>1. server' = [server EXCEPT ![p] = Dead(p)]
    BY DEF Exit
  <2>. QED  BY <1>1, <1>2, <2>1, OneServer DEF Young, Fresh
<1>. QED  BY <1>1, <1>3, ServerCalm, ClientsSame DEF Exit

\* It goes on, by itself: there is no signal for it.
LEMMA GoesKeeps ==
  ASSUME MInv, NEW p \in Pids, NEW place \in Places,
         Alive(p), Goes(p, place),
         place \notin {"unborn", "born", "report", "bind"}
  PROVE  MInv'
<1>. DEFINE r == [server[p] EXCEPT !.at = place]
<1>1. Types
  BY DEF MInv
<1>2. r \in ServerRec /\ r.at = place /\ r.config = server[p].config
      /\ r.sigs = server[p].sigs /\ r.got = server[p].got
  BY <1>1, ServerTypes DEF ServerRec
<1>3. ServersFit
  <2>1. server' = [server EXCEPT ![p] = r]
    BY DEF Goes
  <2>2. Told(p) => \/ r.at \in {"unborn", "zombie", "reaped"}
                   \/ {"SIGINT", "SIGTERM"} \cap (r.sigs \cup r.got) # {}
    BY <1>2 DEF Told
  <2>3. server[p].at # "unborn"
    BY DEF Alive, Exists
  <2>. HIDE DEF r
  <2>. QED  BY <1>1, <1>2, <2>1, <2>2, <2>3, OneServer DEF Young, Fresh
<1>. QED  BY <1>1, <1>3, ServerCalm, ClientsSame DEF Goes

\* A server that has been told it is to end, or that a signal has reached.
LEMMA InterruptedKeeps ==
  ASSUME MInv, NEW p \in Pids, server[p].at # "unborn", Interrupted(p)
  PROVE  MInv'
<1>1. Types
  BY DEF MInv
<1>2. PICK sig \in server[p].sigs \ {"SIGTERM"} :
    \/ ~Running(p) /\ Exit(p)
    \/ /\ Running(p)
       /\ \E place \in {server[p].at} \cup Wakes(p) :
            server' = [server EXCEPT ![p] = Handled(p, sig, place)]
       /\ UNCHANGED <<controller, pending, smem, queue, forks, client>>
  BY DEF Interrupted
<1>3. CASE ~Running(p) /\ Exit(p)
  BY <1>3, ExitKeeps
<1>4. ASSUME Running(p), NEW place \in {server[p].at} \cup Wakes(p),
             server' = [server EXCEPT ![p] = Handled(p, sig, place)],
             UNCHANGED <<controller, pending, smem, queue, forks, client>>
      PROVE  MInv'
  <2>. DEFINE r == Handled(p, sig, place)
  <2>1. place \in {"check", "accept", "test", "io", "exit"}
    BY <1>4 DEF Running, Wakes
  <2>2. r \in ServerRec /\ r.at = place /\ r.config = server[p].config
        /\ r.sigs = server[p].sigs \ {sig} /\ r.got = server[p].got \cup {sig}
    <3>1. server[p] \in ServerRec /\ sig \in {"SIGINT", "SIGTERM", "SIGALRM"}
      BY <1>1, ServerTypes
    <3>. QED  BY <2>1, <3>1 DEF ServerRec, Places, Handled
  <2>3. r.sigs \cup r.got = server[p].sigs \cup server[p].got
    BY <2>2
  <2>4. Told(p) => {"SIGINT", "SIGTERM"} \cap (r.sigs \cup r.got) # {}
    BY <1>4, <2>3 DEF Told, Alive, Exists, Running
  <2>5. server' = [server EXCEPT ![p] = r]
    BY <1>4
  <2>. HIDE DEF r
  <2>6. ServersFit
    BY <1>1, <2>1, <2>2, <2>4, <2>5, OneServer DEF Young, Fresh
  <2>. QED  BY <1>1, <1>4, <2>6, ServerCalm, ClientsSame
<1>. QED  BY <1>2, <1>3, <1>4

LEMMA AcceptTestKeeps ==
  ASSUME MInv, NEW p \in Pids, AcceptTest(p)
  PROVE  MInv'
<1>1. Types
  BY DEF MInv
<1>2. server[p].at = "accept" /\ server[p].sigs = {} /\ server[p].backlog # <<>>
  BY DEF AcceptTest, Steps
<1>3. CASE server[p].got # {}
  BY <1>2, <1>3, ExitKeeps DEF AcceptTest
<1>4. CASE server[p].got = {}
  <2>. DEFINE r == [server[p] EXCEPT !.at = "test", !.peer = Head(server[p].backlog),
                                     !.backlog = <<>>]
  <2>1. server' = [server EXCEPT ![p] = r] /\ UNCHANGED <<controller, pending, smem, queue, forks, client>>
    BY <1>4 DEF AcceptTest
  <2>2. r \in ServerRec /\ r.at = "test" /\ r.config = server[p].config
        /\ r.sigs = server[p].sigs /\ r.got = server[p].got
    <3>1. server[p] \in ServerRec /\ Head(server[p].backlog) \in Clients /\ <<>> \in Seq(Clients)
      BY <1>1, <1>2, ServerTypes
    <3>. QED  BY <3>1 DEF ServerRec, Places
  <2>3. ~Told(p)
    BY <1>2, <1>4 DEF Told, Alive, Exists
  <2>. HIDE DEF r
  <2>4. ServersFit
    BY <1>1, <1>2, <2>1, <2>2, <2>3, OneServer DEF Young, Fresh
  <2>. QED  BY <1>1, <2>1, <2>4, ServerCalm, ClientsSame
<1>. QED  BY <1>3, <1>4

LEMMA TestAlarmKeeps ==
  ASSUME MInv, NEW p \in Pids, TestAlarm(p)
  PROVE  MInv'
<1>1. Types
  BY DEF MInv
<1>. DEFINE r == [server[p] EXCEPT !.sigs = @ \cup {"SIGALRM"}]
<1>2. server' = [server EXCEPT ![p] = r] /\ UNCHANGED <<controller, pending, smem, queue, forks, client>>
      /\ server[p].at \in {"test", "io"}
  BY DEF TestAlarm
<1>3. r \in ServerRec /\ r.at = server[p].at /\ r.config = server[p].config
      /\ r.sigs = server[p].sigs \cup {"SIGALRM"} /\ r.got = server[p].got
  BY <1>1, ServerTypes DEF ServerRec
<1>4. Told(p) => {"SIGINT", "SIGTERM"} \cap (r.sigs \cup r.got) # {}
  BY <1>2, <1>3 DEF Told, Alive, Exists
<1>. HIDE DEF r
<1>5. ServersFit
  BY <1>1, <1>2, <1>3, <1>4, OneServer DEF Young, Fresh
<1>. QED  BY <1>1, <1>2, <1>5, ServerCalm, ClientsSame

\* What needs no more than that the server ends or goes on.
LEMMA PlainServerKeeps ==
  ASSUME MInv, NEW p \in Pids,
         Bind(p) \/ Check(p) \/ Test(p) \/ Io(p) \/ ExitTest(p)
  PROVE  MInv'
<1>1. Alive(p) /\ server[p].at # "unborn"
  BY DEF Bind, Check, Test, Io, ExitTest, Steps, Alive, Exists
<1>2. \/ Exit(p)
      \/ \E place \in {"check", "accept", "io", "exit", "test"} : Goes(p, place)
  BY DEF Bind, Check, Test, Io, ExitTest
<1>3. {"check", "accept", "io", "exit", "test"} \subseteq Places
  BY DEF Places
<1>. QED  BY <1>1, <1>2, <1>3, ExitKeeps, GoesKeeps

\* The server that is configured is the last one, and reads the request of the
\* client that is served.
LEMMA ConfigureKeeps ==
  ASSUME MInv, NEW p \in Pids, Configure(p)
  PROVE  MInv'
<1>1. Types
  BY DEF MInv
<1>2. server[p].at = "born" /\ server[p].sigs = {} /\ p > 0
  BY DEF Configure, Steps, Pids
<1>3. CASE Exit(p)
  BY <1>2, <1>3, ExitKeeps
<1>4. CASE /\ server' = [server EXCEPT ![p].at = "report", ![p].config = smem]
           /\ UNCHANGED <<controller, pending, smem, queue, forks, client>>
  <2>1. p = forks /\ forks > 0 /\ ~Told(forks) /\ smem \in Clients
    BY <1>2, OnlyLast DEF Reads, MInv, SmemInv
  <2>2. UNCHANGED <<pc, conn, ret, chldPID, released, alarm, pending, smem, queue, forks, client>>
    BY <1>4 DEF controller
  <2>3. /\ server'[p].at = "report" /\ server'[p].config = smem
        /\ server'[p].got = server[p].got /\ server'[p].sigs = server[p].sigs
        /\ \A q \in Pids : q # p => server'[q] = server[q]
        /\ server' \in [Pids -> ServerRec]
    <3>1. server[p] \in ServerRec
      BY <1>1, ServerTypes
    <3>2. [server[p] EXCEPT !.at = "report", !.config = smem] \in ServerRec
      BY <2>1, <3>1 DEF ServerRec, Places
    <3>. QED  BY <1>1, <1>4, <3>1, <3>2 DEF Types
  <2>4. server[p].got = {} /\ server[p].at # "unborn"
    BY <1>1, <1>2, ServerTypes DEF Young, Fresh
  <2>5. Types'
    <3>1. \A q \in Pids : server'[q].at = "unborn" <=> q > forks
      BY <1>1, <2>3, <2>4 DEF Types
    <3>2. \A q \in Pids : Fresh(server'[q])
      BY <1>1, <2>3, <2>4 DEF Types, Fresh
    <3>. QED  BY <1>1, <2>2, <2>3, <3>1, <3>2 DEF Types
  <2>6. InTurn'
    <3>1. PICK k \in 0 .. N : Accepted(k)
      BY DEF MInv, InTurn
    <3>2. Accepted(k)'
      BY <2>2, <3>1 DEF Accepted
    <3>. QED  BY <3>2 DEF InTurn
  <2>7. Preempted'
    <3>1. \A q \in 1 .. forks - 1 : q \in Pids /\ q # p
      BY <1>1, <2>1, MperfAssumption DEF Types, Pids
    <3>. QED  BY <2>2, <2>3, <3>1 DEF MInv, Preempted, Alive, Exists
  <2>8. pc \notin Telling /\ (chldPID = forks \/ pc = "forked")
    BY <2>1 DEF MInv, LastTold, Telling
  <2>9. LastTold'
    BY <2>2, <2>8 DEF LastTold, Telling
  <2>10. SmemInv'
    BY <2>1, <2>2, <2>3, <2>8 DEF SmemInv, Reads, Telling
  <2>11. SignalsInv'
    <3>1. CASE pc \in {"forked", "starting"}
      <4>1. smem = conn
        BY <1>2, <2>1, <3>1 DEF MInv, SmemInv, Reads
      <4>2. Configured'
        BY <2>1, <2>2, <2>3, <4>1 DEF Configured
      <4>3. (Came("SIGUSR1")' <=> Came("SIGUSR1")) /\ (Came("SIGUSR2")' <=> Came("SIGUSR2"))
        BY <2>2 DEF Came
      <4>4. Valid(conn)' <=> Valid(conn)
        BY <2>2 DEF Valid
      <4>. QED  BY <2>2, <2>8, <3>1, <4>2, <4>3, <4>4 DEF MInv, SignalsInv, Telling
    <3>2. CASE pc \notin {"forked", "starting"}
      BY <2>2, <2>8, <3>2 DEF SignalsInv, Telling
    <3>. QED  BY <3>1, <3>2
  <2>. QED  BY <2>5, <2>6, <2>7, <2>9, <2>10, <2>11 DEF MInv
<1>. QED  BY <1>3, <1>4 DEF Configure

\* So is the server that reports, and it has that client's arguments.
LEMMA ReportKeeps ==
  ASSUME MInv, NEW p \in Pids, Report(p)
  PROVE  MInv'
<1>. DEFINE valid == Valid(server[p].config)
            sig   == IF valid THEN "SIGUSR1" ELSE "SIGUSR2"
<1>1. Types
  BY DEF MInv
<1>2. server[p].at = "report" /\ server[p].sigs = {} /\ p > 0
  BY DEF Report, Steps, Pids
<1>3. p = forks /\ forks > 0 /\ ~Told(forks)
  BY <1>2, OnlyLast DEF Reports
<1>4. /\ pending' = pending \cup {sig}
      /\ smem' \in {Error, smem}
      /\ server' = [server EXCEPT ![p].at = IF valid THEN "bind" ELSE "exit"]
      /\ UNCHANGED <<pc, conn, ret, chldPID, released, alarm, queue, forks, client>>
  BY DEF Report, controller
<1>5. server[p].got = {} /\ server[p].at # "unborn" /\ server[p] \in ServerRec
  BY <1>1, <1>2, ServerTypes DEF Young, Fresh
<1>6. /\ server'[p].at \in {"bind", "exit"} /\ server'[p].config = server[p].config
      /\ server'[p].got = server[p].got
      /\ \A q \in Pids : q # p => server'[q] = server[q]
      /\ server' \in [Pids -> ServerRec]
  <2>1. \A place \in {"bind", "exit"} : [server[p] EXCEPT !.at = place] \in ServerRec
    BY <1>5 DEF ServerRec, Places
  <2>. QED  BY <1>1, <1>4, <1>5, <2>1 DEF Types
<1>7. Types'
  <2>1. \A q \in Pids : server'[q].at = "unborn" <=> q > forks
    BY <1>1, <1>5, <1>6 DEF Types
  <2>2. \A q \in Pids : Fresh(server'[q])
    BY <1>1, <1>5, <1>6 DEF Types, Fresh
  <2>3. smem' \in 0 .. N + 1
    BY <1>1, <1>4, MperfAssumption DEF Types, Error
  <2>4. pending' \subseteq DOMAIN LockOf
    BY <1>1, <1>4, LockNames DEF Types
  <2>. QED  BY <1>1, <1>4, <1>6, <2>1, <2>2, <2>3, <2>4 DEF Types
<1>8. InTurn'
  <2>1. PICK k \in 0 .. N : Accepted(k)
    BY DEF MInv, InTurn
  <2>2. Accepted(k)'
    BY <1>4, <2>1 DEF Accepted
  <2>. QED  BY <2>2 DEF InTurn
<1>9. Preempted'
  <2>1. \A q \in 1 .. forks - 1 : q \in Pids /\ q # p
    BY <1>1, <1>3, MperfAssumption DEF Types, Pids
  <2>. QED  BY <1>4, <1>6, <2>1 DEF MInv, Preempted, Alive, Exists
<1>10. pc \notin Telling /\ (chldPID = forks \/ pc = "forked")
  BY <1>3 DEF MInv, LastTold, Telling
<1>11. LastTold'
  BY <1>4, <1>10 DEF LastTold, Telling
<1>12. SmemInv'
  BY <1>3, <1>4, <1>6, <1>10 DEF SmemInv, Reads, Telling
<1>13. SignalsInv'
  <2>1. CASE pc \in {"forked", "starting"}
    <3>1. Configured /\ Configured'
      BY <1>2, <1>3, <1>4, <1>6, <2>1 DEF MInv, SignalsInv, Reports, Configured
    <3>2. (Valid(conn)' <=> Valid(conn)) /\ (Valid(conn) <=> valid)
      BY <1>3, <1>4, <3>1 DEF Valid, Configured
    <3>3. /\ Came("SIGUSR1")' => Came("SIGUSR1") \/ valid
          /\ Came("SIGUSR2")' => Came("SIGUSR2") \/ ~valid
      BY <1>4 DEF Came
    <3>. QED  BY <1>4, <1>10, <2>1, <3>1, <3>2, <3>3 DEF MInv, SignalsInv, Telling
  <2>2. CASE pc \notin {"forked", "starting"}
    BY <1>4, <1>10, <2>2 DEF SignalsInv, Telling
  <2>. QED  BY <2>1, <2>2
<1>. QED  BY <1>7, <1>8, <1>9, <1>11, <1>12, <1>13 DEF MInv

LEMMA ServerKeeps ==
  ASSUME MInv, NEW p \in Pids, Server(p) \/ Io(p) \/ TestAlarm(p)
  PROVE  MInv'
<1>0. server[p].sigs # {} => server[p].at # "unborn"
  BY ServerTypes DEF MInv, Fresh
<1>1. CASE Terminated(p)
  BY <1>0, <1>1, ExitKeeps DEF Terminated
<1>2. CASE Interrupted(p)
  <2>1. server[p].sigs # {}
    BY <1>2 DEF Interrupted
  <2>. QED  BY <1>0, <1>2, <2>1, InterruptedKeeps
<1>. QED  BY <1>1, <1>2, ConfigureKeeps, ReportKeeps, PlainServerKeeps, AcceptTestKeeps,
             TestAlarmKeeps DEF Server

-----------------------------------------------------------------------------
(* The clients.                                                            *)

LEMMA ClientTypes ==
  ASSUME Types, NEW c \in Clients
  PROVE  client[c] \in ClientRec /\ client[c].sent \in Nat /\ client[c].wants \in Requests \cup {"none"}
<1>1. client[c] \in ClientRec
  BY DEF Types
<1>. QED  BY <1>1 DEF ClientRec

\* A client goes on: it was there before.
LEMMA OneClient ==
  ASSUME Types, NEW c \in Clients, NEW r \in ClientRec,
         client' = [client EXCEPT ![c] = r],
         r.at = "idle" <=> client[c].at = "idle", r.wants = client[c].wants
  PROVE  ClientsFit
<1>1. client' \in [Clients -> ClientRec] /\ client'[c] = r
      /\ \A d \in Clients : d # c => client'[d] = client[d]
  BY DEF Types
<1>. QED  BY <1>1 DEF ClientsFit

LEMMA SendStopKeep ==
  ASSUME MInv, NEW c \in Clients, Send(c) \/ Stop(c)
  PROVE  MInv'
<1>1. Types
  BY DEF MInv
<1>2. PICK r \in ClientRec :
        /\ client' = [client EXCEPT ![c] = r]
        /\ r.at # "idle" /\ r.wants = client[c].wants
  <2>1. client[c] \in ClientRec /\ client[c].sent + 1 \in Nat
    BY <1>1, ClientTypes
  <2>2. CASE Send(c)
    <3>. DEFINE r == [client[c] EXCEPT !.sent = @ + 1]
    <3>1. r \in ClientRec /\ r.at # "idle" /\ r.wants = client[c].wants
      BY <2>1, <2>2 DEF ClientRec, Send
    <3>2. client' = [client EXCEPT ![c] = r]
      BY <2>2 DEF Send
    <3>. QED  BY <3>1, <3>2
  <2>3. CASE Stop(c)
    <3>. DEFINE r == [client[c] EXCEPT !.at = "gone"]
    <3>1. r \in ClientRec /\ r.at # "idle" /\ r.wants = client[c].wants
      BY <2>1 DEF ClientRec
    <3>2. client' = [client EXCEPT ![c] = r]
      BY <2>3 DEF Stop
    <3>. QED  BY <3>1, <3>2
  <2>. QED  BY <2>2, <2>3
<1>3. client[c].at # "idle"
  BY DEF Send, Stop
<1>4. ClientsFit
  BY <1>1, <1>2, <1>3, OneClient
<1>5. UNCHANGED <<controller, pending, smem, queue, forks, server>>
  BY DEF Send, Stop
<1>. QED  BY <1>1, <1>4, <1>5, ServersSame, ServerCalm

LEMMA ConnectKeeps ==
  ASSUME MInv, NEW c \in Clients, Connect(c)
  PROVE  MInv'
<1>1. Types
  BY DEF MInv
<1>2. ClientsFit
  <2>. DEFINE r == [client[c] EXCEPT !.at = "gone"]
  <2>1. r \in ClientRec /\ r.at # "idle" /\ r.wants = client[c].wants
    BY <1>1, ClientTypes DEF ClientRec
  <2>2. client' = [client EXCEPT ![c] = r] /\ client[c].at # "idle"
    BY DEF Connect
  <2>. HIDE DEF r
  <2>. QED  BY <1>1, <2>1, <2>2, OneClient
<1>3. ServersFit
  <2>1. CASE server' = server
    BY <1>1, <2>1, ServersSame
  <2>2. ASSUME NEW p \in Pids, server' = [server EXCEPT ![p].backlog = Append(@, c)]
        PROVE  ServersFit
    <3>. DEFINE r == [server[p] EXCEPT !.backlog = Append(@, c)]
    <3>1. r \in ServerRec /\ r.at = server[p].at /\ r.config = server[p].config
          /\ r.sigs = server[p].sigs /\ r.got = server[p].got
      <4>1. Append(server[p].backlog, c) \in Seq(Clients) /\ server[p] \in ServerRec
        BY <1>1, ServerTypes
      <4>. QED  BY <4>1 DEF ServerRec
    <3>2. server' = [server EXCEPT ![p] = r]
      BY <2>2
    <3>3. Told(p) => \/ r.at \in {"unborn", "zombie", "reaped"}
                     \/ {"SIGINT", "SIGTERM"} \cap (r.sigs \cup r.got) # {}
      BY <3>1 DEF Told, Alive, Exists
    <3>4. Fresh(r)
      BY <1>1, <3>1, ServerTypes DEF Fresh
    <3>. HIDE DEF r
    <3>. QED  BY <1>1, <3>1, <3>2, <3>3, <3>4, OneServer
  <2>. QED  BY <2>1, <2>2 DEF Connect
<1>4. UNCHANGED <<controller, pending, smem, queue, forks>>
  BY DEF Connect
<1>. QED  BY <1>2, <1>3, <1>4, ServerCalm

\* The next in the order of the numbers waits at the end of the queue.
LEMMA DialKeeps ==
  ASSUME MInv, NEW c \in Clients, Dial(c)
  PROVE  MInv'
<1>1. Types
  BY DEF MInv
<1>2. PICK k \in 0 .. N : Accepted(k)
  BY DEF MInv, InTurn
<1>3. N \in Nat /\ c \in 1 .. N /\ queue \in Seq(Clients) /\ Len(queue) \in Nat
  BY <1>1, MperfAssumption DEF Types, Clients
<1>4. c = k + Len(queue) + 1
  <2>1. c > k + Len(queue) /\ \A d \in 1 .. c - 1 : ~(d > k + Len(queue))
    BY <1>2, <1>3 DEF Dial, Accepted, Clients
  <2>2. CASE c > k + Len(queue) + 1
    <3>1. c - 1 \in 1 .. c - 1
      BY <1>2, <1>3, <2>2
    <3>. QED  BY <1>2, <1>3, <2>1, <2>2, <3>1
  <2>. QED  BY <1>2, <1>3, <2>1, <2>2
<1>5. /\ queue' = Append(queue, c)
      /\ UNCHANGED <<pc, conn, ret, chldPID, released, alarm, pending, smem, forks, server>>
  BY DEF Dial, controller
<1>6. PICK w \in Wants[c] : client' = [client EXCEPT ![c].at = "asking", ![c].wants = w]
  BY DEF Dial
<1>7. /\ client' \in [Clients -> ClientRec] /\ client'[c].at = "asking"
      /\ \A d \in Clients : d # c => client'[d] = client[d]
  <2>1. client[c] \in ClientRec /\ w \in Requests
    BY <1>1, <1>6, MperfAssumption, ClientTypes
  <2>2. [client[c] EXCEPT !.at = "asking", !.wants = w] \in ClientRec
    BY <2>1 DEF ClientRec
  <2>. QED  BY <1>1, <1>6, <2>1, <2>2 DEF Types
<1>8. Types'
  <2>1. queue' \in Seq(Clients)
    BY <1>3, <1>5
  <2>. QED  BY <1>1, <1>5, <1>7, <2>1 DEF Types
<1>9. Accepted(k)'
  <2>1. /\ Len(queue') = Len(queue) + 1
        /\ \A i \in 1 .. Len(queue) : queue'[i] = queue[i]
        /\ queue'[Len(queue) + 1] = c
    BY <1>3, <1>5
  <2>2. ASSUME NEW i \in 1 .. Len(queue') PROVE queue'[i] = k + i
    <3>1. i \in 1 .. Len(queue) \/ i = Len(queue) + 1
      BY <1>3, <2>1
    <3>2. CASE i \in 1 .. Len(queue)
      <4>1. queue[i] = k + i
        BY <1>2, <3>2 DEF Accepted
      <4>. QED  BY <2>1, <3>2, <4>1
    <3>3. CASE i = Len(queue) + 1
      <4>1. queue'[i] = c
        BY <2>1, <3>3
      <4>2. c = k + i
        BY <1>2, <1>3, <1>4, <3>3
      <4>. QED  BY <4>1, <4>2
    <3>. QED  BY <3>1, <3>2, <3>3
  <2>3. ASSUME NEW d \in Clients
        PROVE  client'[d].at = "idle" <=> d > k + Len(queue')
    <3>1. d \in Int /\ k \in Int /\ (client[d].at = "idle" <=> d > k + Len(queue))
      BY <1>2, <1>3 DEF Accepted, Clients
    <3>2. CASE d = c
      BY <1>3, <1>4, <1>7, <2>1, <3>1, <3>2
    <3>3. CASE d # c
      <4>1. client'[d] = client[d] /\ (d > k + Len(queue) <=> d > k + Len(queue) + 1)
        BY <1>3, <1>4, <1>7, <3>1, <3>3
      <4>. QED  BY <1>3, <2>1, <3>1, <4>1
    <3>. QED  BY <3>2, <3>3
  <2>. QED  BY <1>2, <1>5, <2>2, <2>3 DEF Accepted
<1>10. pc # "accept" => Valid(conn)' = Valid(conn)
  <2>1. pc # "accept" => conn = k /\ conn \in Clients
    BY <1>1, <1>2 DEF Accepted, Types
  <2>2. pc # "accept" => conn # c
    BY <1>2, <1>3, <1>4, <2>1
  <2>. QED  BY <1>5, <1>7, <2>1, <2>2 DEF Valid
<1>11. SignalsInv'
  BY <1>5, <1>10 DEF MInv, SignalsInv, Came, Configured, Reports
<1>12. Preempted' /\ LastTold' /\ SmemInv'
  BY <1>5 DEF MInv, Preempted, LastTold, SmemInv, Told, Alive, Exists, Reads
<1>13. InTurn'
  BY <1>9 DEF InTurn
<1>. QED  BY <1>8, <1>11, <1>12, <1>13 DEF MInv
-----------------------------------------------------------------------------
(* The controller.                                                         *)

\* The client that is served has dialled.
LEMMA ConnDialled ==
  ASSUME MInv, pc # "accept"
  PROVE  conn \in Clients /\ client[conn].at # "idle"
<1>1. PICK k \in 0 .. N : Accepted(k)
  BY DEF MInv, InTurn
<1>2. conn = k /\ conn \in Clients /\ queue \in Seq(Clients)
  BY <1>1 DEF MInv, Types, Accepted
<1>3. Len(queue) \in Nat /\ ~(k > k + Len(queue))
  BY <1>1, <1>2, MperfAssumption
<1>. QED  BY <1>1, <1>2, <1>3 DEF Accepted

LEMMA AnswerFits ==
  ASSUME MInv, pc # "accept", NEW r, Answer(r) \/ HangUp
  PROVE  ClientsFit /\ pc' = "accept" /\ conn' = Nobody
<1>1. conn \in Clients /\ client[conn].at # "idle" /\ Types
  BY ConnDialled DEF MInv
<1>2. PICK place \in {"gone", "answered", "asking"} \cup {client[conn].at} :
        client' = [client EXCEPT ![conn].at = place] /\ place # "idle"
  <2>1. CASE Answer(r)
    <3>. DEFINE place == IF client[conn].at = "asking" THEN "answered" ELSE client[conn].at
    <3>1. client' = [client EXCEPT ![conn].at = place]
      BY <2>1 DEF Answer
    <3>. QED  BY <1>1, <3>1
  <2>2. CASE HangUp
    BY <2>2 DEF HangUp
  <2>. QED  BY <2>1, <2>2
<1>. DEFINE s == [client[conn] EXCEPT !.at = place]
<1>3. s \in ClientRec /\ s.at # "idle" /\ s.wants = client[conn].wants
  <2>1. client[conn] \in ClientRec
    BY <1>1 DEF Types
  <2>2. place \in {"idle", "asking", "answered", "gone"}
    BY <1>2, <2>1 DEF ClientRec
  <2>. QED  BY <1>2, <2>1, <2>2 DEF ClientRec
<1>4. client' = [client EXCEPT ![conn] = s]
  BY <1>2
<1>. HIDE DEF s
<1>5. ClientsFit
  BY <1>1, <1>3, <1>4, OneClient
<1>. QED  BY <1>5 DEF Answer, HangUp

Rets == {"none", "succ", "emsg", "ekill", "eread", "eproc"}

\* A step of the controller that is calm but perhaps for the last server.
LEMMA ControllerCalm ==
  ASSUME MInv, ServersFit, ClientsFit, Placed, LastTold',
         UNCHANGED <<smem, queue, forks>>,
         ret' \in Rets, chldPID' \in -1 .. forks, alarm' \in BOOLEAN,
         pc' \in Ending => chldPID' # 0,
         pending' \subseteq pending \cup {"SIGALRM"},
         released' \subseteq released \cup {"sigchld", "sigalrm"}
  PROVE  MInv'
<1>1. Types
  BY DEF MInv
<1>2. (Came("SIGUSR1")' => Came("SIGUSR1")) /\ (Came("SIGUSR2")' => Came("SIGUSR2"))
  BY CameKept
<1>3. pending' \subseteq DOMAIN LockOf
  BY <1>1, LockNames DEF Types
<1>4. released' \subseteq Locks
  BY <1>1 DEF Types, Locks
<1>5. Calm
  BY <1>1, <1>2, <1>3, <1>4 DEF Calm, Rets
<1>. QED  BY <1>5, CalmKeeps

LEMMA ControllerTypes ==
  ASSUME MInv
  PROVE  /\ Types /\ ret \in Rets /\ alarm \in BOOLEAN /\ chldPID \in -1 .. forks
         /\ forks \in 0 .. N /\ N \in Nat
BY MperfAssumption DEF MInv, Types, Rets

\* The last server has been told already, or the controller has its number.
LEMMA LastByNumber ==
  ASSUME MInv, pc \notin {"forked"}, chldPID # forks
  PROVE  forks > 0 => Told(forks)
BY DEF MInv, LastTold

LEMMA ParseKeeps ==
  ASSUME MInv, Parse
  PROVE  MInv'
<1>1. /\ pc = "parse"
      /\ UNCHANGED <<chldPID, released, alarm, pending, smem, queue, forks, server>>
  BY DEF Parse, At
<1>2. ServersFit
  BY <1>1, ControllerTypes, ServersSame
<1>3. ClientsFit /\ Placed /\ ret' \in Rets /\ pc' \in {"stop", "accept", "message"}
      /\ (pc' = "message" => ~(chldPID > 0))
  <2>1. CASE Answer("succ")
    <3>1. ret' = "succ" /\ pc' = "accept"
      BY <2>1 DEF Answer
    <3>. QED  BY <1>1, <2>1, <3>1, AnswerFits DEF Placed, Rets
  <2>2. CASE pc' = "stop" /\ UNCHANGED <<conn, ret, client>>
    BY <1>1, <2>2, ClientsSame, ControllerTypes DEF Placed, Paths
  <2>3. CASE pc' = "message" /\ ~(chldPID > 0) /\ UNCHANGED <<conn, ret, client>>
    BY <1>1, <2>3, ClientsSame, ControllerTypes DEF Placed, Paths
  <2>. QED  BY <2>1, <2>2, <2>3 DEF Parse
<1>4. pc' \in Telling => (forks > 0 => Told(forks)')
  <2>1. SUFFICES ASSUME pc' = "message", forks > 0 PROVE Told(forks)'
    BY <1>3 DEF Telling
  <2>2. chldPID # forks
    BY <1>3, <2>1, ControllerTypes
  <2>3. Told(forks)
    BY <1>1, <2>1, <2>2, LastByNumber
  <2>. QED  BY <1>1, <2>3 DEF Told, Alive, Exists
<1>5. LastTold'
  BY <1>1, <1>2, <1>4, LastKept
<1>6. pc' \in Ending => chldPID' # 0
  <2>1. pc' = "stop" => chldPID > 0
    BY <1>1, AnswerFits DEF Parse, Answer
  <2>2. pc' \in Ending => pc' = "stop"
    BY <1>3 DEF Ending
  <2>. QED  BY <1>1, <2>1, <2>2, ControllerTypes
<1>. QED  BY <1>1, <1>2, <1>3, <1>5, <1>6, ControllerCalm, ControllerTypes

LEMMA StopBeginKeeps ==
  ASSUME MInv, StopBegin
  PROVE  MInv'
<1>1. /\ pc = "stop" /\ pc' = "kill" /\ alarm' = TRUE /\ released' \subseteq released
      /\ UNCHANGED <<conn, ret, chldPID, pending, smem, queue, forks, server, client>>
  BY DEF StopBegin, At
<1>2. ServersFit /\ ClientsFit
  BY <1>1, ControllerTypes, ServersSame, ClientsSame
<1>3. LastTold'
  BY <1>1, <1>2, LastKept DEF Telling
<1>4. Placed
  BY <1>1 DEF Placed, Paths
<1>5. chldPID # 0
  BY <1>1 DEF MInv, Types, Ending
<1>. QED  BY <1>1, <1>2, <1>3, <1>4, <1>5, ControllerCalm, ControllerTypes

\* What is signalled stays told, and a target is told.
LEMMA SignalledFits ==
  ASSUME MInv, pc \in Ending, NEW sig \in {"SIGINT", "SIGTERM"}, Signalled(sig), forks' = forks
  PROVE  /\ ServersFit
         /\ chldPID = forks /\ forks > 0 => Told(forks)'
<1>1. Types
  BY DEF MInv
<1>2. ASSUME NEW p \in Pids
      PROVE  server'[p] = IF p \in Targets THEN [server[p] EXCEPT !.sigs = @ \cup {sig}]
                                            ELSE server[p]
  BY <1>2 DEF Signalled
<1>3. Targets \subseteq Pids /\ \A p \in Targets : Exists(p)
  BY <1>1, ControllerTypes DEF Targets, Types, Pids
<1>4. ASSUME NEW p \in Targets
      PROVE  /\ server'[p] \in ServerRec /\ server'[p].at = server[p].at
             /\ server'[p].config = server[p].config /\ server'[p].got = server[p].got
             /\ server'[p].sigs = server[p].sigs \cup {sig} /\ server[p].at # "unborn"
  <2>1. server[p] \in ServerRec /\ server[p].at # "unborn" /\ p \in Pids
    BY <1>1, <1>3, <1>4, ServerTypes DEF Exists
  <2>2. server'[p] = [server[p] EXCEPT !.sigs = @ \cup {sig}]
    BY <1>2, <1>4, <2>1
  <2>. QED  BY <2>1, <2>2 DEF ServerRec
<1>5. ServersFit
  <2>1. server' \in [Pids -> ServerRec]
    <3>1. \A p \in Pids : server'[p] \in ServerRec
      BY <1>1, <1>2, <1>4 DEF Types
    <3>2. server' = [p \in Pids |-> server'[p]]
      BY DEF Signalled
    <3>. QED  BY <3>1, <3>2
  <2>2. ASSUME NEW q \in Pids
        PROVE  /\ server'[q].config = server[q].config
               /\ server'[q].at = "unborn" <=> server[q].at = "unborn"
               /\ Fresh(server'[q])
               /\ Told(q) => Told(q)'
               /\ Reads(q)' => Reads(q)
               /\ Reports(q)' => Reports(q)
    <3>1. CASE q \in Targets
      <4>1. server'[q].sigs # {} /\ sig \in server'[q].sigs
        BY <1>4, <3>1
      <4>2. Fresh(server'[q])
        BY <1>1, <1>4, <3>1, ServerTypes DEF Fresh
      <4>3. Told(q)'
        BY <4>1 DEF Told
      <4>4. ~Reads(q)' /\ ~Reports(q)'
        BY <4>1 DEF Reads, Reports
      <4>. QED  BY <1>4, <3>1, <4>2, <4>3, <4>4
    <3>2. CASE q \notin Targets
      <4>1. server'[q] = server[q]
        BY <1>2, <3>2
      <4>. QED  BY <1>1, <4>1, ServerTypes DEF Told, Alive, Exists, Reads, Reports
    <3>. QED  BY <3>1, <3>2
  <2>. QED  BY <2>1, <2>2 DEF ServersFit
<1>6. ASSUME chldPID = forks, forks > 0
      PROVE  Told(forks)'
  <2>1. forks \in Pids /\ chldPID # -1
    BY <1>6, ControllerTypes DEF Pids
  <2>2. CASE Exists(forks)
    <3>1. forks \in Targets
      BY <1>6, <2>1, <2>2 DEF Targets
    <3>2. sig \in server'[forks].sigs
      BY <1>4, <3>1
    <3>. QED  BY <3>2 DEF Told
  <2>3. CASE ~Exists(forks)
    <3>1. server'[forks] = server[forks]
      BY <1>2, <1>3, <2>1, <2>3
    <3>. QED  BY <2>3, <3>1 DEF Told, Alive, Exists
  <2>. QED  BY <2>2, <2>3
<1>. QED  BY <1>5, <1>6

\* An answer, or none: then the controller is where it began.
LEMMA AnswerKeeps ==
  ASSUME MInv, pc \notin {"accept", "forked"}, NEW r, Answer(r) \/ HangUp, ret' \in Rets,
         ServersFit, UNCHANGED <<smem, queue, forks, chldPID, released, pending>>,
         alarm' \in BOOLEAN
  PROVE  MInv'
<1>1. ClientsFit /\ pc' = "accept" /\ conn' = Nobody
  BY AnswerFits
<1>2. pc' \notin Telling /\ pc' \notin Ending
  BY <1>1 DEF Telling, Ending
<1>3. LastTold'
  BY <1>2, LastKept
<1>4. Placed
  BY <1>1 DEF Placed
<1>. QED  BY <1>1, <1>2, <1>3, <1>4, ControllerCalm, ControllerTypes

LEMMA KillKeeps ==
  ASSUME MInv, Kill
  PROVE  MInv'
<1>1. /\ pc = "kill" /\ pc \in Ending
      /\ UNCHANGED <<chldPID, released, pending, smem, queue, forks>>
  BY DEF Kill, At, Ending
<1>2. CASE Answer("ekill") /\ alarm' = FALSE /\ UNCHANGED server
  <2>1. ServersFit /\ ret' \in Rets
    BY <1>2, ControllerTypes, ServersSame DEF Answer, Rets
  <2>. QED  BY <1>1, <1>2, <2>1, AnswerKeeps
<1>3. CASE Signalled("SIGINT") /\ pc' = "stopping" /\ UNCHANGED <<conn, ret, alarm, client>>
  <2>1. ServersFit /\ (chldPID = forks /\ forks > 0 => Told(forks)')
    BY <1>1, <1>3, SignalledFits
  <2>2. forks > 0 => Told(forks)'
    <3>1. SUFFICES ASSUME forks > 0, chldPID # forks PROVE Told(forks)'
      BY <2>1
    <3>2. Told(forks) /\ forks \in Pids
      BY <1>1, <3>1, LastByNumber, ControllerTypes DEF Pids
    <3>. QED  BY <1>1, <2>1, <3>2 DEF ServersFit, Told, Alive, Exists
  <2>3. LastTold'
    BY <1>1, <1>3, <2>1, <2>2, LastKept
  <2>4. Placed /\ ClientsFit
    BY <1>1, <1>3, ClientsSame, ControllerTypes DEF Placed, Paths
  <2>5. chldPID # 0
    BY <1>1, ControllerTypes DEF Types
  <2>. QED  BY <1>1, <1>3, <2>1, <2>3, <2>4, <2>5, ControllerCalm, ControllerTypes
<1>. QED  BY <1>2, <1>3 DEF Kill

\* The last server has been told before the controller looks for its end.
LEMMA StoppedKeeps ==
  ASSUME MInv, pc \in {"stopping", "harder"}, Stopped, ServersFit,
         UNCHANGED <<smem, queue, forks, chldPID, released, pending>>, alarm' \in BOOLEAN
  PROVE  MInv'
<1>1. CASE Answer("succ")
  <2>1. ret' \in Rets
    BY <1>1 DEF Answer, Rets
  <2>. QED  BY <1>1, <2>1, AnswerKeeps
<1>2. CASE pc' = "message" /\ UNCHANGED <<conn, ret, client>>
  <2>1. pc \in Telling /\ pc' \notin Ending /\ pc # "forked"
    BY <1>2 DEF Telling, Ending
  <2>2. LastTold'
    BY <2>1, LastKept
  <2>3. Placed /\ ClientsFit
    BY <1>2, ClientsSame, ControllerTypes DEF Placed, Paths
  <2>. QED  BY <1>2, <2>1, <2>2, <2>3, ControllerCalm, ControllerTypes
<1>. QED  BY <1>1, <1>2 DEF Stopped

LEMMA StopEndKeeps ==
  ASSUME MInv, StopEnd
  PROVE  MInv'
<1>1. /\ pc = "stopping" /\ alarm' = FALSE
      /\ UNCHANGED <<chldPID, released, pending, smem, queue, forks, server>>
  BY DEF StopEnd, At
<1>2. ServersFit
  BY <1>1, ControllerTypes, ServersSame
<1>3. CASE pc' = "harder" /\ UNCHANGED <<conn, ret, client>>
  <2>1. pc \in Telling
    BY <1>1 DEF Telling
  <2>2. LastTold'
    BY <1>1, <1>2, <2>1, LastKept
  <2>3. Placed /\ ClientsFit
    BY <1>1, <1>3, ClientsSame, ControllerTypes DEF Placed, Paths
  <2>4. chldPID # 0
    BY <1>1, ControllerTypes DEF Types, Ending
  <2>. QED  BY <1>1, <1>2, <1>3, <2>2, <2>3, <2>4, ControllerCalm, ControllerTypes
<1>4. CASE Stopped
  BY <1>1, <1>2, <1>4, StoppedKeeps
<1>. QED  BY <1>3, <1>4 DEF StopEnd

LEMMA HarderKeeps ==
  ASSUME MInv, Harder
  PROVE  MInv'
<1>1. /\ pc = "harder" /\ pc \in Ending /\ alarm' \in BOOLEAN
      /\ UNCHANGED <<chldPID, released, pending, smem, queue, forks>>
  BY ControllerTypes DEF Harder, At, Ending
<1>2. CASE Answer("ekill") /\ UNCHANGED server
  <2>1. ServersFit /\ ret' \in Rets
    BY <1>2, ControllerTypes, ServersSame DEF Answer, Rets
  <2>. QED  BY <1>1, <1>2, <2>1, AnswerKeeps
<1>3. CASE Signalled("SIGTERM") /\ Stopped
  <2>1. ServersFit
    BY <1>1, <1>3, SignalledFits
  <2>. QED  BY <1>1, <1>3, <2>1, StoppedKeeps
<1>. QED  BY <1>2, <1>3 DEF Harder

LEMMA ReadFailsFits ==
  ASSUME MInv, Waits, ReadFails
  PROVE  /\ pc \in {"parse", "message"} /\ ret' \in Rets
         /\ ClientsFit /\ pc' = "accept" /\ conn' = Nobody
<1>1. pc \in {"parse", "message"}
  BY DEF Waits
<1>2. (Answer("eread") \/ HangUp) /\ ret' \in Rets
  BY ControllerTypes DEF ReadFails, Answer, Rets
<1>. QED  BY <1>1, <1>2, AnswerFits

LEMMA ReadTimeoutKeeps ==
  ASSUME MInv, ReadTimeout
  PROVE  MInv'
<1>1. /\ Waits /\ ReadFails
      /\ UNCHANGED <<chldPID, released, alarm, pending, smem, queue, forks, server>>
  BY DEF ReadTimeout
<1>2. /\ pc \in {"parse", "message"} /\ ret' \in Rets
      /\ ClientsFit /\ pc' = "accept" /\ conn' = Nobody
  BY <1>1, ReadFailsFits
<1>3. ServersFit
  BY <1>1, ControllerTypes, ServersSame
<1>4. pc' \notin Telling /\ pc' \notin Ending
  BY <1>2 DEF Telling, Ending
<1>5. LastTold'
  BY <1>1, <1>2, <1>3, <1>4, LastKept
<1>6. Placed
  BY <1>2 DEF Placed
<1>. QED  BY <1>1, <1>2, <1>3, <1>4, <1>5, <1>6, ControllerCalm, ControllerTypes

\* After a fork that failed the controller has no number: every server before
\* has been told.
LEMMA NumberKeeps ==
  ASSUME MInv, ForkFails \/ Forked
  PROVE  MInv'
<1>1. /\ pc \in {"fork", "forked"} /\ pc' = "starting"
      /\ (pc = "forked" => chldPID' = forks) /\ chldPID' \in {-1, forks}
      /\ UNCHANGED <<conn, ret, released, alarm, pending, smem, queue, forks, server, client>>
  BY DEF ForkFails, Forked, At
<1>2. ServersFit /\ ClientsFit
  BY <1>1, ControllerTypes, ServersSame, ClientsSame
<1>3. pc = "fork" /\ forks > 0 => Told(forks)'
  <2>1. pc = "fork" /\ forks > 0 => Told(forks)
    BY DEF MInv, LastTold
  <2>. QED  BY <1>1, <2>1 DEF Told, Alive, Exists
<1>4. pc' \notin Telling /\ pc' \notin Ending
  BY <1>1 DEF Telling, Ending
<1>5. forks > 0 /\ chldPID = forks => chldPID' = forks \/ Told(forks)'
  BY <1>1, <1>3
<1>6. LastTold'
  BY <1>1, <1>2, <1>4, <1>5, LastKept
<1>7. Placed
  BY <1>1 DEF Placed, Paths
<1>8. chldPID' \in -1 .. forks
  BY <1>1, ControllerTypes
<1>. QED  BY <1>1, <1>2, <1>4, <1>6, <1>7, <1>8, ControllerCalm, ControllerTypes

LEMMA StartedKeeps ==
  ASSUME MInv, Started
  PROVE  MInv'
<1>1. /\ pc = "starting" /\ alarm' = FALSE
      /\ UNCHANGED <<chldPID, released, pending, smem, queue, forks, server>>
  BY DEF Started, At
<1>2. PICK r \in {"emsg", "eproc", "succ"} : Answer(r)
  BY DEF Started
<1>3. ServersFit /\ ret' \in Rets
  BY <1>1, <1>2, ControllerTypes, ServersSame DEF Answer, Rets
<1>. QED  BY <1>1, <1>2, <1>3, AnswerKeeps

LEMMA AlarmKeeps ==
  ASSUME MInv, Alarm
  PROVE  MInv'
<1>1. /\ alarm' = FALSE /\ pending' = {"SIGALRM"}
      /\ UNCHANGED <<pc, conn, ret, chldPID, released, smem, queue, forks, server, client>>
  BY DEF Alarm
<1>2. ServersFit /\ ClientsFit
  BY <1>1, ControllerTypes, ServersSame, ClientsSame
<1>3. LastTold'
  BY <1>1, <1>2, LastKept
<1>4. Placed
  BY <1>1 DEF Placed
<1>5. pc \in Ending => chldPID # 0
  BY ControllerTypes DEF Types
<1>. QED  BY <1>1, <1>2, <1>3, <1>4, <1>5, ControllerCalm, ControllerTypes

\* The servers that have ended are taken.
LEMMA ReapFits ==
  ASSUME MInv, Reap, forks' = forks
  PROVE  /\ ServersFit /\ chldPID' \in {-1, chldPID}
         /\ forks > 0 /\ chldPID = forks => chldPID' = forks \/ Told(forks)'
<1>1. Types
  BY DEF MInv
<1>2. ASSUME NEW p \in Pids
      PROVE  server'[p] = IF server[p].at = "zombie" THEN [server[p] EXCEPT !.at = "reaped"]
                                                     ELSE server[p]
  BY <1>2 DEF Reap, Taken, Zombies
<1>3. ASSUME NEW p \in Pids, server[p].at = "zombie"
      PROVE  /\ server'[p] \in ServerRec /\ server'[p].at = "reaped"
             /\ server'[p].config = server[p].config /\ server'[p].got = server[p].got
             /\ server'[p].sigs = server[p].sigs
  <2>1. server[p] \in ServerRec
    BY <1>1, ServerTypes
  <2>. QED  BY <1>2, <1>3, <2>1 DEF ServerRec, Places
<1>4. server' \in [Pids -> ServerRec]
  <2>1. \A p \in Pids : server'[p] \in ServerRec
    BY <1>1, <1>2, <1>3 DEF Types
  <2>2. server' = [p \in Pids |-> server'[p]]
    BY DEF Reap
  <2>. QED  BY <2>1, <2>2
<1>5. ASSUME NEW q \in Pids
      PROVE  /\ server'[q].config = server[q].config
             /\ server'[q].at = "unborn" <=> server[q].at = "unborn"
             /\ Fresh(server'[q])
             /\ Told(q) => Told(q)'
             /\ Reads(q)' => Reads(q)
             /\ Reports(q)' => Reports(q)
  <2>1. CASE server[q].at = "zombie"
    <3>1. Fresh(server'[q])
      BY <1>3, <2>1 DEF Fresh, Young
    <3>2. Told(q)' /\ ~Reads(q)' /\ ~Reports(q)'
      BY <1>3, <2>1 DEF Told, Alive, Exists, Reads, Reports
    <3>. QED  BY <1>3, <2>1, <3>1, <3>2
  <2>2. CASE server[q].at # "zombie"
    <3>1. server'[q] = server[q]
      BY <1>2, <2>2
    <3>. QED  BY <1>1, <3>1, ServerTypes DEF Told, Alive, Exists, Reads, Reports
  <2>. QED  BY <2>1, <2>2
<1>6. ServersFit
  BY <1>4, <1>5 DEF ServersFit
<1>7. ASSUME forks > 0, chldPID = forks, chldPID' # forks
      PROVE  Told(forks)'
  <2>1. forks \in Pids /\ server[forks].at = "zombie"
    BY <1>7 DEF Reap, Forgets, Taken, Zombies
  <2>2. server'[forks].at = "reaped"
    BY <1>3, <2>1
  <2>. QED  BY <2>2 DEF Told, Alive, Exists
<1>8. chldPID' \in {-1, chldPID}
  BY DEF Reap
<1>. QED  BY <1>6, <1>7, <1>8

LEMMA HandlerKeeps ==
  ASSUME MInv, NEW sig \in DOMAIN LockOf, Handler(sig)
  PROVE  MInv'
<1>1. /\ sig \in pending /\ pending' = pending \ {sig}
      /\ released' = released \cup {LockOf[sig]}
      /\ UNCHANGED <<alarm, smem, queue, forks>>
  BY DEF Handler
<1>2. /\ ServersFit /\ chldPID' \in {-1, chldPID}
      /\ forks > 0 /\ chldPID = forks => chldPID' = forks \/ Told(forks)'
  <2>1. CASE sig = "SIGCHLD"
    <3>1. Reap
      BY <2>1 DEF Handler
    <3>. QED  BY <1>1, <3>1, ReapFits
  <2>2. CASE sig # "SIGCHLD"
    <3>1. UNCHANGED <<server, chldPID>>
      BY <2>2 DEF Handler
    <3>. QED  BY <3>1, ControllerTypes, ServersSame
  <2>. QED  BY <2>1, <2>2
<1>3. /\ ClientsFit /\ Placed /\ ret' \in Rets
      /\ pc' = pc \/ (pc' = "accept" /\ pc # "forked")
  <2>1. CASE UNCHANGED <<pc, conn, ret, client>>
    <3>1. ClientsFit /\ ret' \in Rets
      BY <2>1, ControllerTypes, ClientsSame
    <3>. QED  BY <2>1, <3>1 DEF Placed
  <2>2. CASE Waits /\ ReadFails
    BY <2>2, ReadFailsFits DEF Placed
  <2>. QED  BY <2>1, <2>2 DEF Handler
<1>4. (pc' \in Telling => pc \in Telling) /\ (pc' \in Ending => pc \in Ending)
  BY <1>3 DEF Telling, Ending
<1>5. LastTold'
  BY <1>1, <1>2, <1>3, <1>4, LastKept
<1>6. (Came("SIGUSR1")' => Came("SIGUSR1")) /\ (Came("SIGUSR2")' => Came("SIGUSR2"))
  <2>1. CASE sig = "SIGUSR1"
    BY <1>1, <2>1, LockNames DEF Came
  <2>2. CASE sig = "SIGUSR2"
    BY <1>1, <2>2, LockNames DEF Came
  <2>3. CASE sig \in {"SIGCHLD", "SIGALRM"}
    <3>1. LockOf[sig] \in {"sigchld", "sigalrm"}
      BY <2>3, LockNames
    <3>. QED  BY <1>1, <3>1, LockNames DEF Came
  <2>. QED  BY <2>1, <2>2, <2>3, LockNames
<1>7. pending' \subseteq DOMAIN LockOf /\ released' \subseteq Locks
  <2>1. LockOf[sig] \in Locks
    BY LockNames DEF Locks
  <2>. QED  BY <1>1, <2>1, ControllerTypes DEF Types
<1>8. chldPID' \in -1 .. forks /\ (pc' \in Ending => chldPID' # 0) /\ alarm' \in BOOLEAN
  BY <1>1, <1>2, <1>4, ControllerTypes DEF Types
<1>9. Calm
  BY <1>1, <1>2, <1>3, <1>5, <1>6, <1>7, <1>8 DEF Calm, Rets
<1>. QED  BY <1>9, CalmKeeps

-----------------------------------------------------------------------------
(* The three steps that begin something: the next client, its request in   *)
(* shared memory, its server.                                              *)

LEMMA AcceptKeeps ==
  ASSUME MInv, Accept
  PROVE  MInv'
<1>1. Types
  BY DEF MInv
<1>2. /\ pc = "accept" /\ pc' = "parse" /\ ret' = "none" /\ queue # <<>>
      /\ conn' = Head(queue) /\ queue' = Tail(queue)
      /\ UNCHANGED <<chldPID, released, alarm, pending, smem, forks, server, client>>
  BY DEF Accept, At
<1>3. PICK k \in 0 .. N : Accepted(k)
  BY DEF MInv, InTurn
<1>4. /\ N \in Nat /\ k \in Int /\ forks \in Int /\ queue \in Seq(Clients)
      /\ Len(queue) \in Nat /\ Len(queue) > 0
  BY <1>1, <1>2, <1>3, MperfAssumption DEF Types
<1>5. /\ queue' \in Seq(Clients) /\ Len(queue') = Len(queue) - 1
      /\ \A i \in 1 .. Len(queue') : queue'[i] = queue[i + 1]
      /\ conn' = queue[1] /\ conn' \in Clients
  BY <1>2, <1>4
<1>6. conn' = k + 1 /\ k + 1 \in 0 .. N
  <2>1. queue[1] = k + 1
    BY <1>3, <1>4 DEF Accepted
  <2>. QED  BY <1>4, <1>5, <2>1 DEF Clients
<1>7. Accepted(k + 1)'
  <2>1. ASSUME NEW i \in 1 .. Len(queue') PROVE queue'[i] = k + 1 + i
    <3>1. i + 1 \in 1 .. Len(queue) /\ i \in Int
      BY <1>4, <1>5
    <3>2. queue[i + 1] = k + (i + 1)
      BY <1>3, <3>1 DEF Accepted
    <3>. QED  BY <1>4, <1>5, <3>1, <3>2
  <2>2. ASSUME NEW c \in Clients
        PROVE  client'[c].at = "idle" <=> c > k + 1 + Len(queue')
    <3>1. k + 1 + Len(queue') = k + Len(queue)
      BY <1>4, <1>5
    <3>. QED  BY <1>2, <1>3, <3>1 DEF Accepted
  <2>3. forks' <= k + 1 /\ forks' < k + 1
    BY <1>2, <1>3, <1>4 DEF Accepted
  <2>. QED  BY <1>6, <2>1, <2>2, <2>3 DEF Accepted
<1>8. InTurn'
  BY <1>6, <1>7 DEF InTurn
<1>9. Types'
  <2>1. conn' # Nobody /\ pc' \in Pcs /\ pc' \notin Ending
    BY <1>2, <1>5 DEF Pcs, Nobody, Clients, Ending
  <2>. QED  BY <1>1, <1>2, <1>5, <2>1 DEF Types
<1>10. Preempted' /\ LastTold' /\ SmemInv' /\ SignalsInv'
  BY <1>2 DEF MInv, Preempted, LastTold, SmemInv, SignalsInv, Told, Alive, Exists, Reads
<1>. QED  BY <1>8, <1>9, <1>10 DEF MInv

LEMMA MessageKeeps ==
  ASSUME MInv, Message
  PROVE  MInv'
<1>1. Types
  BY DEF MInv
<1>2. /\ pc = "message" /\ pending = {} /\ smem' = conn /\ pc' = "fork" /\ alarm' = TRUE
      /\ released' = released \ {"sigusr1", "sigusr2", "sigalrm"}
      /\ UNCHANGED <<conn, ret, chldPID, pending, queue, forks, server, client>>
  BY DEF Message, At, StartLocks, StartAlarm
<1>3. conn \in Clients /\ N \in Nat
  BY <1>2, ConnDialled, MperfAssumption
<1>4. Types'
  <2>1. smem' \in 0 .. N + 1
    BY <1>2, <1>3 DEF Clients
  <2>2. released' \subseteq Locks
    BY <1>1, <1>2 DEF Types
  <2>. QED  BY <1>1, <1>2, <2>1, <2>2 DEF Types, Pcs, Ending
<1>5. InTurn'
  <2>1. PICK k \in 0 .. N : Accepted(k)
    BY DEF MInv, InTurn
  <2>2. Accepted(k)'
    BY <1>2, <2>1 DEF Accepted, Before
  <2>. QED  BY <2>2 DEF InTurn
<1>6. Preempted' /\ LastTold'
  BY <1>2 DEF MInv, Preempted, LastTold, Told, Alive, Exists
<1>7. SmemInv'
  BY <1>2, <1>3 DEF SmemInv
<1>8. SignalsInv'
  BY <1>2, LockNames DEF SignalsInv, Came
<1>. QED  BY <1>4, <1>5, <1>6, <1>7, <1>8 DEF MInv

LEMMA ForkKeeps ==
  ASSUME MInv, Fork
  PROVE  MInv'
<1>. DEFINE new == forks + 1
<1>1. Types
  BY DEF MInv
<1>2. /\ pc = "fork" /\ pc' = "forked" /\ forks' = new
      /\ server' = [server EXCEPT ![new].at = "born"]
      /\ UNCHANGED <<conn, ret, chldPID, released, alarm, pending, smem, queue, client>>
  BY DEF Fork, At
<1>3. PICK k \in 0 .. N : Accepted(k)
  BY DEF MInv, InTurn
<1>4. /\ forks < k /\ conn = k /\ conn \in Clients /\ smem = conn
      /\ forks > 0 => Told(forks)
      /\ ~Came("SIGUSR1") /\ ~Came("SIGUSR2")
  BY <1>2, <1>3, ConnDialled DEF Accepted, Before, MInv, SmemInv, LastTold, SignalsInv
<1>5. N \in Nat /\ forks \in 0 .. N /\ k \in Int /\ new \in Pids
  BY <1>3, <1>4, ControllerTypes DEF Pids
<1>6. server[new].at = "unborn" /\ server[new] \in ServerRec /\ Fresh(server[new])
  <2>1. new > forks
    BY <1>5
  <2>. QED  BY <1>1, <1>5, <2>1 DEF Types
<1>7. /\ server' \in [Pids -> ServerRec] /\ server'[new].at = "born"
      /\ Fresh(server'[new])
      /\ \A q \in Pids : q # new => server'[q] = server[q]
  <2>1. [server[new] EXCEPT !.at = "born"] \in ServerRec
    BY <1>6 DEF ServerRec, Places
  <2>2. server'[new] = [server[new] EXCEPT !.at = "born"]
    BY <1>1, <1>2, <1>5 DEF Types
  <2>3. \A q \in Pids : q # new => server'[q] = server[q]
    BY <1>1, <1>2, <1>5 DEF Types
  <2>4. server' \in [Pids -> ServerRec]
    BY <1>1, <1>2, <1>5, <2>1 DEF Types
  <2>5. server'[new].at = "born" /\ server'[new].got = server[new].got
    BY <1>6, <2>2 DEF ServerRec
  <2>6. Fresh(server'[new])
    BY <1>6, <2>5 DEF Fresh, Young
  <2>. QED  BY <2>3, <2>4, <2>5, <2>6
<1>. HIDE DEF new
<1>8. Types'
  <2>1. ASSUME NEW q \in Pids PROVE server'[q].at = "unborn" <=> q > new
    <3>1. CASE q = new
      BY <1>5, <1>7, <3>1 DEF Pids
    <3>2. CASE q # new
      <4>1. server'[q] = server[q] /\ (server[q].at = "unborn" <=> q > forks)
        BY <1>1, <1>7, <3>2 DEF Types
      <4>2. q > forks <=> q > new
        BY <1>5, <3>2 DEF Pids, new
      <4>. QED  BY <4>1, <4>2
    <3>. QED  BY <3>1, <3>2
  <2>2. \A q \in Pids : Fresh(server'[q])
    BY <1>1, <1>7 DEF Types
  <2>3. new \in 0 .. N /\ chldPID \in -1 .. new
    BY <1>1, <1>5 DEF Types, Pids, new
  <2>4. pc' \in Pcs /\ pc' # "accept" /\ pc' \notin Ending
    BY <1>2 DEF Pcs, Ending
  <2>. QED  BY <1>1, <1>2, <1>7, <2>1, <2>2, <2>3, <2>4 DEF Types
<1>9. InTurn'
  <2>1. new <= k
    BY <1>4, <1>5 DEF new
  <2>2. Accepted(k)'
    BY <1>2, <1>3, <2>1 DEF Accepted, Before
  <2>. QED  BY <2>2 DEF InTurn
<1>10. Preempted'
  <2>1. ASSUME NEW p \in 1 .. forks PROVE Told(p)'
    <3>1. p \in Pids /\ p # new
      BY <1>5 DEF Pids, new
    <3>2. Told(p)
      <4>1. CASE p = forks
        BY <1>4, <1>5, <4>1
      <4>2. CASE p # forks
        BY <1>5, <4>2 DEF MInv, Preempted, Told
      <4>. QED  BY <4>1, <4>2
    <3>. QED  BY <1>7, <3>1, <3>2 DEF Told, Alive, Exists
  <2>2. forks' - 1 = forks
    BY <1>2, <1>5 DEF new
  <2>. QED  BY <2>1, <2>2 DEF Preempted, Told
<1>11. LastTold' /\ SmemInv'
  BY <1>2, <1>4 DEF LastTold, SmemInv
<1>12. SignalsInv'
  <2>1. server'[forks'].at # "report"
    BY <1>2, <1>7
  <2>2. ~Came("SIGUSR1")' /\ ~Came("SIGUSR2")'
    BY <1>2, <1>4 DEF Came
  <2>. QED  BY <1>2, <2>1, <2>2 DEF SignalsInv, Reports
<1>. QED  BY <1>8, <1>9, <1>10, <1>11, <1>12 DEF MInv

-----------------------------------------------------------------------------
(* The theorems.                                                           *)

LEMMA MStep == MInv /\ [Next]_vars => MInv'
<1>. SUFFICES ASSUME MInv, [Next]_vars PROVE MInv'
  OBVIOUS
<1>1. CASE Controller
  BY <1>1, AcceptKeeps, ParseKeeps, StopBeginKeeps, KillKeeps, StopEndKeeps, HarderKeeps,
     MessageKeeps, ReadTimeoutKeeps, ForkKeeps, NumberKeeps, StartedKeeps DEF Controller
<1>2. CASE Alarm
  BY <1>2, AlarmKeeps
<1>3. CASE \E sig \in DOMAIN LockOf : Handler(sig)
  BY <1>3, HandlerKeeps
<1>4. CASE \E p \in Pids : Server(p) \/ Io(p) \/ TestAlarm(p)
  BY <1>4, ServerKeeps
<1>5. CASE \E c \in Clients : Dial(c) \/ Send(c) \/ Stop(c) \/ Connect(c)
  BY <1>5, DialKeeps, SendStopKeep, ConnectKeeps
<1>6. CASE UNCHANGED vars
  <2>1. UNCHANGED <<controller, pending, smem, queue, forks, server, client>>
    BY <1>6 DEF vars
  <2>. QED  BY <2>1, ServerCalm, ServersSame, ClientsSame, ControllerTypes
<1>. QED  BY <1>1, <1>2, <1>3, <1>4, <1>5, <1>6 DEF Next

LEMMA MAlways == Spec => []MInv
<1>. QED  BY MInit, MStep, PTL DEF Spec

\* Every variable keeps its type, the controller serves a client whenever it is
\* not in accept(), and the servers that exist are those it has forked.
THEOREM MperfTypeCorrect == Spec => []TypeOK
<1>1. MInv => TypeOK
  <2>. SUFFICES ASSUME MInv PROVE TypeOK
    OBVIOUS
  <2>1. Types /\ N \in Nat /\ forks \in 0 .. N
    BY ControllerTypes
  <2>2. ASSUME NEW p \in Pids
        PROVE  (server[p].at # "unborn" <=> p <= forks) /\ server[p].config \in {Nobody} \cup Clients
    BY <2>1, <2>2, ServerTypes DEF Types, Pids
  <2>. QED  BY <2>1, <2>2 DEF TypeOK, Types, Pcs
<1>. QED  BY <1>1, MAlways, PTL

\* Tests are preemptive: when a new server is there, every earlier one that is
\* still alive has been told to end (rTerminate in server.c), also when the
\* number of the last one was lost to the handler or a fork failed.
THEOREM EarlierServersTold == Spec => []Preempted
<1>1. MInv => Preempted
  BY DEF MInv
<1>. QED  BY <1>1, MAlways, PTL

\* What the controller answers after spinAND3 is true of the server it has just
\* forked: it has this client's arguments, and RET_SUCC is the answer exactly
\* when they will do.
THEOREM AnswersAreRight == Spec => RightAnswer
<1>. DEFINE Right ==
       pc = "starting" /\ pc' = "accept" /\ ret' \in {"succ", "emsg"} =>
         /\ forks > 0 /\ server[forks].config = conn
         /\ Valid(conn) <=> ret' = "succ"
<1>1. ASSUME MInv, [Next]_vars, pc = "starting", pc' = "accept", ret' \in {"succ", "emsg"}
      PROVE  Started
  <2>1. CASE Controller
    BY <1>1, <2>1 DEF Controller, Accept, Parse, StopBegin, Kill, StopEnd, Harder, Message,
       ReadTimeout, Waits, Fork, ForkFails, Forked, At
  <2>2. CASE Alarm
    BY <1>1, <2>2 DEF Alarm
  <2>3. CASE \E sig \in DOMAIN LockOf : Handler(sig)
    BY <1>1, <2>3 DEF Handler, Waits
  <2>4. CASE \E p \in Pids : Server(p) \/ Io(p) \/ TestAlarm(p)
    <3>1. UNCHANGED controller
      BY <2>4 DEF Server, Io, TestAlarm, Configure, Report, Bind, Check, AcceptTest, Test,
         ExitTest, Interrupted, Terminated, Exit, Goes
    <3>. QED  BY <1>1, <3>1 DEF controller
  <2>5. CASE \E c \in Clients : Dial(c) \/ Send(c) \/ Stop(c) \/ Connect(c)
    <3>1. UNCHANGED controller
      BY <2>5 DEF Dial, Send, Stop, Connect
    <3>. QED  BY <1>1, <3>1 DEF controller
  <2>6. CASE UNCHANGED vars
    BY <1>1, <2>6 DEF vars, controller
  <2>. QED  BY <1>1, <2>1, <2>2, <2>3, <2>4, <2>5, <2>6 DEF Next
<1>2. ASSUME MInv, Started, pc = "starting", ret' \in {"succ", "emsg"}
      PROVE  forks > 0 /\ server[forks].config = conn /\ (Valid(conn) <=> ret' = "succ")
  <2>1. /\ released \cap {"sigusr1", "sigusr2", "sigalrm"} # {}
        /\ ret' = IF "sigusr2" \in released THEN "emsg"
                  ELSE IF "sigalrm" \in released THEN "eproc" ELSE "succ"
    BY <1>2 DEF Started, Awaited, Answer
  <2>2. /\ "sigusr1" \in released => Configured /\ Valid(conn)
        /\ "sigusr2" \in released => Configured /\ ~Valid(conn)
    BY <1>2, LockNames DEF MInv, SignalsInv, Came
  <2>3. CASE "sigusr2" \in released
    BY <2>1, <2>2, <2>3 DEF Configured
  <2>4. CASE "sigusr2" \notin released
    <3>1. ret' = "succ" /\ "sigusr1" \in released
      BY <1>2, <2>1, <2>4
    <3>. QED  BY <2>2, <3>1 DEF Configured
  <2>. QED  BY <2>3, <2>4
<1>3. MInv /\ [Next]_vars => [Right]_vars
  BY <1>1, <1>2
<1>. QED  BY <1>3, MAlways, PTL DEF Spec, RightAnswer
=============================================================================
