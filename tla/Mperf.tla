-------------------------------- MODULE Mperf --------------------------------
(***************************************************************************)
(* mperf's throughput server and its clients (mperf/src).  The controller  *)
(* (server.c) serves one connection at a time: it tells the server of the  *)
(* last test to end, takes the arguments of the next test, puts them into  *)
(* shared memory and forks the server that runs the test (worker.c).  They *)
(* synchronise by signals, and the controller waits by spinning until a    *)
(* handler has released one of its locks.  The client (client.c) asks for  *)
(* a test and then connects to the server.                                 *)
(*                                                                         *)
(* A handler runs with all signals blocked, in one step.  The kernel       *)
(* delivers what is pending before a process takes a step of its own.  A   *)
(* handler that runs while a call waits makes it return EINTR; one that    *)
(* runs just before does not, and the call waits on.                       *)
(***************************************************************************)
EXTENDS Integers, Sequences, FiniteSets

CONSTANTS
  N,             \* the number of clients, numbered as they come
  Wants,         \* Wants[c]: what c may ask for
  CompleteKill,  \* the controller's option -k
  Silent         \* the clients that may be stopped before they are answered

Clients == 1 .. N

\* SIG_CONF with the arguments of a test, with a type there is not, with a size
\* or a time that is not positive; SIG_TERM, which no program of the repository
\* sends.
Requests == {"test", "badType", "badSize", "terminate"}

ASSUME MperfAssumption ==
  /\ N \in Nat /\ Silent \subseteq Clients
  /\ Wants \in [Clients -> SUBSET Requests]
  /\ CompleteKill \in BOOLEAN

Nobody == 0
Error == N + 1
Locks == {"sigusr1", "sigusr2", "sigchld", "sigalrm"}

\* Process numbers, in the order of the forks; each client is one fork at most.
Pids == 1 .. N

VARIABLES
  pc,        \* where the controller is
  conn,      \* the client it serves
  ret,       \* its answer
  chldPID,   \* 0 at first, -1 when the handler has seen the server's end
  released,  \* the locks that are not set
  alarm,     \* whether its alarm clock is set
  pending,   \* the signals on their way to it
  smem,      \* the message in shared memory: a client's request, or an error
  queue,     \* the connections it has not accepted yet
  forks,     \* how many servers it has started
  server,    \* the servers
  client     \* the clients

controller == <<pc, conn, ret, chldPID, released, alarm>>
vars == <<controller, pending, smem, queue, forks, server, client>>

Unborn == [at |-> "unborn", config |-> Nobody, got |-> {}, sigs |-> {},
           backlog |-> <<>>, peer |-> Nobody]
NewClient == [at |-> "idle", wants |-> "none", sent |-> 0]

\* main, up to its loop.
Init ==
  /\ pc = "accept" /\ conn = Nobody /\ ret = "none"
  /\ chldPID = 0 /\ released = Locks /\ alarm = FALSE /\ pending = {}
  /\ smem = Nobody /\ queue = <<>> /\ forks = 0
  /\ server = [p \in Pids |-> Unborn]
  /\ client = [c \in Clients |-> NewClient]

Exists(p) == server[p].at \notin {"unborn", "reaped"}
Alive(p) == Exists(p) /\ server[p].at # "zombie"
Listening(p) == server[p].at \in {"check", "accept"}
Running(p) == server[p].at \in {"check", "accept", "test", "io"}

-----------------------------------------------------------------------------
(* The clients.                                                            *)

\* netdial: the connection waits in the controller's queue.
Dial(c) ==
  /\ client[c].at = "idle" /\ \A d \in 1 .. c - 1 : client[d].at # "idle"
  /\ \E w \in Wants[c] : client' = [client EXCEPT ![c].at = "asking", ![c].wants = w]
  /\ queue' = Append(queue, c)
  /\ UNCHANGED <<controller, pending, smem, forks, server>>

\* The instruction, and after SIG_CONF the message (rSendMessage).
Parts(c) == IF client[c].wants = "terminate" THEN 1 ELSE 2
Send(c) ==
  /\ client[c].at = "asking" /\ client[c].sent < Parts(c)
  /\ client' = [client EXCEPT ![c].sent = @ + 1]
  /\ UNCHANGED <<controller, pending, smem, queue, forks, server>>

\* Ctrl+C, or rRecvBytes() has waited for 10 seconds.
Stop(c) ==
  /\ c \in Silent /\ client[c].at = "asking"
  /\ client' = [client EXCEPT ![c].at = "gone"]
  /\ UNCHANGED <<controller, pending, smem, queue, forks, server>>

\* reconfigureServer ends: rRecvBytes' result replaces the answer it read, so
\* that a client that was refused goes on like one that was not.  Then
\* connectToServer, which finds whoever listens.
Connect(c) ==
  /\ client[c].at = "answered"
  /\ IF client[c].wants # "terminate" /\ \E p \in Pids : Listening(p)
     THEN \E p \in Pids :
            /\ Listening(p)
            /\ server' = [server EXCEPT ![p].backlog = Append(@, c)]
     ELSE UNCHANGED server
  /\ client' = [client EXCEPT ![c].at = "gone"]
  /\ UNCHANGED <<controller, pending, smem, queue, forks>>

-----------------------------------------------------------------------------
(* The controller.                                                         *)

\* The controller takes a step of its own at one place or another.
At(place) == pc = place /\ pending = {}

Accept ==
  /\ At("accept") /\ queue # <<>>
  /\ conn' = Head(queue) /\ queue' = Tail(queue) /\ pc' = "parse" /\ ret' = "none"
  /\ UNCHANGED <<chldPID, released, alarm, pending, smem, forks, server, client>>

\* rSendBytes of the answer (and rSendMessage of the text), close.
Answer(r) ==
  /\ pc' = "accept" /\ conn' = Nobody /\ ret' = r
  /\ client' = [client EXCEPT ![conn].at = IF @ = "asking" THEN "answered" ELSE @]

\* The connection is closed without an answer: the client gives up.
HangUp ==
  /\ pc' = "accept" /\ conn' = Nobody
  /\ client' = [client EXCEPT ![conn].at = "gone"]

\* parse, doTerminate and doConfigure up to the look at chldPID.
Parse ==
  /\ At("parse") /\ client[conn].sent >= 1
  /\ IF chldPID > 0
     THEN pc' = "stop" /\ UNCHANGED <<conn, ret, client>>
     ELSE IF client[conn].wants = "terminate" THEN Answer("succ")
     ELSE pc' = "message" /\ UNCHANGED <<conn, ret, client>>
  /\ UNCHANGED <<chldPID, released, alarm, pending, smem, queue, forks, server>>

\* rTerminate: the locks are set, the alarm too, and the signal sent.
StopBegin ==
  /\ At("stop") /\ pc' = "kill"
  /\ released' = released \ {"sigchld", "sigalrm"} /\ alarm' = TRUE
  /\ UNCHANGED <<conn, ret, chldPID, pending, smem, queue, forks, server, client>>

\* kill() with what chldPID is now: after the handler has run it is -1, and the
\* signal goes to every process there is.
Targets == IF chldPID = -1 THEN {p \in Pids : Exists(p)}
           ELSE {p \in {chldPID} : Exists(p)}
Signalled(sig) ==
  server' = [p \in Pids |-> IF p \in Targets
                            THEN [server[p] EXCEPT !.sigs = @ \cup {sig}]
                            ELSE server[p]]
NoSuchProcess == chldPID # -1 /\ Targets = {}

Kill ==
  /\ At("kill")
  /\ \/ /\ NoSuchProcess
        /\ Answer("ekill") /\ alarm' = FALSE /\ UNCHANGED server
     \/ /\ ~NoSuchProcess
        /\ Signalled("SIGINT") /\ pc' = "stopping" /\ UNCHANGED <<conn, ret, alarm, client>>
  /\ UNCHANGED <<chldPID, released, pending, smem, queue, forks>>

\* What comes after rTerminate, in doTerminate and in doConfigure.
Stopped ==
  IF client[conn].wants = "terminate" THEN Answer("succ")
  ELSE pc' = "message" /\ UNCHANGED <<conn, ret, client>>

\* spinAND, and if the server has not ended: the error, or SIGTERM.
StopEnd ==
  /\ At("stopping") /\ released \cap {"sigchld", "sigalrm"} # {}
  /\ alarm' = FALSE
  /\ IF "sigchld" \notin released /\ CompleteKill
     THEN pc' = "harder" /\ UNCHANGED <<conn, ret, client>>
     ELSE Stopped
  /\ UNCHANGED <<chldPID, released, pending, smem, queue, forks, server>>

Harder ==
  /\ At("harder")
  /\ \/ NoSuchProcess /\ Answer("ekill") /\ UNCHANGED server
     \/ ~NoSuchProcess /\ Signalled("SIGTERM") /\ Stopped
  /\ UNCHANGED <<chldPID, released, alarm, pending, smem, queue, forks>>

\* Mutants: sigusr1 is left as it was; there is no alarm.
StartLocksNoUsr1 == {"sigusr2", "sigalrm"}
StartAlarmNone == alarm

StartLocks == {"sigusr1", "sigusr2", "sigalrm"}
StartAlarm == TRUE
Awaited == {"sigusr1", "sigusr2", "sigalrm"}

\* rReceiveMessage, setMessage, the locks and the alarm.
Message ==
  /\ At("message") /\ client[conn].sent = 2
  /\ smem' = conn
  /\ released' = released \ StartLocks
  /\ alarm' = StartAlarm /\ pc' = "fork"
  /\ UNCHANGED <<conn, ret, chldPID, pending, queue, forks, server, client>>

\* Mutant of ReadFails: the connection is not closed.
ReadFailsOpen == pc' = "accept" /\ UNCHANGED <<conn, ret, client>>

\* rio_readnr returns early: it was interrupted, the client has closed, or the
\* 10 seconds of MESSAGE_TIMEOUT are over.  The request is dropped.
ReadFails ==
  IF pc = "parse" THEN HangUp /\ UNCHANGED ret ELSE Answer("eread")
Waits == \/ pc = "parse" /\ client[conn].sent = 0
         \/ pc = "message" /\ client[conn].sent < 2
ReadTimeout ==
  /\ pending = {} /\ Waits /\ conn \in Silent
  /\ ReadFails
  /\ UNCHANGED <<chldPID, released, alarm, pending, smem, queue, forks, server>>

\* backupFork: the server exists before chldPID is assigned.
Fork ==
  /\ At("fork") /\ pc' = "forked"
  /\ forks' = forks + 1
  /\ server' = [server EXCEPT ![forks + 1].at = "born"]
  /\ UNCHANGED <<conn, ret, chldPID, released, alarm, pending, smem, queue, client>>
ForkFails ==
  /\ At("fork") /\ pc' = "starting" /\ chldPID' = -1
  /\ UNCHANGED <<conn, ret, released, alarm, pending, smem, queue, forks, server, client>>
Forked ==
  /\ At("forked") /\ pc' = "starting" /\ chldPID' = forks
  /\ UNCHANGED <<conn, ret, released, alarm, pending, smem, queue, forks, server, client>>

\* spinAND3 and the answer.
Started ==
  /\ At("starting") /\ released \cap Awaited # {}
  /\ alarm' = FALSE
  /\ Answer(IF "sigusr2" \in released THEN "emsg"
            ELSE IF "sigalrm" \in released THEN "eproc" ELSE "succ")
  /\ UNCHANGED <<chldPID, released, pending, smem, queue, forks, server>>

Zombies == {p \in Pids : server[p].at = "zombie"}

\* Mutants: waitpid() once, not in a loop; chldPID forgotten for any server.
TakenOne == {p \in Zombies : \A q \in Zombies : p <= q}
ForgetsAny == Zombies # {}

\* sigchldHandler: every server that has ended is taken.
Taken == Zombies
Forgets == chldPID \in Taken
Reap ==
  /\ server' = [p \in Pids |-> IF p \in Taken
                               THEN [server[p] EXCEPT !.at = "reaped"] ELSE server[p]]
  /\ chldPID' = IF Forgets THEN -1 ELSE chldPID

\* A handler of the controller.  If a read waits, it may return EINTR.
LockOf == [SIGUSR1 |-> "sigusr1", SIGUSR2 |-> "sigusr2",
           SIGCHLD |-> "sigchld", SIGALRM |-> "sigalrm"]
Handler(sig) ==
  /\ sig \in pending
  /\ pending' = pending \ {sig}
  /\ released' = released \cup {LockOf[sig]}
  /\ IF sig = "SIGCHLD" THEN Reap ELSE UNCHANGED <<server, chldPID>>
  /\ \/ UNCHANGED <<pc, conn, ret, client>>
     \/ Waits /\ ReadFails
  /\ UNCHANGED <<alarm, smem, queue, forks>>

-----------------------------------------------------------------------------
(* The servers.                                                            *)

Steps(p, place) == server[p].at = place /\ server[p].sigs = {}

Goes(p, place) ==
  /\ server' = [server EXCEPT ![p].at = place]
  /\ UNCHANGED <<controller, pending, smem, queue, forks, client>>

\* Connections that were not accepted are reset.
Dead(p) == [server[p] EXCEPT !.at = "zombie", !.sigs = {}, !.backlog = <<>>]
Exit(p) ==
  /\ server' = [server EXCEPT ![p] = Dead(p)]
  /\ pending' = pending \cup {"SIGCHLD"}
  /\ UNCHANGED <<controller, smem, queue, forks, client>>

\* startAsServer and serverMain, until configure() has read the message; or the
\* log file cannot be opened, and nobody is told.
Configure(p) ==
  /\ Steps(p, "born")
  /\ \/ /\ server' = [server EXCEPT ![p].at = "report", ![p].config = smem]
        /\ UNCHANGED <<controller, pending, smem, queue, forks, client>>
     \/ Exit(p)

Valid(config) == config \in Clients /\ client[config].wants = "test"

\* The end of configure(): SIGUSR1 for arguments that will do, SIGUSR2 otherwise.
\* Only an unknown type leaves a text for the client.
Report(p) ==
  LET config == server[p].config
      valid  == Valid(config)
  IN /\ Steps(p, "report")
     /\ pending' = pending \cup {IF valid THEN "SIGUSR1" ELSE "SIGUSR2"}
     /\ smem' = IF config \in Clients /\ client[config].wants = "badType" THEN Error ELSE smem
     /\ server' = [server EXCEPT ![p].at = IF valid THEN "bind" ELSE "exit"]
     /\ UNCHANGED <<controller, queue, forks, client>>

\* forceOpenListenFD: it fails when another server listens.
Bind(p) ==
  /\ Steps(p, "bind")
  /\ IF \E q \in Pids : Listening(q) THEN Exit(p) ELSE Goes(p, "check")

\* The loop of serverMain around accept().
Check(p) ==
  /\ Steps(p, "check")
  /\ IF server[p].got = {} THEN Goes(p, "accept") ELSE Exit(p)

\* accept(), the second look at the locks, close(listenfd).
AcceptTest(p) ==
  /\ Steps(p, "accept") /\ server[p].backlog # <<>>
  /\ IF server[p].got # {} THEN Exit(p)
     ELSE /\ server' = [server EXCEPT ![p] =
               [@ EXCEPT !.at = "test", !.peer = Head(server[p].backlog), !.backlog = <<>>]]
          /\ UNCHANGED <<controller, pending, smem, queue, forks, client>>

\* The loops of doLongTest, doFixTest and doReceive around one read or write.
Test(p) ==
  /\ Steps(p, "test")
  /\ Goes(p, IF server[p].got = {} THEN "io" ELSE "exit")
Io(p) ==
  /\ Steps(p, "io")
  /\ \/ Goes(p, "test")
     \/ Goes(p, "exit")  \* all is sent, or the other side has gone

\* The alarm of the test.
TestAlarm(p) ==
  /\ server[p].at \in {"test", "io"} /\ "SIGALRM" \notin server[p].sigs \cup server[p].got
  /\ server' = [server EXCEPT ![p].sigs = @ \cup {"SIGALRM"}]
  /\ UNCHANGED <<controller, pending, smem, queue, forks, client>>

ExitTest(p) == Steps(p, "exit") /\ Exit(p)

\* sigintHandler and sigalrmHandler: a server that does not run yet exits.  An
\* accept() with nothing to accept, a read or a write may return EINTR.  SIGTERM
\* ends it anyway.
Wakes(p) ==
  {place \in {"check", "exit"} :
     \/ place = "check" /\ server[p].at = "accept" /\ server[p].backlog = <<>>
     \/ place = "exit" /\ server[p].at = "io"}
Handled(p, sig, place) ==
  [server[p] EXCEPT !.sigs = @ \ {sig}, !.got = @ \cup {sig}, !.at = place]
Interrupted(p) ==
  \E sig \in server[p].sigs \ {"SIGTERM"} :
    \/ ~Running(p) /\ Exit(p)
    \/ /\ Running(p)
       /\ \E place \in {server[p].at} \cup Wakes(p) :
            server' = [server EXCEPT ![p] = Handled(p, sig, place)]
       /\ UNCHANGED <<controller, pending, smem, queue, forks, client>>
Terminated(p) == "SIGTERM" \in server[p].sigs /\ Exit(p)

-----------------------------------------------------------------------------
Controller ==
  \/ Accept \/ Parse \/ StopBegin \/ Kill \/ StopEnd \/ Harder \/ Message
  \/ ReadTimeout \/ Fork \/ ForkFails \/ Forked \/ Started

\* What a server does by itself, and what a signal makes it do.
Server(p) ==
  \/ Configure(p) \/ Report(p) \/ Bind(p) \/ Check(p) \/ AcceptTest(p)
  \/ Test(p) \/ ExitTest(p) \/ Interrupted(p) \/ Terminated(p)

\* The alarm of one second (SV_RESPONSE).  The other processes need far less for
\* what they do: it rings when the controller spins and nothing else happens.
Blocked(p) ==
  \/ ~Alive(p)
  \/ /\ server[p].sigs = {}
     /\ \/ server[p].at = "accept" /\ server[p].backlog = <<>>
        \/ server[p].at = "io"
Alarm ==
  /\ alarm /\ pending = {}
  /\ \/ pc = "stopping" /\ released \cap {"sigchld", "sigalrm"} = {}
     \/ pc = "starting" /\ released \cap Awaited = {}
  /\ \A p \in Pids : Blocked(p)
  /\ alarm' = FALSE /\ pending' = {"SIGALRM"}
  /\ UNCHANGED <<pc, conn, ret, chldPID, released, smem, queue, forks, server, client>>

Next ==
  \/ Controller \/ Alarm
  \/ \E sig \in DOMAIN LockOf : Handler(sig)
  \/ \E p \in Pids : Server(p) \/ Io(p) \/ TestAlarm(p)
  \/ \E c \in Clients : Dial(c) \/ Send(c) \/ Stop(c) \/ Connect(c)

Spec == Init /\ [][Next]_vars

\* The kernel runs every process that can run and delivers its signals; a client
\* that is not silent sends its request.  Nothing is asked of a read or write of
\* a test: the other side may have stopped.
FairSpec ==
  /\ Spec /\ WF_vars(Controller) /\ WF_vars(Alarm)
  /\ WF_vars(\E sig \in DOMAIN LockOf : Handler(sig))
  /\ \A p \in Pids : WF_vars(Server(p))
  /\ \A c \in Clients \ Silent : WF_vars(Send(c))

-----------------------------------------------------------------------------
(* Properties.                                                             *)

TypeOK ==
  /\ pc \in {"accept", "parse", "stop", "kill", "stopping", "harder", "message",
             "fork", "forked", "starting"}
  /\ conn \in Clients \cup {Nobody} /\ (conn = Nobody <=> pc = "accept")
  /\ ret \in {"none", "succ", "emsg", "ekill", "eread", "eproc"}
  /\ chldPID \in -1 .. forks /\ forks \in 0 .. N
  /\ released \subseteq Locks /\ alarm \in BOOLEAN
  /\ pending \subseteq DOMAIN LockOf
  /\ \A p \in Pids : /\ server[p].at # "unborn" <=> p <= forks
                     /\ server[p].config \in {Nobody} \cup Clients

\* RET_SUCC: the server just forked has this client's arguments and will do
\* the test; RET_EMSG: it has them and will not.
RightAnswer ==
  [][pc = "starting" /\ pc' = "accept" /\ ret' \in {"succ", "emsg"} =>
       /\ forks > 0 /\ server[forks].config = conn
       /\ Valid(conn) <=> ret' = "succ"]_vars

\* Tests are preemptive: when a new server is there, every earlier one that is
\* still alive has been told to end.
Preempted ==
  \A p \in 1 .. forks - 1 :
    Alive(p) => {"SIGINT", "SIGTERM"} \cap (server[p].sigs \cup server[p].got) # {}

\* However servers and clients fail, the controller gets back to the next request.
Serves == pc # "accept" ~> pc = "accept"

\* No server that has ended remains a zombie.
Reaped == Zombies # {} ~> Zombies = {}
=============================================================================
