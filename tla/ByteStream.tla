----------------------------- MODULE ByteStream -----------------------------
(***************************************************************************)
(* What a connection promises its two applications: two byte streams, one  *)
(* in each direction, each through a buffer of Capacity bytes on either    *)
(* side.  A byte is its position in its stream.  Nothing here speaks of    *)
(* packets, acknowledgements, windows or threads; TcpConn implements it.   *)
(***************************************************************************)
EXTENDS Integers, Sequences

CONSTANT Capacity  \* the bytes a send or a receive buffer can hold

VARIABLES
  accepted,  \* accepted[e]: how many bytes write has taken at e
  arrived,   \* arrived[e]: how many of the other end's bytes have come to e
  returned,  \* returned[e]: the bytes read has given out at e
  closed     \* closed[e]: the connection is over for e

vars == <<accepted, arrived, returned, closed>>

Ends == {"client", "server"}
Peer(e) == IF e = "client" THEN "server" ELSE "client"

Init ==
  /\ accepted = [e \in Ends |-> 0]
  /\ arrived = [e \in Ends |-> 0]
  /\ returned = [e \in Ends |-> <<>>]
  /\ closed = [e \in Ends |-> FALSE]

\* Write takes what the send buffer has room for: what has not arrived at the
\* other end yet is still in it.
Write(e) ==
  \E n \in 1 .. Capacity :
    /\ ~closed[e]
    /\ accepted[e] + n <= arrived[Peer(e)] + Capacity
    /\ accepted' = [accepted EXCEPT ![e] = @ + n]
    /\ UNCHANGED <<arrived, returned, closed>>

\* The next bytes of the stream come to the receive buffer, if they fit.
Arrive(e) ==
  \E n \in 1 .. Capacity :
    /\ arrived[e] + n <= accepted[Peer(e)]
    /\ arrived[e] + n <= Len(returned[e]) + Capacity
    /\ arrived' = [arrived EXCEPT ![e] = @ + n]
    /\ UNCHANGED <<accepted, returned, closed>>

\* Read gives out the bytes that have arrived, in the order of the stream.
Return(e) ==
  \E n \in 1 .. Capacity :
    /\ Len(returned[e]) + n <= arrived[e]
    /\ returned' = [returned EXCEPT ![e] =
                      @ \o [i \in 1 .. n |-> Len(@) + i]]
    /\ UNCHANGED <<accepted, arrived, closed>>

\* An end closes when all of both streams has arrived.
Finish(e) ==
  /\ ~closed[e]
  /\ \A f \in Ends : arrived[Peer(f)] = accepted[f]
  /\ closed' = [closed EXCEPT ![e] = TRUE]
  /\ UNCHANGED <<accepted, arrived, returned>>

Next == \E e \in Ends : Write(e) \/ Arrive(e) \/ Return(e) \/ Finish(e)

Spec == Init /\ [][Next]_vars

\* A reliable stream also gets there: what is written arrives, what arrives
\* is read.
FairSpec == Spec /\ \A e \in Ends : WF_vars(Arrive(e)) /\ WF_vars(Return(e))
=============================================================================
