----------------------------- MODULE MCTcpConn ------------------------------
(* Small instances of TcpConn for TLC.                                     *)
EXTENDS TcpConn, TLC

\* One thread per end: tc at the client, ts at the server.
OneEach == "tc" :> "client" @@ "ts" :> "server"

\* The client sends its data and closes; the server reads up to the end.
Upload == "tc" :> {"write", "close"} @@ "ts" :> {"read", "closeAtEof"}
\* Both ends read and write and nobody closes.
Duplex == "tc" :> {"read", "write"} @@ "ts" :> {"read", "write"}
\* The client closes while the server may still be writing.
EarlyClose == "tc" :> {"read", "close"} @@ "ts" :> {"read", "write"}

\* How much each end writes.
UploadWrites == "client" :> 5 @@ "server" :> 0
ShortUpload == "client" :> 3 @@ "server" :> 0
TwoBytes == "client" :> 2 @@ "server" :> 0
LongUpload == "client" :> 4 @@ "server" :> 0
Download == "client" :> 0 @@ "server" :> 4

\* What the theorems of TcpConnProofs and TcpStreamProofs assume of the threads.
ASSUME OneCaller == OneThreadPerCall
=============================================================================
