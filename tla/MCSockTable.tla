---------------------------- MODULE MCSockTable ------------------------------
(* Symmetry of the application threads, for the runs without liveness.     *)
EXTENDS SockTable, TLC

CONSTANTS t1, t2, p

AppsAlike == Permutations({t1, t2})
=============================================================================
