-------------------------------- MODULE MCIPC --------------------------------
(* An instance of IPCManager for TLC: two processes with one thread each. *)
EXTENDS IPCManager

CONSTANTS t1, t2, p1, p2

Pair == (t1 :> p1 @@ t2 :> p2)
=============================================================================
