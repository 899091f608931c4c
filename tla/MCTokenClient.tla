---------------------------- MODULE MCTokenClient ----------------------------
(* Small instances of TokenClient. *)
EXTENDS TokenClient, TLC

CONSTANTS t1, t2
=============================================================================
