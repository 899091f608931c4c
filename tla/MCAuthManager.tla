---------------------------- MODULE MCAuthManager ----------------------------
(* Small instances of AuthManager. *)
EXTENDS AuthManager, TLC

CONSTANTS p1, p2

Symm == Permutations(Procs)
=============================================================================
