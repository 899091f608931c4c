------------------------------ MODULE MCIndexer ------------------------------
(* Small instances of Indexer. *)
EXTENDS Indexer, TLC

CONSTANTS e1, e2, c1, c2
=============================================================================
