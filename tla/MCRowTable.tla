------------------------------ MODULE MCRowTable ------------------------------
(* A small instance of DualStoreTable: contents of two columns, of which an  *)
(* update names one.                                                         *)
EXTENDS MCDualStore, DualStoreTable

TableRequests == RowRequests \cup {Bulk("incr"), Insert(r3, "x"), Req("update", r1, Groups, [g \in Groups |-> Only("b", "y")])}
=============================================================================
