----------------------------- MODULE MCDualStore -----------------------------
(* Small instances of DualStore: the requests and contents TLC enumerates.   *)
EXTENDS DualStoreInv, TLC

CONSTANTS p1, p2, r1, r2, r3

Symm == Permutations(Procs)

\* A group's contents with one column.
Only(c, v) == [x \in {c} |-> v]

SeedRow == [g \in Groups |-> Only("a", "old")]
Fill(v) == [g \in Groups |-> Only("a", v)]
InGroup(g, d) == [h \in Groups |-> IF h = g THEN d ELSE EmptyData]

Req(kind, r, groups, data) == [kind |-> kind, row |-> r, groups |-> groups, data |-> data]
Insert(r, v) == Req("insert", r, Groups, Fill(v))
Update(r, g, c, v) == Req("update", r, {g}, InGroup(g, Only(c, v)))
UpdateAll(r, v) == Req("update", r, Groups, Fill(v))
Group(r, g, v) == Req("group", r, {g}, InGroup(g, Only("a", v)))
Delete(r) == Req("delete", r, {}, NoData)
Exec(r, v) == Req("exec", r, {}, Fill(v))
Bulk(kind) == Req(kind, r1, {}, NoData)

\* Requests on one row, of every kind.
RowRequests == {Insert(r1, "x"), UpdateAll(r1, "y"), Group(r1, 1, "x"), Delete(r1),
                Exec(r1, "x"), Bulk("sync"), Bulk("load")}
\* Bulk operations over two rows against requests on them: one is updated and
\* deleted, the other inserted in JSON and written behind its back in DuckDB.
BulkRequests == {Bulk("load"), Bulk("sync"), Bulk("incr"), Update(r1, 1, "a", "y"), Delete(r1),
                 Insert(r2, "old"), Exec(r2, "x")}
\* One client that inserts rows, one of them hidden, deletes and syncs.
SyncRequests == {Insert(r, "x") : r \in Rows} \cup {Delete(r1), Bulk("sync")}
==============================================================================
