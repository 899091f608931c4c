---------------------------- MODULE DualStoreTable ----------------------------
(***************************************************************************)
(* DualStore implements RowTable.  The history variable before holds what  *)
(* the files showed of each row when the request on it began: a row's      *)
(* files change one by one, RowTable's row when the request is answered.   *)
(***************************************************************************)
EXTENDS DualStoreInv

CONSTANT Unknown

ASSUME TableAssumption == Unknown \notin RowData \cup {NoRow} /\ NoReq \notin Requests

VARIABLE before

hvars == <<vars, before>>

Claimed(r) == \E p \in Active : r \in Footprint(req[p])

HInit == Init /\ before = [r \in Rows |-> View(r)]
HNext == Next /\ before' = [r \in Rows |-> IF Claimed(r)' THEN before[r] ELSE View(r)']
HSpec == HInit /\ [][HNext]_hvars
HFairSpec == HSpec /\ Fairness

Store == [r \in Rows |-> IF r \in tainted THEN Unknown ELSE before[r]]

Table == INSTANCE RowTable WITH store <- Store, doing <- req, alone <- solo, ReadsFail <- "read" \in Faults

-----------------------------------------------------------------------------
(* Properties. *)

\* Every run of the engine is one of RowTable: a request that shares its row
\* with no other changes all the groups it is meant to, keeps the others, and
\* nothing else is changed, although assembler.go writes a file per group and
\* loader.go refreshes DuckDB after them; loads and syncs change no row, but for
\* the hidden rows that they take out of DuckDB; and what overlaps, failures and
\* loads leave behind, a later request that has the row for itself repairs.
ImplementsRowTable == Table!Spec

-----------------------------------------------------------------------------
(* The inductive invariant. *)

Unclaimed == \A r \in Rows : ~Claimed(r) => before[r] = View(r)

NamedGroups(q) == IF q.kind = "insert" THEN Groups ELSE q.groups
After(p, g, r) == Table!GroupAfter(req[p], g, before[r])

\* A request that has row r for itself has done this much of its change.
WriteInv(p, r) ==
  /\ pc[p] \in {"mkdir", "exists", "rmlist"} => View(r) = before[r]
  /\ Kind(p) = "update" /\ pc[p] \in {"prepare", "open", "write"} \cup RowSteps => before[r] # NoRow
  /\ pc[p] \in {"prepare", "open", "write"} =>
       /\ loc[p].todo \subseteq NamedGroups(req[p])
       /\ \A g \in loc[p].todo : ReadFile(r, g) = Table!Base(before[r], g) \/ (pc[p] = "write" /\ g = loc[p].cur)
       /\ \A g \in Groups \ loc[p].todo : ReadFile(r, g) \in After(p, g, r)
  /\ pc[p] \in {"open", "write"} => loc[p].cur \in loc[p].todo /\ loc[p].out \in After(p, loc[p].cur, r)
  /\ pc[p] = "write" => loc[p].linked /\ disk[r][loc[p].cur] = Torn
  /\ pc[p] \in RowSteps => \A g \in Groups : ReadFile(r, g) \in After(p, g, r)

Working ==
  \A p \in Active : \A r \in solo[p] :
    IF Kind(p) \in BulkKinds THEN View(r) = before[r] ELSE WriteInv(p, r)

HistoryInv ==
  /\ before \in [Rows -> RowData \cup {NoRow}]
  /\ \A p \in Procs : pc[p] = "idle" <=> req[p] = NoReq
  /\ Unclaimed /\ Working
=============================================================================
