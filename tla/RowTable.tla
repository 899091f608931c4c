------------------------------- MODULE RowTable -------------------------------
(***************************************************************************)
(* What the engine promises of one table, without its files, its DuckDB    *)
(* and its goroutines: a request on a row that shares the row with no      *)
(* other request takes effect in one step, when it is answered, or not at  *)
(* all.  A row is unknown after requests on it overlapped or one failed,   *)
(* after a statement went past the engine or the process died, or when a   *)
(* load or a sync did not find it, until a request that had it for itself  *)
(* succeeds.                                                               *)
(***************************************************************************)
EXTENDS Integers

CONSTANTS Procs, Rows, NumGroups, Cols, Vals, Requests, NoRow, NoReq,
          Hidden,     \* the rows that loads and syncs do not find
          Unknown,    \* instead of a row's contents
          ReadsFail   \* may a read fail unnoticed

VARIABLES store,   \* the rows
          doing,   \* the request each goroutine serves
          alone    \* rows of it that it has had for itself

vars == <<store, doing, alone>>

Groups == 1 .. NumGroups
GroupData == UNION {[S -> Vals] : S \in SUBSET Cols}
Contents == [Groups -> GroupData] \cup {NoRow}

BulkKinds == {"load", "sync", "incr"}
Footprint(q) == CASE q.kind \in {"load", "sync"} -> Rows
                  [] q.kind = "incr" -> Rows \ Hidden
                  [] OTHER -> {q.row}
Busy == UNION {Footprint(doing[p]) : p \in {o \in Procs : doing[o] # NoReq}}

\* A group's columns before the request.
Base(old, g) == IF old = NoRow THEN [c \in {} |-> c] ELSE old[g]
Merge(old, new) ==
  [c \in DOMAIN old \cup DOMAIN new |-> IF c \in DOMAIN new THEN new[c] ELSE old[c]]

\* What a request makes of one group: an update keeps the columns it does not
\* name, unless it could not read them.
GroupAfter(q, g, old) ==
  IF q.kind # "insert" /\ g \notin q.groups THEN {Base(old, g)}
  ELSE IF q.kind = "update"
  THEN {Merge(Base(old, g), q.data[g])} \cup (IF ReadsFail THEN {q.data[g]} ELSE {})
  ELSE {q.data[g]}

\* What a request makes of a row; a load or a sync changes nothing.
RowAfter(q, old) ==
  CASE q.kind \in BulkKinds -> {old}
    [] q.kind = "delete" \/ (q.kind = "update" /\ old = NoRow) -> {NoRow}
    [] OTHER -> {new \in [Groups -> GroupData] : \A g \in Groups : new[g] \in GroupAfter(q, g, old)}

\* An incremental load leaves the rows that DuckDB has, and an update that is
\* refused leaves DuckDB, as they are.
RepairsAll(q) == q.kind \notin {"incr", "update"}

\* May row r be new when p's request is answered.
Becomes(p, r, new) ==
  LET q == doing[p] IN
  CASE r \notin Footprint(q) -> new = store[r]
    [] r \in Footprint(q) \ alone[p] -> new = Unknown
    [] r \in Footprint(q) \cap alone[p] /\ store[r] # Unknown -> new \in RowAfter(q, store[r])
    [] r \in Footprint(q) \cap alone[p] /\ store[r] = Unknown ->
         \/ new = Unknown /\ ~RepairsAll(q)
         \/ \E old \in Contents : new \in RowAfter(q, old)

Forget(R) == store' = [r \in Rows |-> IF r \in R THEN Unknown ELSE store[r]]
End(p) == doing' = [doing EXCEPT ![p] = NoReq] /\ alone' = [alone EXCEPT ![p] = {}]

Init == /\ store \in [Rows -> Contents]
        /\ doing = [p \in Procs |-> NoReq]
        /\ alone = [p \in Procs |-> {}]

\* The rows that loads and syncs do not find: those hidden rows that are there.
Missed(q, R) ==
  /\ R \subseteq Hidden
  /\ IF q.kind \in {"load", "sync"}
     THEN \A r \in Hidden \ Busy : store[r] # Unknown => (r \in R <=> store[r] # NoRow)
     ELSE R = {}

Begin(p, q) ==
  /\ doing[p] = NoReq /\ q.kind # "exec"
  /\ doing' = [doing EXCEPT ![p] = q]
  /\ \E R \in SUBSET Hidden :
       /\ Missed(q, R)
       /\ alone' = [o \in Procs |-> IF o = p THEN Footprint(q) \ (Busy \cup R)
                                             ELSE alone[o] \ Footprint(q)]
       /\ Forget((Footprint(q) \cap Busy) \cup R)

Answer(p) ==
  /\ doing[p] # NoReq
  /\ End(p)
  /\ store' \in [Rows -> Contents \cup {Unknown}]
  /\ \A r \in Rows : Becomes(p, r, store'[r])

\* The request is answered with an error, having changed some of its rows.
Fail(p) ==
  /\ doing[p] # NoReq
  /\ End(p)
  /\ \E R \in SUBSET Footprint(doing[p]) : Forget(R)

\* The copy in DuckDB is not made right, because of a read that failed.
Misread(p) ==
  /\ ReadsFail /\ doing[p] # NoReq
  /\ \E R \in SUBSET Footprint(doing[p]) :
       Forget(R) /\ alone' = [alone EXCEPT ![p] = @ \ R]
  /\ UNCHANGED doing

\* A statement goes straight to DuckDB.
Execute(q) ==
  /\ q.kind = "exec"
  /\ Forget({q.row})
  /\ alone' = [p \in Procs |-> alone[p] \ {q.row}]
  /\ UNCHANGED doing

Crash == /\ Forget(Rows)
         /\ doing' = [p \in Procs |-> NoReq]
         /\ alone' = [p \in Procs |-> {}]

Next == \/ \E p \in Procs : (\E q \in Requests : Begin(p, q)) \/ Answer(p) \/ Fail(p) \/ Misread(p)
        \/ \E q \in Requests : Execute(q)
        \/ Crash

Spec == Init /\ [][Next]_vars
=============================================================================
