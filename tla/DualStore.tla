------------------------------ MODULE DualStore ------------------------------
(***************************************************************************)
(* One table of the engine, kept twice: as JSON files on disk, one         *)
(* directory per row and one file per column group (pkg/colgroup,          *)
(* pkg/storage), and as a DuckDB table that queries read (pkg/duckdb).     *)
(* pkg/engine writes the files first and then refreshes DuckDB.  No lock   *)
(* spans the two: a file write, a file read and a SQL statement are each a *)
(* step, and the steps of concurrent requests interleave.                  *)
(*                                                                         *)
(* Covered: InsertRow, UpdateRow, DeleteRow, UpdateColumnGroup, LoadTable, *)
(* SyncTable, LoadTableIncremental, DML sent straight to DuckDB, request   *)
(* cancellation and I/O errors, read errors the code swallows, and the     *)
(* loss of an in-memory DuckDB when the process dies.  Not covered: the    *)
(* schema's life (the table exists throughout) and the query path.         *)
(*                                                                         *)
(* tainted and solo are history variables: they record which rows' copies  *)
(* are excused from agreeing, and change nothing the program does.         *)
(***************************************************************************)
EXTENDS Integers

CONSTANTS Procs,      \* goroutines that serve requests
          Rows,       \* row ids
          Hidden,     \* those that begin with "_" or "."
          NumGroups,  \* column groups of the schema, numbered in schema order
          Cols,       \* column names of a group
          Vals,       \* column values
          Requests,   \* the requests clients send
          Seed,       \* contents of the rows the table starts with
          Faults,     \* subset of {"cancel", "read", "crash"}
          MaxOps,     \* bound on the number of requests
          MaxCrashes, \* bound on the number of process deaths
          Missing, Torn, Garbled, NoRow, NoReq

Groups == 1 .. NumGroups

\* The contents of one group file: a value for some of its columns.
GroupData == UNION {[S -> Vals] : S \in SUBSET Cols}
EmptyData == [c \in {} |-> c]
RowData == [Groups -> GroupData]
NoData == [g \in Groups |-> EmptyData]

\* A file is absent, truncated by a write in progress, a mixture of two
\* overlapping writes, or holds a JSON object.
Unreadable == {Missing, Torn, Garbled}
FileState == GroupData \cup Unreadable
BareRow == [g \in Groups |-> Missing]

RowKinds == {"insert", "update", "group", "delete"}
BulkKinds == {"load", "sync", "incr"}
Request == [kind : RowKinds \cup BulkKinds \cup {"exec"}, row : Rows,
            groups : SUBSET Groups, data : RowData]

ASSUME HiddenAssumption == Hidden \subseteq Rows
ASSUME GroupsAssumption == NumGroups \in Nat \ {0}
ASSUME RequestsAssumption == Requests \subseteq Request
ASSUME SeedAssumption == Seed \in RowData
ASSUME NullsAssumption ==
  /\ Unreadable \cap GroupData = {}
  /\ Missing # Torn /\ Missing # Garbled /\ Torn # Garbled
  /\ NoRow \notin Rows
  /\ NoRow \notin [Groups -> FileState]
ASSUME BoundsAssumption == MaxOps \in Nat /\ MaxCrashes \in Nat

VARIABLES disk,    \* the row directories and their group files
          duck,    \* the rows of the DuckDB table
          table,   \* does the DuckDB table exist
          pc,      \* the next step of each goroutine
          req,     \* the request each goroutine serves
          loc,     \* the local variables of each goroutine
          solo,    \* rows of its request a goroutine has had for itself
          tainted, \* rows whose two copies may differ, and why is known
          ever,    \* <<group, contents>> each row's files have held
          ops, crashes

vars == <<disk, duck, table, pc, req, loc, solo, tainted, ever, ops, crashes>>

-----------------------------------------------------------------------------
(* What the program's own reads return. *)

\* ReadJSON as ReadRow and UpdateRow use it: any error is an empty object.
ReadFile(r, g) ==
  IF disk[r] = NoRow THEN EmptyData
  ELSE IF disk[r][g] \in Unreadable THEN EmptyData ELSE disk[r][g]

RowOnDisk(r) == [g \in Groups |-> ReadFile(r, g)]

\* The DuckDB row that shows the row's files; none when its directory is absent.
View(r) == IF disk[r] = NoRow THEN NoRow ELSE RowOnDisk(r)

\* ListRows: ListDirs skips the directories isHiddenOrMeta holds of.
Listed == {r \in Rows \ Hidden : disk[r] # NoRow}
InDuck == {r \in Rows : duck[r] # NoRow}

\* existingData[k] = v for every k of the request.
Merge(old, new) ==
  [c \in DOMAIN old \cup DOMAIN new |-> IF c \in DOMAIN new THEN new[c] ELSE old[c]]

-----------------------------------------------------------------------------
(* Requests in progress, and what they may leave inconsistent. *)

Active == {p \in Procs : pc[p] # "idle"}
Kind(p) == req[p].kind
Row(p) == loc[p].row

\* The rows a request may touch.  An incremental load deletes nothing, so what
\* ListRows does not list is nothing to it.
Footprint(q) == CASE q.kind \in {"load", "sync"} -> Rows
                  [] q.kind = "incr" -> Rows \ Hidden
                  [] OTHER -> {q.row}

\* The rows that a load or a sync drops from DuckDB although they are on disk,
\* because ListRows does not list them.
Overlooked(q) == {r \in Hidden : q.kind \in {"load", "sync"} /\ disk[r] # NoRow}

\* The rows whose two copies p's request may have made differ so far.
Exposed(p) ==
  CASE Kind(p) = "load" -> IF pc[p] = "list" THEN Rows ELSE loc[p].left
    [] Kind(p) = "sync" -> IF pc[p] = "sqlins" THEN {Row(p)} ELSE {}
    [] Kind(p) = "incr" \/ pc[p] \in {"mkdir", "exists", "rmlist"} -> {}
    [] OTHER -> {req[p].row}

\* The rows p's request has made agree when it succeeds.
Synced(p) == IF Kind(p) = "incr" THEN solo[p] \ loc[p].seen ELSE solo[p]

IdleLoc == [row |-> NoRow, cur |-> 0, out |-> EmptyData, todo |-> {},
            buf |-> NoData, linked |-> FALSE, seen |-> {}, left |-> {}]

Label == {"idle", "mkdir", "exists", "prepare", "open", "write", "rmlist",
          "rmfile", "sqldrop", "create", "truncate", "select", "list",
          "prune", "next", "read", "sqldel", "sqlins"}

SetLoc(p, l) == loc' = [loc EXCEPT ![p] = l]
Goto(p, l) == pc' = [pc EXCEPT ![p] = l]

Release(p) == /\ pc' = [pc EXCEPT ![p] = "idle"]
              /\ req' = [req EXCEPT ![p] = NoReq]
              /\ loc' = [loc EXCEPT ![p] = IdleLoc]
              /\ solo' = [solo EXCEPT ![p] = {}]

\* The request answers success.
Finish(p) == Release(p) /\ tainted' = tainted \ Synced(p)

\* The request answers with an error after it may have changed something.
Abort(p) == Release(p) /\ tainted' = tainted \cup Exposed(p)

History == <<solo, tainted>>
Budget == <<ops, crashes>>

-----------------------------------------------------------------------------
Init ==
  \E S \in SUBSET Rows :
    /\ disk = [r \in Rows |-> IF r \in S THEN Seed ELSE NoRow]
    /\ duck = [r \in Rows |-> IF r \in S THEN Seed ELSE NoRow]
    /\ table = TRUE
    /\ pc = [p \in Procs |-> "idle"]
    /\ req = [p \in Procs |-> NoReq]
    /\ loc = [p \in Procs |-> IdleLoc]
    /\ solo = [p \in Procs |-> {}]
    /\ tainted = {}
    /\ ever = [r \in Rows |-> IF r \in S THEN {<<g, Seed[g]>> : g \in Groups} ELSE {}]
    /\ ops = 0
    /\ crashes = 0

FirstStep(kind) ==
  CASE kind \in {"insert", "group"} -> "mkdir"
    [] kind = "update" -> "exists"
    [] kind = "delete" -> "rmlist"
    [] OTHER -> "create"

\* A handler calls the engine.  Rows that another request is working on are
\* excused from now on, and neither request has them for itself; nor has a
\* load or a sync the rows it overlooks.
Start(p, q) ==
  LET busy == UNION {Footprint(req[o]) : o \in Active}
  IN  /\ pc[p] = "idle"
      /\ ops < MaxOps
      /\ q.kind # "exec"
      /\ Goto(p, FirstStep(q.kind))
      /\ req' = [req EXCEPT ![p] = q]
      /\ SetLoc(p, [IdleLoc EXCEPT !.row = IF q.kind \in BulkKinds THEN NoRow ELSE q.row])
      /\ solo' = [o \in Procs |-> IF o = p THEN Footprint(q) \ (busy \cup Overlooked(q))
                                           ELSE solo[o] \ Footprint(q)]
      /\ tainted' = tainted \cup (Footprint(q) \cap busy) \cup Overlooked(q)
      /\ ops' = ops + 1
      /\ UNCHANGED <<disk, duck, table, ever, crashes>>

-----------------------------------------------------------------------------
(* Writing the group files: InsertRow, UpdateRow, UpdateColumnGroup. *)

\* The loop over the groups ends: the engine calls RefreshRow, which reads.
AfterGroup(p, rest) ==
  /\ Goto(p, IF rest = {} THEN "read" ELSE "prepare")
  /\ SetLoc(p, [loc[p] EXCEPT !.todo = IF rest = {} THEN Groups ELSE rest,
                              !.cur = 0, !.out = EmptyData, !.linked = FALSE])

MakeRowDir(p) ==
  /\ pc[p] = "mkdir"
  /\ disk' = [disk EXCEPT ![Row(p)] = IF @ = NoRow THEN BareRow ELSE @]
  /\ AfterGroup(p, IF Kind(p) = "insert" THEN Groups ELSE req[p].groups)
  /\ UNCHANGED <<duck, table, req, History, ever, Budget>>

CheckRowExists(p) ==
  /\ pc[p] = "exists"
  /\ disk[Row(p)] # NoRow
  /\ AfterGroup(p, req[p].groups)
  /\ UNCHANGED <<disk, duck, table, req, History, ever, Budget>>

\* "row %s does not exist": nothing has been changed.
RejectUpdate(p) ==
  /\ pc[p] = "exists"
  /\ disk[Row(p)] = NoRow
  /\ Release(p)
  /\ UNCHANGED <<disk, duck, table, tainted, ever, Budget>>

\* The next group of the loop: schema order when a schema is walked, any order
\* when the request's map is.
NextGroup(p, g) ==
  /\ g \in loc[p].todo
  /\ Kind(p) = "update" \/ \A h \in loc[p].todo : g =< h

\* Mutant of PrepareGroup: an update forgets the columns it does not name.
PrepareGroupReplaces(p) ==
  /\ pc[p] = "prepare"
  /\ \E g \in Groups :
       /\ NextGroup(p, g)
       /\ SetLoc(p, [loc[p] EXCEPT !.cur = g, !.out = req[p].data[g]])
  /\ Goto(p, "open")
  /\ UNCHANGED <<disk, duck, table, req, History, ever, Budget>>

PrepareGroup(p) ==
  /\ pc[p] = "prepare"
  /\ \E g \in Groups :
       /\ NextGroup(p, g)
       /\ SetLoc(p, [loc[p] EXCEPT !.cur = g, !.out =
                    IF Kind(p) = "update" THEN Merge(ReadFile(Row(p), g), req[p].data[g])
                                          ELSE req[p].data[g]])
  /\ Goto(p, "open")
  /\ UNCHANGED <<disk, duck, table, req, History, ever, Budget>>

\* The read of the merge fails although the file is there: the error is taken
\* for a missing file and the merge starts from an empty object.
PrepareGroupUnread(p) ==
  /\ "read" \in Faults
  /\ pc[p] = "prepare"
  /\ Kind(p) = "update"
  /\ \E g \in loc[p].todo : SetLoc(p, [loc[p] EXCEPT !.cur = g, !.out = req[p].data[g]])
  /\ Goto(p, "open")
  /\ UNCHANGED <<disk, duck, table, req, History, ever, Budget>>

\* WriteJSON: MkdirAll of the row's directory, then WriteFile opens the file
\* with O_TRUNC.
OpenFile(p) ==
  /\ pc[p] = "open"
  /\ disk' = [disk EXCEPT ![Row(p)] =
                [(IF @ = NoRow THEN BareRow ELSE @) EXCEPT ![loc[p].cur] = Torn]]
  /\ SetLoc(p, [loc[p] EXCEPT !.linked = TRUE])
  /\ Goto(p, "write")
  /\ UNCHANGED <<duck, table, req, History, ever, Budget>>

\* The write itself.  Another writer that truncated before and wrote since
\* leaves bytes behind a shorter text.  A file unlinked since it was opened
\* takes the bytes with it.
WriteFile(p) ==
  LET r == Row(p)  g == loc[p].cur  IN
  /\ pc[p] = "write"
  /\ \/ /\ loc[p].linked
        /\ \/ /\ disk' = [disk EXCEPT ![r] = [@ EXCEPT ![g] = loc[p].out]]
              /\ ever' = [ever EXCEPT ![r] = @ \cup {<<g, loc[p].out>>}]
           \/ /\ disk[r][g] # Torn
              /\ disk' = [disk EXCEPT ![r] = [@ EXCEPT ![g] = Garbled]]
              /\ UNCHANGED ever
     \/ ~loc[p].linked /\ UNCHANGED <<disk, ever>>
  /\ AfterGroup(p, loc[p].todo \ {g})
  /\ UNCHANGED <<duck, table, req, History, Budget>>

-----------------------------------------------------------------------------
(* Removing a row: os.RemoveAll of its directory, then DELETE in DuckDB. *)

ListRowFiles(p) ==
  /\ pc[p] = "rmlist"
  /\ IF disk[Row(p)] = NoRow
     THEN Goto(p, "sqldrop") /\ UNCHANGED loc
     ELSE /\ Goto(p, "rmfile")
          /\ SetLoc(p, [loc[p] EXCEPT !.todo = {g \in Groups : disk[Row(p)][g] # Missing}])
  /\ UNCHANGED <<disk, duck, table, req, History, ever, Budget>>

\* Unlinking a file detaches it from the goroutines that have it open.
RemoveFile(p) ==
  /\ pc[p] = "rmfile"
  /\ \E g \in loc[p].todo :
       /\ disk' = [disk EXCEPT ![Row(p)] =
                     IF @ = NoRow THEN @ ELSE [@ EXCEPT ![g] = Missing]]
       /\ loc' = [o \in Procs |->
                    IF o = p THEN [loc[p] EXCEPT !.todo = @ \ {g}]
                    ELSE IF pc[o] = "write" /\ Row(o) = Row(p) /\ loc[o].cur = g
                    THEN [loc[o] EXCEPT !.linked = FALSE] ELSE loc[o]]
  /\ UNCHANGED <<duck, table, pc, req, History, ever, Budget>>

RemoveRowDir(p) ==
  /\ pc[p] = "rmfile"
  /\ loc[p].todo = {}
  /\ disk[Row(p)] \in {NoRow, BareRow}
  /\ disk' = [disk EXCEPT ![Row(p)] = NoRow]
  /\ Goto(p, "sqldrop")
  /\ UNCHANGED <<duck, table, req, loc, History, ever, Budget>>

\* A file created since the directory was read: "directory not empty".
RemoveRowDirFails(p) ==
  /\ pc[p] = "rmfile"
  /\ loc[p].todo = {}
  /\ disk[Row(p)] \notin {NoRow, BareRow}
  /\ Abort(p)
  /\ UNCHANGED <<disk, duck, table, ever, Budget>>

\* Mutant of SqlDrop: DeleteRow removes the files only.
SqlDropForgotten(p) ==
  /\ pc[p] = "sqldrop"
  /\ table
  /\ Finish(p)
  /\ UNCHANGED <<disk, duck, table, ever, Budget>>

SqlDrop(p) ==
  /\ pc[p] = "sqldrop"
  /\ table
  /\ duck' = [duck EXCEPT ![Row(p)] = NoRow]
  /\ Finish(p)
  /\ UNCHANGED <<disk, table, ever, Budget>>

-----------------------------------------------------------------------------
(* Reading a row from its files and putting it into DuckDB. *)

\* RefreshRow deletes before it inserts; a load inserts at once, and so does
\* SyncTable for a row that was not in DuckDB.
AfterRead(p) ==
  IF Kind(p) \in {"load", "incr"} \/ (Kind(p) = "sync" /\ Row(p) \notin loc[p].seen)
  THEN "sqlins" ELSE "sqldel"

\* Mutants of ReadGroup: a file that does not parse is not skipped; every group
\* is read from the first group's file.
ReadGroupUnparsed(p) ==
  /\ pc[p] = "read"
  /\ \E g \in loc[p].todo :
       /\ \A h \in loc[p].todo : g =< h
       /\ SetLoc(p, [loc[p] EXCEPT !.todo = @ \ {g}, !.buf = [@ EXCEPT ![g] =
                    IF disk[Row(p)] = NoRow THEN EmptyData ELSE disk[Row(p)][g]]])
       /\ Goto(p, IF loc[p].todo = {g} THEN AfterRead(p) ELSE "read")
  /\ UNCHANGED <<disk, duck, table, req, History, ever, Budget>>

ReadGroupFirst(p) ==
  /\ pc[p] = "read"
  /\ \E g \in loc[p].todo :
       /\ \A h \in loc[p].todo : g =< h
       /\ SetLoc(p, [loc[p] EXCEPT !.todo = @ \ {g},
                    !.buf = [@ EXCEPT ![g] = ReadFile(Row(p), 1)]])
       /\ Goto(p, IF loc[p].todo = {g} THEN AfterRead(p) ELSE "read")
  /\ UNCHANGED <<disk, duck, table, req, History, ever, Budget>>

ReadGroup(p) ==
  /\ pc[p] = "read"
  /\ \E g \in loc[p].todo :
       /\ \A h \in loc[p].todo : g =< h
       /\ SetLoc(p, [loc[p] EXCEPT !.todo = @ \ {g},
                    !.buf = [@ EXCEPT ![g] = ReadFile(Row(p), g)]])
       /\ Goto(p, IF loc[p].todo = {g} THEN AfterRead(p) ELSE "read")
  /\ UNCHANGED <<disk, duck, table, req, History, ever, Budget>>

\* ReadRow goes on after any error: the group is left out of the row.
ReadGroupFails(p) ==
  /\ "read" \in Faults
  /\ pc[p] = "read"
  /\ \E g \in loc[p].todo :
       /\ \A h \in loc[p].todo : g =< h
       /\ SetLoc(p, [loc[p] EXCEPT !.todo = @ \ {g}])
       /\ Goto(p, IF loc[p].todo = {g} THEN AfterRead(p) ELSE "read")
  /\ solo' = [solo EXCEPT ![p] = @ \ {Row(p)}]
  /\ tainted' = tainted \cup {Row(p)}
  /\ UNCHANGED <<disk, duck, table, req, ever, Budget>>

SqlDelete(p) ==
  /\ pc[p] = "sqldel"
  /\ table
  /\ duck' = [duck EXCEPT ![Row(p)] = NoRow]
  /\ Goto(p, "sqlins")
  /\ UNCHANGED <<disk, table, req, loc, History, ever, Budget>>

SqlInsert(p) ==
  /\ pc[p] = "sqlins"
  /\ table
  /\ duck[Row(p)] = NoRow
  /\ duck' = [duck EXCEPT ![Row(p)] = loc[p].buf]
  /\ IF Kind(p) \in BulkKinds
     THEN /\ Goto(p, "next")
          /\ SetLoc(p, [loc[p] EXCEPT !.row = NoRow, !.buf = NoData,
                                      !.left = @ \ {Row(p)}])
          /\ UNCHANGED <<req, History>>
     ELSE Finish(p)
  /\ UNCHANGED <<disk, table, ever, Budget>>

\* Mutant of SqlFails: a refused INSERT is tried again.
SqlFailsRetry(p) ==
  /\ pc[p] \in {"sqldel", "sqlins", "sqldrop"} /\ ~table
  /\ Abort(p)
  /\ UNCHANGED <<disk, duck, table, ever, Budget>>

\* _row_id is the primary key, and no statement works without the table.
SqlFails(p) ==
  /\ \/ pc[p] = "sqlins" /\ duck[Row(p)] # NoRow
     \/ pc[p] \in {"sqldel", "sqlins", "sqldrop"} /\ ~table
  /\ Abort(p)
  /\ UNCHANGED <<disk, duck, table, ever, Budget>>

-----------------------------------------------------------------------------
(* LoadTable, SyncTable, LoadTableIncremental. *)

CreateDuckDBTable(p) ==
  /\ pc[p] = "create"
  /\ table' = TRUE
  /\ Goto(p, IF Kind(p) = "load" THEN "truncate" ELSE "select")
  /\ UNCHANGED <<disk, duck, req, loc, History, ever, Budget>>

TruncateTable(p) ==
  /\ pc[p] = "truncate"
  /\ duck' = [r \in Rows |-> NoRow]
  /\ Goto(p, "list")
  /\ UNCHANGED <<disk, table, req, loc, History, ever, Budget>>

SelectRowIds(p) ==
  /\ pc[p] = "select"
  /\ SetLoc(p, [loc[p] EXCEPT !.seen = InDuck])
  /\ Goto(p, "list")
  /\ UNCHANGED <<disk, duck, table, req, History, ever, Budget>>

\* The SELECT fails: the code goes on as if DuckDB held no row.
SelectRowIdsFails(p) ==
  /\ "read" \in Faults
  /\ pc[p] = "select"
  /\ Goto(p, "list")
  /\ solo' = [solo EXCEPT ![p] = @ \ Footprint(req[p])]
  /\ tainted' = tainted \cup Footprint(req[p])
  /\ UNCHANGED <<disk, duck, table, req, loc, ever, Budget>>

\* Mutant of ListRows: a row with a file that does not parse is not listed.
ListWholeRows(p) ==
  LET whole == {r \in Listed : \A g \in Groups : disk[r][g] \notin {Torn, Garbled}}
  IN  /\ pc[p] = "list"
      /\ SetLoc(p, [loc[p] EXCEPT !.left = IF Kind(p) = "incr" THEN whole \ loc[p].seen ELSE whole])
      /\ Goto(p, IF Kind(p) = "sync" THEN "prune" ELSE "next")
      /\ UNCHANGED <<disk, duck, table, req, History, ever, Budget>>

ListRows(p) ==
  /\ pc[p] = "list"
  /\ SetLoc(p, [loc[p] EXCEPT !.left = IF Kind(p) = "incr" THEN Listed \ loc[p].seen ELSE Listed])
  /\ Goto(p, IF Kind(p) = "sync" THEN "prune" ELSE "next")
  /\ UNCHANGED <<disk, duck, table, req, History, ever, Budget>>

\* SyncTable deletes from DuckDB the rows it saw there and not on disk.
PruneRow(p) ==
  /\ pc[p] = "prune"
  /\ \E r \in loc[p].seen \ loc[p].left :
       /\ duck' = [duck EXCEPT ![r] = NoRow]
       /\ SetLoc(p, [loc[p] EXCEPT !.seen = @ \ {r}])
  /\ UNCHANGED <<disk, table, pc, req, History, ever, Budget>>

PruneDone(p) ==
  /\ pc[p] = "prune"
  /\ loc[p].seen \subseteq loc[p].left
  /\ Goto(p, "next")
  /\ UNCHANGED <<disk, duck, table, req, loc, History, ever, Budget>>

\* The next row of the directory listing (in any order).
NextRow(p) ==
  /\ pc[p] = "next"
  /\ \E r \in loc[p].left :
       SetLoc(p, [loc[p] EXCEPT !.row = r, !.todo = Groups, !.buf = NoData])
  /\ Goto(p, "read")
  /\ UNCHANGED <<disk, duck, table, req, History, ever, Budget>>

BulkDone(p) ==
  /\ pc[p] = "next"
  /\ loc[p].left = {}
  /\ Finish(p)
  /\ UNCHANGED <<disk, duck, table, ever, Budget>>

-----------------------------------------------------------------------------
(* Everything else that touches the two copies. *)

\* POST /execute hands INSERT, UPDATE and DELETE to DuckDB and to nothing else.
DirectDML(q) ==
  LET r == q.row IN
  /\ q.kind = "exec"
  /\ table
  /\ ops < MaxOps
  /\ \/ /\ duck[r] = NoRow
        /\ duck' = [duck EXCEPT ![r] = q.data]
        /\ ever' = [ever EXCEPT ![r] = @ \cup {<<g, q.data[g]>> : g \in Groups}]
     \/ /\ duck[r] # NoRow
        /\ LET new == [g \in Groups |-> Merge(duck[r][g], q.data[g])]
           IN  /\ duck' = [duck EXCEPT ![r] = new]
               /\ ever' = [ever EXCEPT ![r] = @ \cup {<<g, new[g]>> : g \in Groups}]
     \/ /\ duck[r] # NoRow
        /\ duck' = [duck EXCEPT ![r] = NoRow]
        /\ UNCHANGED ever
  /\ tainted' = tainted \cup {r}
  /\ solo' = [p \in Procs |-> solo[p] \ {r}]
  /\ ops' = ops + 1
  /\ UNCHANGED <<disk, table, pc, req, loc, crashes>>

\* The client went away (r.Context() is cancelled) or the disk or DuckDB
\* reported an error: the next step fails and the handler returns.
Cancel(p) ==
  /\ "cancel" \in Faults
  /\ p \in Active
  /\ Abort(p)
  /\ UNCHANGED <<disk, duck, table, ever, Budget>>

\* The process dies.  An in-memory DuckDB dies with it; the files stay as the
\* interrupted writes left them.
Crash ==
  /\ "crash" \in Faults
  /\ crashes < MaxCrashes
  /\ duck' = [r \in Rows |-> NoRow]
  /\ table' = FALSE
  /\ pc' = [p \in Procs |-> "idle"]
  /\ req' = [p \in Procs |-> NoReq]
  /\ loc' = [p \in Procs |-> IdleLoc]
  /\ solo' = [p \in Procs |-> {}]
  /\ tainted' = Rows
  /\ crashes' = crashes + 1
  /\ UNCHANGED <<disk, ever, ops>>

\* The steps of a goroutine that serves a request.
Step(p) ==
  \/ MakeRowDir(p) \/ CheckRowExists(p) \/ RejectUpdate(p)
  \/ PrepareGroup(p) \/ PrepareGroupUnread(p) \/ OpenFile(p) \/ WriteFile(p)
  \/ ListRowFiles(p) \/ RemoveFile(p) \/ RemoveRowDir(p) \/ RemoveRowDirFails(p)
  \/ SqlDrop(p) \/ ReadGroup(p) \/ ReadGroupFails(p) \/ SqlDelete(p)
  \/ SqlInsert(p) \/ SqlFails(p)
  \/ CreateDuckDBTable(p) \/ TruncateTable(p) \/ SelectRowIds(p)
  \/ SelectRowIdsFails(p) \/ ListRows(p) \/ PruneRow(p) \/ PruneDone(p)
  \/ NextRow(p) \/ BulkDone(p)

Next ==
  \/ \E p \in Procs : (\E q \in Requests : Start(p, q)) \/ Step(p) \/ Cancel(p)
  \/ \E q \in Requests : DirectDML(q)
  \/ Crash

Spec == Init /\ [][Next]_vars

\* The Go scheduler runs every goroutine, and Engine.mu is held for one
\* statement at a time.
Fairness == \A p \in Procs : WF_vars(Step(p))

-----------------------------------------------------------------------------
(* Properties. *)

LocType == [row : Rows \cup {NoRow}, cur : Groups \cup {0}, out : GroupData,
            todo : SUBSET Groups, buf : RowData, linked : BOOLEAN,
            seen : SUBSET Rows, left : SUBSET Rows]

\* The types of the two stores, of the goroutines' locals and of the history.
TypeOK ==
  /\ disk \in [Rows -> [Groups -> FileState] \cup {NoRow}]
  /\ duck \in [Rows -> RowData \cup {NoRow}]
  /\ table \in BOOLEAN
  /\ pc \in [Procs -> Label]
  /\ req \in [Procs -> Requests \cup {NoReq}]
  /\ loc \in [Procs -> LocType]
  /\ solo \in [Procs -> SUBSET Rows]
  /\ tainted \in SUBSET Rows
  /\ ever \in [Rows -> SUBSET (Groups \X GroupData)]
  /\ ops \in Nat
  /\ crashes \in Nat

\* JSON and DuckDB agree on every row nobody is in the middle of changing,
\* unless requests on that row overlapped, one of them failed half-way or
\* swallowed a read error, a statement went straight to DuckDB, the process
\* died, or the row was on disk under a name ListDirs skips when a load or a
\* sync began; and no later request had the row for itself and succeeded.  This
\* is what "write the files, then RefreshRow" (engine.go) and the repair by
\* LoadTable and SyncTable (loader.go) amount to.
Agreement ==
  \A r \in Rows \ tainted : (\A p \in Active : r \notin Exposed(p)) => duck[r] = View(r)

\* What DuckDB shows of a column group is a complete version of that group's
\* file (or of a DML statement's row), never a mixture of two versions and
\* never another row's or group's data: ReadRow skips what does not parse.
ReadCommitted ==
  \A r \in InDuck, g \in Groups :
    duck[r][g] = EmptyData \/ <<g, duck[r][g]>> \in ever[r]

\* SyncTable "synchronizes the DuckDB table with JSON files" (loader.go 187): with
\* one request at a time, none of which fails, the copies agree between requests.
Synchronized == Active = {} => \A r \in Rows : duck[r] = View(r)

\* Every request is answered: the loops over groups, files and rows in
\* assembler.go and loader.go end, whatever the other requests do meanwhile.
Answered == \A p \in Procs : (pc[p] # "idle") ~> (pc[p] = "idle")
=============================================================================
