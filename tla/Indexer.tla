-------------------------------- MODULE Indexer --------------------------------
(***************************************************************************)
(* The start-up load of one table (pkg/duckdb/indexer.go, cmd/dbengine).   *)
(* Several dbengine programs may use one data directory, each with a       *)
(* DuckDB of its own, in memory or in a file.  SmartLoad keeps the copy    *)
(* that is in DuckDB when the metadata saved by the last index build fits  *)
(* the schema, the modification times of the row directories and the row   *)
(* count; otherwise it loads every row, one by one.  A program may stop at *)
(* any step; a load that fails leaves it running.  The scripts write too.  *)
(*                                                                         *)
(* Not covered: .load and .sync (module DualStore), dropping the table     *)
(* through a running program (module TableCatalog), more than one file per *)
(* row; listing the rows and reading their times is one step.              *)
(*                                                                         *)
(* late, inplace, askew and touched are history variables.                 *)
(***************************************************************************)
EXTENDS Integers, FiniteSets

CONSTANTS Rows,        \* the names of row directories, in ReadDir's order
          Engines,     \* programs that use the data directory
          Persistent,  \* those whose DuckDB is a file
          Columns,     \* what a schema's columns may be
          MaxChanges, MaxStarts, MaxFaults,    \* bounds
          None

ASSUME RowsAssumption == Rows \subseteq Nat /\ IsFiniteSet(Rows)
ASSUME EnginesAssumption == Persistent \subseteq Engines /\ None \notin Engines
ASSUME IndexBoundsAssumption ==
  MaxChanges \in Nat /\ MaxStarts \in Nat /\ MaxFaults \in Nat

VARIABLES
  schema,     \* _schema.json: its columns and updated_at, or None
  disk,       \* each row's directory, or None
  meta,       \* _index_meta.json, or None when missing or torn
  clock,      \* the number of changes to the files: their time stamps
  pc,         \* what each program does next
  cached,     \* the manager's schema, or None
  read,       \* the metadata NeedsReindex works with, or the build's own
  todo,       \* rows the load has still to insert
  target,     \* the row a row operation works on
  table,      \* the columns of the DuckDB table, or None
  duck,       \* the contents DuckDB has of each row, or None
  result,     \* how the last load ended
  late,       \* rows changed by others since the last load began
  inplace,    \* rows rewritten in place since the program copied them
  askew,      \* whether the metadata describe the copy in DuckDB
  touched,    \* whether files or copy changed since the program's last build
  starts, faults

vars == <<schema, disk, meta, clock, pc, cached, read, todo, target, table, duck,
          result, late, inplace, askew, touched, starts, faults>>

shared == <<schema, disk, meta, clock>>
local  == <<cached, read, todo, target>>
copy   == <<table, duck>>
history == <<late, inplace, askew, touched>>
budget == <<starts, faults>>

Schema == [columns : Columns, stamp : Nat]

\* A row directory: the change that wrote its file (0 for no file yet), the
\* change that was its last new entry, and the columns written.
RowDir == [file : Nat, dir : Nat, columns : Columns \cup {None}]

\* The metadata: the hashes, and the rows counted.
Meta == [schema : Schema, data : [Rows -> Nat \cup {None}], rows : Nat]

ASSUME NoneAssumption == None \notin Nat \cup Columns \cup Schema \cup RowDir \cup Meta

Present == {r \in Rows : disk[r] # None}
Loaded(e) == {r \in Rows : duck[e][r] # None}
EmptyTable == [r \in Rows |-> None]

\* Mutant of ComputeDataHash: the row IDs without the times.
ComputeIdsHash == [r \in Rows |-> IF disk[r] = None THEN None ELSE 0]

\* The row IDs with their directories' modification times; None: not listed.
ComputeDataHash == [r \in Rows |-> IF disk[r] = None THEN None ELSE disk[r].dir]

Init == /\ schema \in [columns : Columns, stamp : {0}]
        /\ disk = [r \in Rows |-> None]
        /\ meta = None /\ clock = 0
        /\ pc = [e \in Engines |-> "down"]
        /\ cached = [e \in Engines |-> None]
        /\ read = [e \in Engines |-> None]
        /\ todo = [e \in Engines |-> {}]
        /\ target = [e \in Engines |-> None]
        /\ table = [e \in Engines |-> None]
        /\ duck = [e \in Engines |-> EmptyTable]
        /\ result = [e \in Engines |-> "none"]
        /\ late = [e \in Engines |-> {}]
        /\ inplace = [e \in Engines |-> {}]
        /\ askew = [e \in Engines |-> "no"]
        /\ touched = [e \in Engines |-> "yes"]
        /\ starts = 0 /\ faults = 0

Goto(e, l) == pc' = [pc EXCEPT ![e] = l]
End(e, how) == /\ Goto(e, "up")
               /\ result' = [result EXCEPT ![e] = how]
               /\ read' = [read EXCEPT ![e] = None]
               /\ todo' = [todo EXCEPT ![e] = {}]

\* Manager.GetTable.
Known(e) == IF cached[e] # None THEN cached[e] ELSE schema
GetTable(e) == /\ Known(e) # None
               /\ cached' = [cached EXCEPT ![e] = Known(e)]

-----------------------------------------------------------------------------
(* Changes to the files. *)

\* Row r becomes d, by program `by` or by nobody's.
Put(by, r, d) ==
  LET inPlace == d # None /\ disk[r] # None /\ d.dir = disk[r].dir IN
  /\ clock < MaxChanges
  /\ clock' = clock + 1
  /\ disk' = [disk EXCEPT ![r] = d]
  /\ late' = [e \in Engines |-> IF e = by THEN late[e] ELSE late[e] \cup {r}]
  /\ inplace' = [e \in Engines |-> IF inPlace THEN inplace[e] \cup {r} ELSE inplace[e] \ {r}]
  /\ askew' = [e \in Engines |-> IF askew[e] = "partial" /\ ~inPlace THEN "yes" ELSE askew[e]]
  /\ touched' = [e \in Engines |-> "yes"]

NewDir == [file |-> 0, dir |-> clock + 1, columns |-> None]

\* Writing the row's file, with MkdirAll for the directory before it: only a
\* new entry changes the directory's time.
Written(r, columns) ==
  [file |-> clock + 1, columns |-> columns,
   dir |-> IF disk[r] = None \/ disk[r].file = 0 THEN clock + 1 ELSE disk[r].dir]

\* The scripts generate_data and clean_data.
GenerateRow ==
  /\ schema # None
  /\ \E r \in Rows :
       \/ disk[r] = None /\ Put(None, r, NewDir)
       \/ disk[r] # None /\ disk[r].file = 0 /\ Put(None, r, Written(r, schema.columns))
  /\ UNCHANGED <<schema, meta, pc, local, copy, result, budget>>

TouchAll == /\ clock < MaxChanges
            /\ clock' = clock + 1
            /\ touched' = [e \in Engines |-> "yes"]

UpdateSchemaTimestamp ==
  /\ schema # None
  /\ TouchAll
  /\ schema' = [schema EXCEPT !.stamp = clock + 1]
  /\ UNCHANGED <<disk, meta, pc, local, copy, result, late, inplace, askew, budget>>

\* --keep-duckdb, or a DuckDB file elsewhere.
CleanData ==
  /\ schema # None
  /\ TouchAll
  /\ schema' = None /\ meta' = None
  /\ disk' = [r \in Rows |-> None]
  /\ late' = [e \in Engines |-> Rows]
  /\ inplace' = [e \in Engines |-> {}]
  /\ askew' = [e \in Engines |-> IF askew[e] = "partial" THEN "yes" ELSE askew[e]]
  /\ UNCHANGED <<pc, local, copy, result, budget>>

WriteSchema ==
  /\ schema = None
  /\ TouchAll
  /\ \E c \in Columns : schema' = [columns |-> c, stamp |-> clock + 1]
  /\ UNCHANGED <<disk, meta, pc, local, copy, result, late, inplace, askew, budget>>

-----------------------------------------------------------------------------
(* A program starts: SmartLoad. *)

Start(e) ==
  /\ pc[e] = "down" /\ schema # None
  /\ starts < MaxStarts
  /\ starts' = starts + 1
  /\ Goto(e, "meta")
  /\ late' = [late EXCEPT ![e] = {}]
  /\ UNCHANGED <<shared, local, copy, result, inplace, askew, touched, faults>>

\* It stops, at any step: a DuckDB in memory is lost.
Stop(e) ==
  /\ pc[e] # "down"
  /\ Goto(e, "down")
  /\ cached' = [cached EXCEPT ![e] = None]
  /\ read' = [read EXCEPT ![e] = None]
  /\ todo' = [todo EXCEPT ![e] = {}]
  /\ target' = [target EXCEPT ![e] = None]
  /\ result' = [result EXCEPT ![e] = "none"]
  /\ IF e \in Persistent THEN UNCHANGED copy
     ELSE /\ table' = [table EXCEPT ![e] = None]
          /\ duck' = [duck EXCEPT ![e] = EmptyTable]
  /\ UNCHANGED <<shared, history, budget>>

\* Mutant of GetIndexMeta: the check goes on without metadata.
GetIndexMetaUnguarded(e) ==
  /\ pc[e] = "meta"
  /\ Goto(e, "schema")
  /\ read' = [read EXCEPT ![e] = meta]
  /\ UNCHANGED <<shared, cached, todo, target, copy, result, history, budget>>

\* NeedsReindex reads the metadata.
GetIndexMeta(e) ==
  /\ pc[e] = "meta"
  /\ Goto(e, IF meta = None THEN "create" ELSE "schema")
  /\ read' = [read EXCEPT ![e] = meta]
  /\ UNCHANGED <<shared, cached, todo, target, copy, result, history, budget>>

CheckSchemaHash(e) ==
  /\ pc[e] = "schema"
  /\ GetTable(e)
  /\ Goto(e, IF read[e].schema # Known(e) THEN "create" ELSE "data")
  /\ UNCHANGED <<shared, read, todo, target, copy, result, history, budget>>

CheckDataHash(e) ==
  /\ pc[e] = "data"
  /\ Goto(e, IF read[e].data # ComputeDataHash THEN "create" ELSE "verify")
  /\ UNCHANGED <<shared, local, copy, result, history, budget>>

\* TableExists and GetRowCount, for metadata that are read again: without them
\* the copy is kept.
VerifyCopy(e) ==
  /\ pc[e] = "verify"
  /\ IF table[e] = None \/ (meta # None /\ Cardinality(Loaded(e)) # meta.rows)
     THEN /\ Goto(e, "create")
          /\ UNCHANGED <<read, todo, result>>
     ELSE End(e, "kept")
  /\ UNCHANGED <<shared, cached, target, copy, history, budget>>

-----------------------------------------------------------------------------
(* BuildIndex; .rebuild runs it too. *)

Rebuild(e) ==
  /\ pc[e] = "up"
  /\ starts < MaxStarts
  /\ starts' = starts + 1
  /\ Goto(e, "create")
  /\ late' = [late EXCEPT ![e] = {}]
  /\ UNCHANGED <<shared, local, copy, result, inplace, askew, touched, faults>>

\* CREATE TABLE IF NOT EXISTS: a table that exists keeps its columns.
CreateDuckDBTable(e) ==
  /\ pc[e] = "create"
  /\ GetTable(e)
  /\ table' = [table EXCEPT ![e] = IF @ = None THEN Known(e).columns ELSE @]
  /\ Goto(e, "list")
  /\ UNCHANGED <<shared, read, todo, target, duck, result, history, budget>>

\* TruncateTable and ListRows.
ListRows(e) ==
  /\ pc[e] = "list"
  /\ duck' = [duck EXCEPT ![e] = EmptyTable]
  /\ todo' = [todo EXCEPT ![e] = Present]
  /\ askew' = [askew EXCEPT ![e] =
                 IF @ # "yes" /\ (meta = None \/ meta.data = ComputeDataHash)
                 THEN "partial" ELSE "yes"]
  /\ touched' = [touched EXCEPT ![e] = "yes"]
  /\ Goto(e, "rows")
  /\ UNCHANGED <<shared, cached, read, target, table, result, late, inplace, budget>>

\* What ReadRow returns: an empty row when there is no file, or no directory.
Contents(r) == IF disk[r] = None THEN 0 ELSE disk[r].file

\* DuckDB has no column for some value of the row.
Misfit(e, r) == Contents(r) # 0 /\ disk[r].columns # table[e]

LoadRow(e) ==
  \E r \in todo[e] :
    /\ pc[e] = "rows"
    /\ \A s \in todo[e] : r =< s
    /\ ~Misfit(e, r)
    /\ duck' = [duck EXCEPT ![e][r] = Contents(r)]
    /\ todo' = [todo EXCEPT ![e] = @ \ {r}]
    /\ inplace' = [inplace EXCEPT ![e] = @ \ {r}]
    /\ UNCHANGED <<shared, pc, cached, read, target, table, result, late, askew, touched, budget>>

\* The hashes are taken of the files as they are after the load, and the rows
\* of the copy are counted; when that fails the count is 0.
ComputeHashes(e) ==
  /\ pc[e] = "rows" /\ todo[e] = {}
  /\ \/ /\ read' = [read EXCEPT ![e] = [schema |-> cached[e], data |-> ComputeDataHash,
                                        rows |-> Cardinality(Loaded(e))]]
        /\ touched' = [touched EXCEPT ![e] = IF cached[e] = schema THEN "saving" ELSE "yes"]
        /\ UNCHANGED faults
     \/ /\ faults < MaxFaults
        /\ faults' = faults + 1
        /\ read' = [read EXCEPT ![e] = [schema |-> cached[e], data |-> ComputeDataHash, rows |-> 0]]
        /\ touched' = [touched EXCEPT ![e] = "yes"]
  /\ Goto(e, "open")
  /\ UNCHANGED <<shared, cached, todo, target, copy, result, late, inplace, askew, starts>>

\* SaveIndexMeta empties the file and then writes it.
OpenMeta(e) ==
  /\ pc[e] = "open"
  /\ meta' = None
  /\ touched' = [x \in Engines |-> IF x = e THEN touched[e] ELSE "yes"]
  /\ askew' = [x \in Engines |-> IF x = e THEN askew[e] ELSE "yes"]
  /\ Goto(e, "save")
  /\ UNCHANGED <<schema, disk, clock, local, copy, result, late, inplace, budget>>

\* Mutant of SaveIndexMeta: the number of all rows is saved, on disk or not.
SaveIndexMetaOfDisk(e) ==
  /\ pc[e] = "save"
  /\ meta' = [read[e] EXCEPT !.rows = Cardinality(DOMAIN read[e].data)]
  /\ touched' = [x \in Engines |-> IF x = e THEN (IF touched[e] = "saving" THEN "no" ELSE "yes")
                                   ELSE "yes"]
  /\ askew' = [x \in Engines |->
                 IF x = e /\ late[e] = {} /\ read[e].rows = Cardinality(Loaded(e))
                 THEN "no" ELSE "yes"]
  /\ End(e, "rebuilt")
  /\ UNCHANGED <<schema, disk, clock, cached, target, copy, late, inplace, budget>>

SaveIndexMeta(e) ==
  /\ pc[e] = "save"
  /\ meta' = read[e]
  /\ touched' = [x \in Engines |-> IF x = e THEN (IF touched[e] = "saving" THEN "no" ELSE "yes")
                                   ELSE "yes"]
  /\ askew' = [x \in Engines |->
                 IF x = e /\ late[e] = {} /\ read[e].rows = Cardinality(Loaded(e))
                 THEN "no" ELSE "yes"]
  /\ End(e, "rebuilt")
  /\ UNCHANGED <<schema, disk, clock, cached, target, copy, late, inplace, budget>>

\* The load fails and the program goes on: no schema, a row DuckDB cannot
\* take, or an I/O error.
LoadFails(e) ==
  /\ \/ pc[e] \in {"schema", "create"} /\ Known(e) = None /\ UNCHANGED faults
     \/ /\ pc[e] = "rows"
        /\ \E r \in todo[e] : (\A s \in todo[e] : r =< s) /\ Misfit(e, r)
        /\ UNCHANGED faults
     \/ /\ pc[e] \in {"schema", "data", "verify", "create", "list", "rows", "open", "save"}
        /\ faults < MaxFaults
        /\ faults' = faults + 1
  /\ End(e, "failed")
  /\ UNCHANGED <<shared, cached, target, copy, history, starts>>

-----------------------------------------------------------------------------
(* The program's own row operations, once it is up. *)

MakeRow(e) ==
  /\ pc[e] = "up"
  /\ GetTable(e)
  /\ \E r \in Rows : /\ disk[r] = None
                     /\ Put(e, r, NewDir)
                     /\ target' = [target EXCEPT ![e] = r]
  /\ Goto(e, "write")
  /\ UNCHANGED <<schema, meta, read, todo, copy, result, budget>>

\* The file of a row just made, or of one that exists.
WriteRow(e) ==
  /\ Known(e) # None
  /\ \E r \in Rows :
       /\ \/ pc[e] = "write" /\ r = target[e]
          \/ pc[e] = "up" /\ disk[r] # None
       /\ Put(e, r, Written(r, Known(e).columns))
       /\ target' = [target EXCEPT ![e] = r]
  /\ cached' = [cached EXCEPT ![e] = Known(e)]
  /\ Goto(e, "refresh")
  /\ UNCHANGED <<schema, meta, read, todo, copy, result, budget>>

\* The row is deleted from DuckDB and inserted as it is read now.
RefreshRow(e) ==
  LET r == target[e]
      fails == table[e] = None \/ Misfit(e, r)
  IN  /\ pc[e] = "refresh"
      /\ IF table[e] = None THEN UNCHANGED duck
         ELSE duck' = [duck EXCEPT ![e][r] = IF fails THEN None ELSE Contents(r)]
      /\ result' = [result EXCEPT ![e] = IF fails THEN "failed" ELSE @]
      /\ inplace' = [inplace EXCEPT ![e] = IF fails THEN @ ELSE @ \ {r}]
      /\ askew' = [askew EXCEPT ![e] = IF fails THEN "yes" ELSE @]
      /\ target' = [target EXCEPT ![e] = None]
      /\ Goto(e, "up")
      /\ UNCHANGED <<shared, cached, read, todo, table, late, touched, budget>>

DeleteRow(e) ==
  /\ pc[e] = "up"
  /\ \E r \in Rows : /\ disk[r] # None
                     /\ Put(e, r, None)
                     /\ target' = [target EXCEPT ![e] = r]
  /\ Goto(e, "delete")
  /\ UNCHANGED <<schema, meta, cached, read, todo, copy, result, budget>>

DeleteCopy(e) ==
  /\ pc[e] = "delete"
  /\ duck' = [duck EXCEPT ![e][target[e]] = None]
  /\ target' = [target EXCEPT ![e] = None]
  /\ Goto(e, "up")
  /\ UNCHANGED <<shared, cached, read, todo, table, result, history, budget>>

SmartLoad(e) == GetIndexMeta(e) \/ CheckSchemaHash(e) \/ CheckDataHash(e) \/ VerifyCopy(e)
BuildIndex(e) == CreateDuckDBTable(e) \/ ListRows(e) \/ LoadRow(e)
                 \/ ComputeHashes(e) \/ OpenMeta(e) \/ SaveIndexMeta(e)
RowOperation(e) == MakeRow(e) \/ WriteRow(e) \/ RefreshRow(e) \/ DeleteRow(e) \/ DeleteCopy(e)
Scripts == GenerateRow \/ UpdateSchemaTimestamp \/ CleanData \/ WriteSchema

Next == \/ Scripts
        \/ \E e \in Engines : \/ Start(e) \/ Stop(e) \/ SmartLoad(e)
                              \/ Rebuild(e) \/ BuildIndex(e) \/ LoadFails(e)
                              \/ RowOperation(e)

Spec == Init /\ [][Next]_vars

-----------------------------------------------------------------------------
(* Properties. *)

Labels == {"down", "meta", "schema", "data", "verify", "create", "list", "rows", "open", "save",
           "up", "write", "refresh", "delete"}

FilesOK ==
  /\ schema \in Schema \cup {None} /\ clock \in Nat
  /\ disk \in [Rows -> RowDir \cup {None}]
  /\ \A r \in Rows : disk[r] # None => disk[r].dir =< clock
  /\ meta \in Meta \cup {None}
ProgramsOK ==
  /\ pc \in [Engines -> Labels]
  /\ cached \in [Engines -> Schema \cup {None}]
  /\ read \in [Engines -> Meta \cup {None}]
  /\ todo \in [Engines -> SUBSET Rows]
  /\ target \in [Engines -> Rows \cup {None}]
  /\ \A e \in Engines :
       /\ pc[e] \in {"schema", "data", "open", "save"} => read[e] # None
       /\ pc[e] \in {"list", "rows"} => cached[e] # None
       /\ pc[e] # "rows" => todo[e] = {}
       /\ target[e] # None <=> pc[e] \in {"write", "refresh", "delete"}
CopiesOK ==
  /\ table \in [Engines -> Columns \cup {None}]
  /\ duck \in [Engines -> [Rows -> Nat \cup {None}]]
  /\ result \in [Engines -> {"none", "kept", "rebuilt", "failed"}]
HistoryOK ==
  /\ late \in [Engines -> SUBSET Rows] /\ inplace \in [Engines -> SUBSET Rows]
  /\ askew \in [Engines -> {"no", "partial", "yes"}]
  /\ touched \in [Engines -> {"no", "saving", "yes"}]
  /\ starts \in Nat /\ faults \in Nat

\* The types; a program reads rows only during a load, with a schema, and
\* names a row only during a row operation.
TypeOK == FilesOK /\ ProgramsOK /\ CopiesOK /\ HistoryOK

OnDisk(r) == IF disk[r] = None THEN None ELSE disk[r].file
InUse(e) == pc[e] \in {"up", "write", "refresh", "delete"} /\ result[e] \in {"kept", "rebuilt"}

\* A program whose last load succeeded answers from rows that are those of the
\* files, whatever was changed, interrupted or failed before that load began
\* ("SmartLoad loads a table, only rebuilding the index if data has changed",
\* engine.go): but for rows others have changed since, the row it is itself
\* writing and, with a DuckDB file, changes the metadata cannot show.
LoadedIsCurrent ==
  \A e \in Engines : InUse(e) =>
    \A r \in Rows \ (late[e] \cup {target[e]}) :
      \/ duck[e][r] = OnDisk(r)
      \/ e \in Persistent /\ result[e] = "kept" /\ (r \in inplace[e] \/ askew[e] = "yes")

\* A copy in a DuckDB file is not rebuilt when neither the files nor the copy
\* changed since the program built it ("rebuilding index only if necessary",
\* indexer.go).
OnlyIfNecessary ==
  [][\A e \in Persistent :
       pc[e] \in {"meta", "schema", "data", "verify"} /\ pc'[e] = "create"
         => touched[e] # "no"]_vars

\* What SmartLoad's second result says: "false if it was already current"
\* (engine.go).
KeptIsCurrent ==
  \A e \in Engines : InUse(e) /\ result[e] = "kept" =>
    \A r \in Rows \ (late[e] \cup {target[e]}) : duck[e][r] = OnDisk(r)
=============================================================================
