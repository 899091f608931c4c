---------------------------- MODULE TableCatalog -----------------------------
(***************************************************************************)
(* The life of one table name: the schema cache of colgroup.Manager, the   *)
(* table's directory with _schema.json and the rows' directories, and the  *)
(* DuckDB table.  Manager.mu is held for writing throughout CreateTable,   *)
(* DropTable and the slow path of GetTable, disk operations included; the  *)
(* engine's steps before and after, on DuckDB and on rows, hold nothing.   *)
(*                                                                         *)
(* Covered: Engine.CreateTable, DropTable, InsertRow and LoadTable as far  *)
(* as they touch the above, cancellation and I/O errors, and the death of  *)
(* the process.  The rows' contents are DualStore's.  Not covered:         *)
(* UpdateSchema, which the program never calls.                            *)
(*                                                                         *)
(* alone, apart, mess and gone are history variables.                      *)
(***************************************************************************)
EXTENDS Integers

CONSTANTS Procs,       \* goroutines that serve requests
          Schemas,     \* schemas clients create the table with
          Rows,        \* row ids
          Persistent,  \* is DuckDB kept in a file
          Faults,      \* subset of {"cancel", "crash"}
          Kinds,       \* the operations clients call
          MaxOps, MaxCrashes, \* bounds
          SchemaFile, Missing, Torn, NoSchema, NoProc, NoRow

ASSUME CatalogNulls ==
  /\ Schemas \cap {Missing, Torn, NoSchema} = {} /\ Missing # Torn
  /\ SchemaFile \notin Rows /\ NoRow \notin Rows /\ NoProc \notin Procs
ASSUME CatalogParameters ==
  /\ Persistent \in BOOLEAN /\ MaxOps \in Nat /\ MaxCrashes \in Nat
  /\ Kinds \subseteq {"create", "drop", "insert", "load"}

VARIABLES dir,    \* does the table's directory exist
          file,   \* _schema.json: Missing, Torn or a schema
          rows,   \* the rows' directories
          cache,  \* Manager.schemas[name]
          duck,   \* the schema whose columns the DuckDB table has
          mu,     \* who holds Manager.mu for writing
          pc, op, \* each goroutine's next step and operation
          got,    \* the schema GetTable returned to it
          todo,   \* what os.RemoveAll has listed and not yet removed
          alone,  \* goroutines whose operation has met no other
          apart,  \* goroutines whose operation has met no CreateTable
          mess,   \* an overlap, a failure or a death may have left a mess
          gone,   \* DropTable has answered success, having met no CreateTable,
                  \* and none has begun since
          ops, crashes

vars == <<dir, file, rows, cache, duck, mu, pc, op, got, todo, alone, apart, mess, gone, ops, crashes>>

Labels == {"idle", "lock", "mkdir", "open", "write", "get", "sqlcreate", "sqldrop",
           "droplock", "list", "remove", "mkrow", "reget", "sqlrow"}
\* The steps that hold Manager.mu.
Locked == {"mkdir", "open", "write", "list", "remove"}

NoOp == [kind |-> "none", schema |-> NoSchema, row |-> NoRow]
Active == {p \in Procs : pc[p] # "idle"}
Kind(p) == op[p].kind
Goto(p, l) == pc' = [pc EXCEPT ![p] = l]

Disk == <<dir, file, rows>>
History == <<alone, apart, mess, gone>>
Budget == <<ops, crashes>>

Init == /\ dir = FALSE /\ file = Missing /\ rows = {}
        /\ cache = NoSchema /\ duck = NoSchema /\ mu = NoProc
        /\ pc = [p \in Procs |-> "idle"]
        /\ op = [p \in Procs |-> NoOp]
        /\ got = [p \in Procs |-> NoSchema]
        /\ todo = [p \in Procs |-> {}]
        /\ alone = {} /\ apart = {} /\ mess = FALSE /\ gone = FALSE
        /\ ops = 0 /\ crashes = 0

-----------------------------------------------------------------------------
(* Operations begin and end. *)

FirstStep(kind) == CASE kind = "create" -> "lock"
                     [] kind = "drop" -> "sqldrop"
                     [] OTHER -> "get"

Start(p, o) ==
  /\ pc[p] = "idle"
  /\ ops < MaxOps
  /\ ops' = ops + 1
  /\ Goto(p, FirstStep(o.kind))
  /\ op' = [op EXCEPT ![p] = o]
  /\ alone' = IF Active = {} THEN {p} ELSE {}
  /\ apart' = CASE o.kind = "create" -> {}
                [] \E q \in Procs : Kind(q) = "create" -> apart
                [] OTHER -> apart \cup {p}
  /\ mess' = (mess \/ Active # {})
  /\ gone' = (gone /\ o.kind # "create")
  /\ UNCHANGED <<Disk, cache, duck, mu, got, todo, crashes>>

\* The handler returns; deferred unlocks have run.
Return(p) ==
  /\ Goto(p, "idle")
  /\ op' = [op EXCEPT ![p] = NoOp]
  /\ got' = [got EXCEPT ![p] = NoSchema]
  /\ todo' = [todo EXCEPT ![p] = {}]
  /\ mu' = IF mu = p THEN NoProc ELSE mu
  /\ alone' = alone \ {p} /\ apart' = apart \ {p}
  /\ UNCHANGED Budget

\* It answers success.  A DropTable that met nobody has cleared any mess.
Finish(p) == /\ Return(p)
             /\ mess' = (mess /\ ~(Kind(p) = "drop" /\ p \in alone))
             /\ gone' = (gone \/ (Kind(p) = "drop" /\ p \in apart))

\* It answers with an error before it changed anything.
Reject(p) == Return(p) /\ UNCHANGED <<mess, gone>>

\* It answers with an error later.
Fail(p) == Return(p) /\ mess' = TRUE /\ UNCHANGED gone

-----------------------------------------------------------------------------
(* CreateTable. *)

\* Mutant of CreateLock: the disk is not looked at.
CreateLockUnchecked(p) ==
  /\ pc[p] = "lock" /\ mu = NoProc
  /\ cache = NoSchema
  /\ mu' = p
  /\ Goto(p, "mkdir")
  /\ UNCHANGED <<Disk, cache, duck, op, got, todo, History, Budget>>

\* Under the lock: neither cached nor on disk.
CreateLock(p) ==
  /\ pc[p] = "lock" /\ mu = NoProc
  /\ cache = NoSchema /\ file = Missing
  /\ mu' = p
  /\ Goto(p, "mkdir")
  /\ UNCHANGED <<Disk, cache, duck, op, got, todo, History, Budget>>

\* "already exists": a file that does not parse exists too.
CreateExists(p) ==
  /\ pc[p] = "lock" /\ mu = NoProc
  /\ cache # NoSchema \/ file # Missing
  /\ Reject(p)
  /\ UNCHANGED <<Disk, cache, duck>>

MakeTableDir(p) ==
  /\ pc[p] = "mkdir"
  /\ dir' = TRUE
  /\ Goto(p, "open")
  /\ UNCHANGED <<file, rows, cache, duck, mu, op, got, todo, History, Budget>>

\* WriteJSON makes the directory again and truncates the file.
OpenSchema(p) ==
  /\ pc[p] = "open"
  /\ dir' = TRUE
  /\ file' = Torn
  /\ Goto(p, "write")
  /\ UNCHANGED <<rows, cache, duck, mu, op, got, todo, History, Budget>>

\* Mutant of WriteSchema: the lock is not released.
WriteSchemaLocked(p) ==
  /\ pc[p] = "write"
  /\ file' = op[p].schema
  /\ cache' = op[p].schema
  /\ Goto(p, "get")
  /\ UNCHANGED <<dir, rows, duck, mu, op, got, todo, History, Budget>>

\* The file is written, the schema cached and the lock released.
WriteSchema(p) ==
  /\ pc[p] = "write"
  /\ file' = op[p].schema
  /\ cache' = op[p].schema
  /\ mu' = NoProc
  /\ Goto(p, "get")
  /\ UNCHANGED <<dir, rows, duck, op, got, todo, History, Budget>>

-----------------------------------------------------------------------------
(* GetTable, and what is done with the schema. *)

AfterGet(p) == IF pc[p] = "reget" THEN "sqlrow"
               ELSE IF Kind(p) = "insert" THEN "mkrow" ELSE "sqlcreate"

\* Mutant of GetTable: the file is read and cached without the lock.
GetTableUnlocked(p) ==
  /\ pc[p] \in {"get", "reget"}
  /\ cache # NoSchema \/ file \in Schemas
  /\ cache' = IF cache # NoSchema THEN cache ELSE file
  /\ got' = [got EXCEPT ![p] = cache']
  /\ Goto(p, AfterGet(p))
  /\ UNCHANGED <<Disk, duck, mu, op, todo, History, Budget>>

\* A hit, or under the write lock a second look and the file.  The first look
\* of a miss changes nothing.
GetTable(p) ==
  /\ pc[p] \in {"get", "reget"} /\ mu = NoProc
  /\ cache # NoSchema \/ file \in Schemas
  /\ cache' = IF cache # NoSchema THEN cache ELSE file
  /\ got' = [got EXCEPT ![p] = cache']
  /\ Goto(p, AfterGet(p))
  /\ UNCHANGED <<Disk, duck, mu, op, todo, History, Budget>>

TableNotFound(p) ==
  /\ pc[p] \in {"get", "reget"} /\ mu = NoProc
  /\ cache = NoSchema /\ file \notin Schemas
  /\ IF pc[p] = "get" /\ Kind(p) # "create" THEN Reject(p) ELSE Fail(p)
  /\ UNCHANGED <<Disk, cache, duck>>

\* CREATE TABLE IF NOT EXISTS with the schema's columns.
CreateDuckDBTable(p) ==
  /\ pc[p] = "sqlcreate"
  /\ duck' = IF duck = NoSchema THEN got[p] ELSE duck
  /\ Finish(p)
  /\ UNCHANGED <<Disk, cache>>

\* InsertRow makes the row's directory, and the table's if need be, and writes
\* the row's files into it.
MakeRow(p) ==
  /\ pc[p] = "mkrow"
  /\ dir' = TRUE
  /\ rows' = rows \cup {op[p].row}
  /\ Goto(p, "reget")
  /\ UNCHANGED <<file, cache, duck, mu, op, got, todo, History, Budget>>

\* RefreshRow's DELETE needs the DuckDB table; its INSERT names the columns of
\* the schema and may fail on a table that was made for another one.
InsertIntoDuckDB(p) ==
  /\ pc[p] = "sqlrow"
  /\ \/ duck # NoSchema /\ Finish(p)
     \/ duck # got[p] /\ Fail(p)
  /\ UNCHANGED <<Disk, cache, duck>>

-----------------------------------------------------------------------------
(* DropTable. *)

\* DROP TABLE IF EXISTS.
DropDuckDBTable(p) ==
  /\ pc[p] = "sqldrop"
  /\ duck' = NoSchema
  /\ Goto(p, "droplock")
  /\ UNCHANGED <<Disk, cache, mu, op, got, todo, History, Budget>>

\* An error of the statement is ignored.
DropDuckDBTableFails(p) ==
  /\ "cancel" \in Faults
  /\ pc[p] = "sqldrop"
  /\ Goto(p, "droplock")
  /\ alone' = alone \ {p}
  /\ mess' = TRUE
  /\ UNCHANGED <<Disk, cache, duck, mu, op, got, todo, apart, gone, Budget>>

\* Mutant of DropLock: the cache is left alone.
DropLockCached(p) ==
  /\ pc[p] = "droplock" /\ mu = NoProc
  /\ mu' = p
  /\ Goto(p, "list")
  /\ UNCHANGED <<Disk, cache, duck, op, got, todo, History, Budget>>

DropLock(p) ==
  /\ pc[p] = "droplock" /\ mu = NoProc
  /\ mu' = p
  /\ cache' = NoSchema
  /\ Goto(p, "list")
  /\ UNCHANGED <<Disk, duck, op, got, todo, History, Budget>>

\* os.RemoveAll reads the directory, removes what it found, and then the
\* directory.
ListTableDir(p) ==
  /\ pc[p] = "list"
  /\ todo' = [todo EXCEPT ![p] = rows \cup (IF file = Missing THEN {} ELSE {SchemaFile})]
  /\ Goto(p, "remove")
  /\ UNCHANGED <<Disk, cache, duck, mu, op, got, History, Budget>>

RemoveEntry(p) ==
  /\ pc[p] = "remove"
  /\ \E e \in todo[p] :
       /\ todo' = [todo EXCEPT ![p] = @ \ {e}]
       /\ file' = IF e = SchemaFile THEN Missing ELSE file
       /\ rows' = rows \ {e}
  /\ UNCHANGED <<dir, cache, duck, mu, pc, op, got, History, Budget>>

RemoveTableDir(p) ==
  /\ pc[p] = "remove"
  /\ todo[p] = {}
  /\ rows = {}
  /\ dir' = FALSE
  /\ Finish(p)
  /\ UNCHANGED <<file, rows, cache, duck>>

\* A row has been inserted since: "directory not empty".
RemoveTableDirFails(p) ==
  /\ pc[p] = "remove"
  /\ todo[p] = {}
  /\ rows # {}
  /\ Fail(p)
  /\ UNCHANGED <<Disk, cache, duck>>

-----------------------------------------------------------------------------
\* The context is cancelled, or the disk or DuckDB fails, at any step but a wait
\* for the lock.
Cancel(p) ==
  /\ "cancel" \in Faults
  /\ pc[p] \notin {"idle", "lock", "droplock", "sqldrop"}
  /\ Fail(p)
  /\ UNCHANGED <<Disk, cache, duck>>

Crash ==
  /\ "crash" \in Faults
  /\ crashes < MaxCrashes
  /\ crashes' = crashes + 1
  /\ cache' = NoSchema
  /\ duck' = IF Persistent THEN duck ELSE NoSchema
  /\ mu' = NoProc
  /\ pc' = [p \in Procs |-> "idle"]
  /\ op' = [p \in Procs |-> NoOp]
  /\ got' = [p \in Procs |-> NoSchema]
  /\ todo' = [p \in Procs |-> {}]
  /\ alone' = {} /\ apart' = {}
  /\ mess' = (mess \/ Active # {})
  /\ UNCHANGED <<Disk, gone, ops>>

Operations ==
  {o \in [kind : Kinds, schema : Schemas \cup {NoSchema}, row : Rows \cup {NoRow}] :
     /\ o.kind = "create" <=> o.schema # NoSchema
     /\ o.kind = "insert" <=> o.row # NoRow}

Step(p) ==
  \/ CreateLock(p) \/ CreateExists(p) \/ MakeTableDir(p) \/ OpenSchema(p) \/ WriteSchema(p)
  \/ GetTable(p) \/ TableNotFound(p) \/ CreateDuckDBTable(p) \/ MakeRow(p) \/ InsertIntoDuckDB(p)
  \/ DropDuckDBTable(p) \/ DropDuckDBTableFails(p) \/ DropLock(p) \/ ListTableDir(p)
  \/ RemoveEntry(p) \/ RemoveTableDir(p) \/ RemoveTableDirFails(p)

Next == \/ \E p \in Procs : (\E o \in Operations : Start(p, o)) \/ Step(p) \/ Cancel(p)
        \/ Crash

Spec == Init /\ [][Next]_vars

\* Every goroutine runs, and Go's mutexes starve nobody.
FairSpec == Spec /\ \A p \in Procs : SF_vars(Step(p))

-----------------------------------------------------------------------------
(* Properties. *)

\* The types, and who holds the lock.
TypeOK ==
  /\ dir \in BOOLEAN /\ file \in Schemas \cup {Missing, Torn} /\ rows \subseteq Rows
  /\ cache \in Schemas \cup {NoSchema} /\ duck \in Schemas \cup {NoSchema}
  /\ mu \in Procs \cup {NoProc}
  /\ pc \in [Procs -> Labels]
  /\ op \in [Procs -> Operations \cup {NoOp}]
  /\ got \in [Procs -> Schemas \cup {NoSchema}]
  /\ todo \in [Procs -> SUBSET (Rows \cup {SchemaFile})]
  /\ alone \subseteq Procs /\ apart \subseteq Procs /\ mess \in BOOLEAN /\ gone \in BOOLEAN
  /\ ops \in Nat /\ crashes \in Nat
  /\ \A p \in Procs : pc[p] \in Locked <=> mu = p

\* What the manager has cached is what _schema.json holds, also while tables
\* are created and dropped, when a request fails in the middle and after a
\* restart: every change of the file is made under mu with the cache empty.
CacheIsOnDisk == cache # NoSchema => file = cache

Agreeing ==
  IF file = Missing THEN ~dir /\ rows = {} /\ duck = NoSchema
  ELSE file \in Schemas /\ dir /\ (duck = file \/ (duck = NoSchema /\ crashes > 0 /\ ~Persistent))

\* With nobody at work and no mess, the directory, the schema file and the
\* DuckDB table come and go together: a dropped table leaves nothing behind, a
\* created one has its DuckDB table with its columns (in a process that has not
\* been restarted, or keeps DuckDB in a file).
CatalogAgrees == Active = {} /\ ~mess => Agreeing

\* Every operation returns: mu is always released, on every path.
Returns == \A p \in Procs : (pc[p] # "idle") ~> (pc[p] = "idle")

\* A request that is past its effect on the schema, or has the schema it works
\* with.
Done(p) == CASE pc[p] \in {"sqlcreate", "mkrow", "reget", "sqlrow"} -> TRUE
             [] pc[p] = "get" -> Kind(p) = "create"
             [] pc[p] = "remove" -> SchemaFile \notin todo[p]
             [] OTHER -> FALSE

\* What _schema.json is to others: not yet there while it is being written.
Entry == IF \E p \in Procs : pc[p] = "write" THEN Missing ELSE file

\* The manager without its lock, its cache and the file being written.
Store == INSTANCE SchemaStore WITH
           Requests <- Operations, NoRequest <- NoOp, Absent <- Missing, Broken <- Torn,
           MayFail <- "cancel" \in Faults, MayDie <- "crash" \in Faults,
           entry <- Entry, doing <- op, done <- [p \in Procs |-> Done(p)]

\* Creates, drops and lookups of a table's schema each take effect at one moment
\* of the request, as if there were neither cache nor file: no request works with
\* a schema the table did not have meanwhile, or is refused by one it did not
\* have, and only a create that was cut short leaves a broken file.
ImplementsSchemaStore == Store!Spec

\* "DropTable removes a table and all its data" (engine.go): when one that met no
\* CreateTable has answered, everybody is done and no CreateTable has begun since,
\* no row and no DuckDB table is left.
DropRemovesAll == Active = {} /\ gone => rows = {} /\ duck = NoSchema
=============================================================================
