-------------------------- MODULE TableCatalogProofs -------------------------
(* Proofs about TableCatalog, for any goroutines, schemas, rows and bounds. *)
EXTENDS TableCatalog, TLAPS

\* Which operations take which steps.
Flow ==
  \A p \in Procs :
    /\ pc[p] \in {"lock", "mkdir", "open", "write"} => Kind(p) = "create"
    /\ pc[p] = "get" => Kind(p) \in {"create", "insert", "load"}
    /\ pc[p] = "sqlcreate" => Kind(p) \in {"create", "load"}
    /\ pc[p] \in {"mkrow", "reget", "sqlrow"} => Kind(p) = "insert"
    /\ pc[p] \in {"sqldrop", "droplock", "list", "remove"} => Kind(p) = "drop"

TypeInv == TypeOK /\ Flow

\* Whoever holds mu to change the file has the cache empty meanwhile.
Cached == CacheIsOnDisk /\ \A p \in Procs : pc[p] \in Locked => cache = NoSchema

\* An operation that has met no other is alone, and without a mess all are.
Sharing ==
  /\ \A p \in alone : Active = {p}
  /\ ~mess => Active \subseteq alone

\* What a drop that is alone has achieved, whatever it found.
DroppingAt(p) ==
  /\ pc[p] \in {"droplock", "list", "remove"} => duck = NoSchema
  /\ pc[p] = "remove" =>
       rows \subseteq todo[p] /\ (file # Missing => SchemaFile \in todo[p])

\* The file is there, and the DuckDB table has its columns or is still to come.
Written == file \in Schemas /\ dir /\ duck \in {file, NoSchema}

\* What an operation relies on that is alone and began without a mess.
BuildingAt(p) ==
  /\ pc[p] \in {"lock", "sqldrop"} => Agreeing
  /\ pc[p] \in {"mkdir", "open"} => duck = NoSchema
  /\ pc[p] = "write" => dir /\ duck = NoSchema
  /\ pc[p] = "get" => IF Kind(p) = "create" THEN Written ELSE Agreeing
  /\ pc[p] = "sqlcreate" => Written /\ got[p] = file
  /\ pc[p] \in {"mkrow", "reget", "sqlrow"} => Agreeing /\ file # Missing

Achieved == \A p \in alone : DroppingAt(p) /\ (~mess => BuildingAt(p))

Tidy == Sharing /\ Achieved /\ CatalogAgrees

-----------------------------------------------------------------------------
(* Types and control. *)

\* The parts of the state that the goroutines share.
SharedTypes ==
  /\ dir \in BOOLEAN /\ file \in Schemas \cup {Missing, Torn} /\ rows \subseteq Rows
  /\ cache \in Schemas \cup {NoSchema} /\ duck \in Schemas \cup {NoSchema}
  /\ alone \subseteq Procs /\ apart \subseteq Procs /\ mess \in BOOLEAN /\ gone \in BOOLEAN
  /\ ops \in Nat /\ crashes \in Nat

LEMMA OperationOf ==
  \A o \in Operations :
    /\ o.kind \in {"create", "drop", "insert", "load"}
    /\ o.kind = "create" => o.schema \in Schemas
    /\ o.kind = "insert" => o.row \in Rows
BY CatalogNulls, CatalogParameters DEF Operations

LEMMA NoOpKind == NoOp.kind = "none"
BY DEF NoOp

LEMMA TypeInit == Init => TypeInv
<1> SUFFICES ASSUME Init PROVE TypeInv
  OBVIOUS
<1>1. \A p \in Procs : pc[p] = "idle" /\ mu # p
  BY CatalogNulls DEF Init
<1>2. pc \in [Procs -> Labels] /\ \A p \in Procs : pc[p] \in Locked <=> mu = p
  BY <1>1 DEF Init, Labels, Locked
<1>3. Flow
  BY <1>1 DEF Flow
<1> QED
  BY <1>2, <1>3 DEF Init, TypeInv, TypeOK

\* A return leaves the types and the others' control alone.
LEMMA TypeReturn ==
  ASSUME TypeInv, NEW p \in Procs, Return(p), SharedTypes'
  PROVE  TypeInv'
<1>1. /\ mu' \in Procs \cup {NoProc} /\ pc' \in [Procs -> Labels]
      /\ op' \in [Procs -> Operations \cup {NoOp}]
      /\ got' \in [Procs -> Schemas \cup {NoSchema}]
      /\ todo' \in [Procs -> SUBSET (Rows \cup {SchemaFile})]
  BY DEF TypeInv, TypeOK, Return, Goto, Labels
<1>2. \A q \in Procs : pc'[q] \in Locked <=> mu' = q
  BY CatalogNulls DEF TypeInv, TypeOK, Return, Goto, Locked
<1>3. Flow'
  BY DEF TypeInv, TypeOK, Flow, Return, Goto, Kind
<1> QED
  BY <1>1, <1>2, <1>3 DEF TypeInv, TypeOK, SharedTypes

\* A step of p to the label l, with or without the lock.
LEMMA TypeGoto ==
  ASSUME TypeInv, NEW p \in Procs, NEW l \in Labels, Goto(p, l), SharedTypes',
         op' = op, l # "idle",
         got' \in [Procs -> Schemas \cup {NoSchema}],
         todo' \in [Procs -> SUBSET (Rows \cup {SchemaFile})],
         mu' \in {mu, p, NoProc}, mu' = p <=> l \in Locked,
         mu' # mu => mu \in {NoProc, p},
         l \in {"lock", "mkdir", "open", "write"} => Kind(p) = "create",
         l = "get" => Kind(p) \in {"create", "insert", "load"},
         l = "sqlcreate" => Kind(p) \in {"create", "load"},
         l \in {"mkrow", "reget", "sqlrow"} => Kind(p) = "insert",
         l \in {"sqldrop", "droplock", "list", "remove"} => Kind(p) = "drop"
  PROVE  TypeInv'
<1>1. mu' \in Procs \cup {NoProc} /\ pc' \in [Procs -> Labels]
  BY DEF TypeInv, TypeOK, Goto
<1>2. \A q \in Procs : pc'[q] = IF q = p THEN l ELSE pc[q]
  BY DEF TypeInv, TypeOK, Goto
<1>3. \A q \in Procs : pc'[q] \in Locked <=> mu' = q
  BY <1>2, CatalogNulls DEF TypeInv, TypeOK
<1>4. \A q \in Procs : Kind(q)' = Kind(q)
  BY DEF Kind
<1>5. Flow'
  BY <1>2, <1>4 DEF TypeInv, Flow
<1> QED
  BY <1>1, <1>3, <1>5 DEF TypeInv, TypeOK, SharedTypes

LEMMA TypeStep ==
  ASSUME TypeInv, NEW p \in Procs, Step(p)
  PROVE  TypeInv'
<1> USE DEF TypeInv, TypeOK, SharedTypes, Disk, History, Budget
<1>0. pc[p] \in Labels /\ (pc[p] # "idle" => op[p] = NoOp \/ op[p] \in Operations)
  OBVIOUS
<1>1. CASE CreateLock(p)
  BY <1>1, TypeGoto DEF CreateLock, Flow, Labels, Locked, Goto
<1>2. CASE CreateExists(p)
  BY <1>2, TypeReturn DEF CreateExists, Reject, Return
<1>3. CASE MakeTableDir(p)
  BY <1>3, TypeGoto DEF MakeTableDir, Flow, Labels, Locked
<1>4. CASE OpenSchema(p)
  BY <1>4, TypeGoto DEF OpenSchema, Flow, Labels, Locked
<1>5. CASE WriteSchema(p)
  <2>1. op[p].schema \in Schemas
    BY <1>5, OperationOf, NoOpKind DEF WriteSchema, Flow, Kind
  <2> QED
    BY <1>5, <2>1, CatalogNulls, TypeGoto DEF WriteSchema, Flow, Labels, Locked
<1>6. CASE GetTable(p)
  <2>1. cache' \in Schemas \cup {NoSchema}
    BY <1>6 DEF GetTable
  <2>2. AfterGet(p) \in Labels \ (Locked \cup {"idle"})
    BY DEF AfterGet, Labels, Locked
  <2>3. /\ AfterGet(p) = "sqlcreate" => Kind(p) \in {"create", "load"}
        /\ AfterGet(p) \in {"mkrow", "sqlrow"} => Kind(p) = "insert"
        /\ AfterGet(p) \in {"mkrow", "sqlrow", "sqlcreate"}
    BY <1>6 DEF GetTable, AfterGet, Flow
  <2>4. got' \in [Procs -> Schemas \cup {NoSchema}]
    BY <1>6, <2>1 DEF GetTable
  <2> QED
    BY <1>6, <2>1, <2>2, <2>3, <2>4, CatalogNulls, TypeGoto DEF GetTable
<1>7. CASE TableNotFound(p)
  BY <1>7, TypeReturn DEF TableNotFound, Reject, Fail, Return
<1>8. CASE CreateDuckDBTable(p)
  BY <1>8, TypeReturn DEF CreateDuckDBTable, Finish, Return
<1>9. CASE MakeRow(p)
  <2>1. op[p].row \in Rows
    BY <1>9, OperationOf, NoOpKind DEF MakeRow, Flow, Kind
  <2> QED
    BY <1>9, <2>1, CatalogNulls, TypeGoto DEF MakeRow, Flow, Labels, Locked
<1>10. CASE InsertIntoDuckDB(p)
  BY <1>10, TypeReturn DEF InsertIntoDuckDB, Finish, Fail, Return
<1>11. CASE DropDuckDBTable(p)
  BY <1>11, TypeGoto, CatalogNulls DEF DropDuckDBTable, Flow, Labels, Locked
<1>12. CASE DropDuckDBTableFails(p)
  BY <1>12, TypeGoto, CatalogNulls DEF DropDuckDBTableFails, Flow, Labels, Locked
<1>13. CASE DropLock(p)
  BY <1>13, TypeGoto DEF DropLock, Flow, Labels, Locked
<1>14. CASE ListTableDir(p)
  <2>1. todo' \in [Procs -> SUBSET (Rows \cup {SchemaFile})]
    BY <1>14 DEF ListTableDir
  <2> QED
    BY <1>14, <2>1, TypeGoto DEF ListTableDir, Flow, Labels, Locked
<1>15. CASE RemoveEntry(p)
  <2>1. todo' \in [Procs -> SUBSET (Rows \cup {SchemaFile})]
    BY <1>15 DEF RemoveEntry
  <2>2. SharedTypes'
    BY <1>15 DEF RemoveEntry
  <2>3. UNCHANGED <<mu, pc, op, got>>
    BY <1>15 DEF RemoveEntry
  <2> QED
    BY <2>1, <2>2, <2>3 DEF Flow, Kind
<1>16. CASE RemoveTableDir(p)
  BY <1>16, TypeReturn DEF RemoveTableDir, Finish, Return
<1>17. CASE RemoveTableDirFails(p)
  BY <1>17, TypeReturn DEF RemoveTableDirFails, Fail, Return
<1> QED
  BY <1>1, <1>2, <1>3, <1>4, <1>5, <1>6, <1>7, <1>8, <1>9, <1>10, <1>11, <1>12, <1>13,
     <1>14, <1>15, <1>16, <1>17 DEF Step

LEMMA TypeStart ==
  ASSUME TypeInv, NEW p \in Procs, NEW o \in Operations, Start(p, o)
  PROVE  TypeInv'
<1> USE DEF TypeInv, TypeOK
<1>1. o.kind \in {"create", "drop", "insert", "load"}
  BY OperationOf
<1>2. FirstStep(o.kind) = IF o.kind = "create" THEN "lock"
                          ELSE IF o.kind = "drop" THEN "sqldrop" ELSE "get"
  BY <1>1 DEF FirstStep
<1>3. /\ pc' = [pc EXCEPT ![p] = FirstStep(o.kind)] /\ op' = [op EXCEPT ![p] = o]
      /\ UNCHANGED <<dir, file, rows, cache, duck, mu, got, todo, crashes>>
      /\ ops' = ops + 1 /\ alone' \subseteq Procs /\ apart' \subseteq Procs /\ mess' \in BOOLEAN /\ gone' \in BOOLEAN
      /\ pc[p] = "idle"
  BY DEF Start, Goto, Disk
<1>4. pc' \in [Procs -> Labels] /\ op' \in [Procs -> Operations \cup {NoOp}]
  BY <1>2, <1>3 DEF Labels
<1>5. \A q \in Procs : pc'[q] \in Locked <=> mu' = q
  BY <1>2, <1>3 DEF Locked
<1>6. Flow'
  BY <1>1, <1>2, <1>3 DEF Flow, Kind
<1> QED
  BY <1>3, <1>4, <1>5, <1>6

LEMMA TypeNext == TypeInv /\ [Next]_vars => TypeInv'
<1> SUFFICES ASSUME TypeInv, [Next]_vars PROVE TypeInv'
  OBVIOUS
<1>1. ASSUME NEW p \in Procs, NEW o \in Operations, Start(p, o) PROVE TypeInv'
  BY <1>1, TypeStart
<1>2. ASSUME NEW p \in Procs, Step(p) PROVE TypeInv'
  BY <1>2, TypeStep
<1>3. ASSUME NEW p \in Procs, Cancel(p) PROVE TypeInv'
  BY <1>3, TypeReturn DEF Cancel, Fail, Return, TypeInv, TypeOK, SharedTypes, Disk, History, Budget
<1>4. CASE Crash
  <2>1. pc' = [p \in Procs |-> "idle"] /\ mu' = NoProc /\ op' = [p \in Procs |-> NoOp]
    BY <1>4 DEF Crash
  <2>2. \A q \in Procs : pc'[q] \in Locked <=> mu' = q
    BY <2>1, CatalogNulls DEF Locked
  <2>3. Flow'
    BY <2>1 DEF Flow
  <2>4. SharedTypes'
    BY <1>4 DEF Crash, TypeInv, TypeOK, SharedTypes, Disk
  <2> QED
    BY <1>4, <2>1, <2>2, <2>3, <2>4 DEF Crash, TypeInv, TypeOK, SharedTypes, Labels
<1>5. CASE UNCHANGED vars
  BY <1>5 DEF vars, TypeInv, TypeOK, Flow, Kind
<1> QED
  BY <1>1, <1>2, <1>3, <1>4, <1>5 DEF Next

\* The types hold, and mu is held by the goroutine that is at a locked step.
THEOREM CatalogTypes == Spec => []TypeOK
<1>1. TypeInv => TypeOK
  BY DEF TypeInv
<1> QED
  BY <1>1, TypeInit, TypeNext, PTL DEF Spec

-----------------------------------------------------------------------------
(* The cache. *)

\* A step that leaves the cache alone, touches the file only under the lock and
\* takes the lock only with the cache empty.
LEMMA CachedFrame ==
  ASSUME TypeInv, Cached, cache' = cache, file' = file \/ cache = NoSchema,
         \A q \in Procs : pc'[q] \in Locked => pc[q] \in Locked \/ cache = NoSchema
  PROVE  Cached'
BY DEF Cached, CacheIsOnDisk

LEMMA CachedStep ==
  ASSUME TypeInv, Cached, NEW p \in Procs, Step(p)
  PROVE  Cached'
<1> USE DEF TypeInv, TypeOK, Disk, Goto, Locked
<1>1. CASE CreateLock(p)
  BY <1>1, CachedFrame DEF CreateLock
<1>2. CASE CreateExists(p) \/ TableNotFound(p) \/ InsertIntoDuckDB(p) \/ RemoveTableDirFails(p)
  BY <1>2, CachedFrame DEF CreateExists, TableNotFound, InsertIntoDuckDB, RemoveTableDirFails,
     Reject, Finish, Fail, Return
<1>3. CASE MakeTableDir(p) \/ OpenSchema(p)
  BY <1>3, CachedFrame DEF MakeTableDir, OpenSchema, Cached
<1>5. CASE WriteSchema(p)
  BY <1>5 DEF WriteSchema, Cached, CacheIsOnDisk
<1>6. CASE GetTable(p)
  <2>1. \A q \in Procs : pc[q] \notin Locked
    BY <1>6, CatalogNulls DEF GetTable
  <2>2. AfterGet(p) \notin Locked
    BY DEF AfterGet
  <2>3. \A q \in Procs : pc'[q] \notin Locked
    BY <1>6, <2>1, <2>2 DEF GetTable
  <2> QED
    BY <1>6, <2>3 DEF GetTable, Cached, CacheIsOnDisk
<1>8. CASE CreateDuckDBTable(p) \/ RemoveTableDir(p)
  BY <1>8, CachedFrame DEF CreateDuckDBTable, RemoveTableDir, Finish, Return
<1>9. CASE MakeRow(p) \/ DropDuckDBTable(p) \/ DropDuckDBTableFails(p)
  BY <1>9, CachedFrame DEF MakeRow, DropDuckDBTable, DropDuckDBTableFails
<1>13. CASE DropLock(p)
  BY <1>13 DEF DropLock, Cached, CacheIsOnDisk
<1>14. CASE ListTableDir(p) \/ RemoveEntry(p)
  BY <1>14, CachedFrame DEF ListTableDir, RemoveEntry, Cached
<1> QED
  BY <1>1, <1>2, <1>3, <1>5, <1>6, <1>8, <1>9, <1>13, <1>14 DEF Step

LEMMA CachedNext == TypeInv /\ Cached /\ [Next]_vars => Cached'
<1> SUFFICES ASSUME TypeInv, Cached, [Next]_vars PROVE Cached'
  OBVIOUS
<1>1. ASSUME NEW p \in Procs, NEW o \in Operations, Start(p, o) PROVE Cached'
  <2>1. FirstStep(o.kind) \notin Locked
    BY DEF FirstStep, Locked
  <2> QED
    BY <1>1, <2>1, CachedFrame DEF Start, Goto, Disk, TypeInv, TypeOK
<1>2. ASSUME NEW p \in Procs, Step(p) PROVE Cached'
  BY <1>2, CachedStep
<1>3. ASSUME NEW p \in Procs, Cancel(p) PROVE Cached'
  BY <1>3, CachedFrame DEF Cancel, Fail, Return, Goto, Disk, Locked, TypeInv, TypeOK
<1>4. CASE Crash
  BY <1>4 DEF Crash, Cached, CacheIsOnDisk
<1>5. CASE UNCHANGED vars
  BY <1>5, CachedFrame DEF vars
<1> QED
  BY <1>1, <1>2, <1>3, <1>4, <1>5 DEF Next

\* A schema the manager answers from memory is the one on disk, whatever
\* happens at the same time.
THEOREM CacheFaithful == Spec => []CacheIsOnDisk
<1>1. Init => Cached
  BY DEF Init, Cached, CacheIsOnDisk
<1>2. Cached => CacheIsOnDisk
  BY DEF Cached
<1> QED
  BY <1>1, <1>2, TypeInit, TypeNext, CachedNext, PTL DEF Spec

-----------------------------------------------------------------------------
(* Disk and DuckDB. *)

\* A goroutine at work meets no other that is alone.
LEMMA AloneAtWork ==
  ASSUME Tidy, NEW p \in Procs, pc[p] # "idle"
  PROVE  (\A q \in alone : q = p) /\ (~mess => p \in alone)
BY DEF Tidy, Sharing, Active

\* A step of p that is not its last.
LEMMA TidyStep ==
  ASSUME TypeInv, Tidy, NEW p \in Procs, pc[p] # "idle",
         Active' = Active, alone' = alone, mess' = mess,
         p \in alone => DroppingAt(p)' /\ (~mess => BuildingAt(p)')
  PROVE  Tidy'
<1>1. \A q \in alone : q = p
  BY AloneAtWork
<1>2. Sharing'
  BY DEF Tidy, Sharing
<1>3. Achieved'
  BY <1>1 DEF Achieved
<1>4. p \in Active
  BY DEF Active
<1> QED
  BY <1>2, <1>3, <1>4 DEF Tidy, CatalogAgrees

LEMMA TidyReturn ==
  ASSUME TypeInv, Tidy, NEW p \in Procs, pc[p] # "idle", Return(p),
         mess' \/ ~mess \/ p \in alone,
         ~mess' /\ p \in alone => Agreeing'
  PROVE  Tidy'
<1>1. (\A q \in alone : q = p) /\ (~mess => p \in alone)
  BY AloneAtWork
<1>2. alone' = {}
  BY <1>1 DEF Return
<1>3. Active' = Active \ {p}
  BY DEF Return, Goto, Active, TypeInv, TypeOK
<1>4. p \in alone => Active = {p}
  BY DEF Tidy, Sharing
<1>5. Sharing'
  BY <1>1, <1>2, <1>3, <1>4 DEF Sharing
<1>6. CatalogAgrees'
  BY <1>1 DEF CatalogAgrees
<1> QED
  BY <1>2, <1>5, <1>6 DEF Tidy, Achieved

LEMMA TidyActions ==
  ASSUME TypeInv, Cached, Tidy, NEW p \in Procs, Step(p)
  PROVE  Tidy'
<1>a. pc[p] # "idle" => (p \in alone => DroppingAt(p) /\ (~mess => BuildingAt(p)))
                        /\ (~mess => p \in alone)
  BY AloneAtWork DEF Tidy, Achieved
<1>b. ASSUME NEW l \in Labels \ {"idle"}, Goto(p, l), pc[p] # "idle"
      PROVE  Active' = Active /\ pc'[p] = l
  BY <1>b DEF Goto, Active, TypeInv, TypeOK
<1>1. CASE CreateLock(p)
  <2>1. pc'[p] = "mkdir" /\ Active' = Active
    BY <1>1, <1>b DEF CreateLock, Labels
  <2> QED
    BY <1>1, <2>1, <1>a, TidyStep DEF CreateLock, DroppingAt, BuildingAt, Agreeing, Disk, History
<1>2. CASE CreateExists(p)
  BY <1>2, <1>a, TidyReturn DEF CreateExists, Reject, BuildingAt, Agreeing, Disk, Return, Budget
<1>3. CASE MakeTableDir(p)
  <2>1. pc'[p] = "open" /\ Active' = Active
    BY <1>3, <1>b DEF MakeTableDir, Labels
  <2> QED
    BY <1>3, <2>1, <1>a, TidyStep DEF MakeTableDir, DroppingAt, BuildingAt, History
<1>4. CASE OpenSchema(p)
  <2>1. pc'[p] = "write" /\ Active' = Active
    BY <1>4, <1>b DEF OpenSchema, Labels
  <2> QED
    BY <1>4, <2>1, <1>a, TidyStep DEF OpenSchema, DroppingAt, BuildingAt, History
<1>5. CASE WriteSchema(p)
  <2>1. pc'[p] = "get" /\ Active' = Active
    BY <1>5, <1>b DEF WriteSchema, Labels
  <2>2. op[p].schema \in Schemas /\ Kind(p)' = "create"
    BY <1>5, OperationOf, NoOpKind DEF WriteSchema, TypeInv, TypeOK, Flow, Kind
  <2> QED
    BY <1>5, <2>1, <2>2, <1>a, TidyStep DEF WriteSchema, DroppingAt, BuildingAt, Written, History
<1>6. CASE GetTable(p)
  <2>1. AfterGet(p) \in Labels \ {"idle"} /\ AfterGet(p) \in {"sqlrow", "mkrow", "sqlcreate"}
    BY DEF AfterGet, Labels
  <2>2. pc'[p] = AfterGet(p) /\ Active' = Active
    BY <1>6, <2>1, <1>b DEF GetTable
  <2>3. cache' = file /\ file \in Schemas /\ got'[p] = file
    BY <1>6 DEF GetTable, Cached, CacheIsOnDisk, TypeInv, TypeOK
  <2>4. file # Missing
    BY <2>3, CatalogNulls
  <2>5. UNCHANGED <<dir, file, rows, duck, crashes, alone, mess, op>> /\ pc[p] \in {"get", "reget"}
    BY <1>6 DEF GetTable, Disk, Budget, History
  <2>6. ASSUME p \in alone, ~mess PROVE BuildingAt(p)'
    <3>1. IF Kind(p) = "create" THEN pc[p] = "get" => Written ELSE Agreeing
      BY <2>5, <2>6, <1>a DEF BuildingAt, TypeInv, Flow
    <3>2. Kind(p) = "create" => pc[p] = "get" /\ AfterGet(p) = "sqlcreate"
      BY <2>5 DEF TypeInv, Flow, AfterGet
    <3>3. Agreeing => Written
      BY <2>3, <2>4 DEF Agreeing, Written
    <3>4. Written' <=> Written
      BY <2>5 DEF Written
    <3>5. Agreeing' <=> Agreeing
      BY <2>5 DEF Agreeing
    <3> QED
      BY <2>1, <2>2, <2>3, <2>4, <2>5, <3>1, <3>2, <3>3, <3>4, <3>5 DEF BuildingAt
  <2>7. DroppingAt(p)'
    BY <2>1, <2>2 DEF DroppingAt
  <2> QED
    BY <2>2, <2>5, <2>6, <2>7, TidyStep
<1>7. CASE TableNotFound(p)
  BY <1>7, <1>a, TidyReturn DEF TableNotFound, Reject, Fail, BuildingAt, Agreeing, Disk, Return, Budget
<1>8. CASE CreateDuckDBTable(p)
  <2>1. mess' = mess /\ pc[p] = "sqlcreate" /\ Return(p)
    BY <1>8 DEF CreateDuckDBTable, Finish, TypeInv, TypeOK, Flow
  <2>2. ASSUME p \in alone, ~mess PROVE Agreeing'
    <3>1. Written /\ got[p] = file
      BY <1>a, <2>1, <2>2 DEF BuildingAt
    <3> QED
      BY <1>8, <3>1, CatalogNulls DEF CreateDuckDBTable, Written, Agreeing, Disk
  <2> QED
    BY <2>1, <2>2, TidyReturn
<1>9. CASE MakeRow(p)
  <2>1. pc'[p] = "reget" /\ Active' = Active
    BY <1>9, <1>b DEF MakeRow, Labels
  <2> QED
    BY <1>9, <2>1, <1>a, TidyStep DEF MakeRow, DroppingAt, BuildingAt, Agreeing, Budget, History
<1>10. CASE InsertIntoDuckDB(p)
  <2>1. pc[p] = "sqlrow" /\ Kind(p) # "drop" /\ UNCHANGED <<dir, file, rows, cache, duck>>
    BY <1>10 DEF InsertIntoDuckDB, TypeInv, Flow, Disk
  <2>2. Return(p) /\ (mess' \/ mess' = mess)
    BY <1>10, <2>1 DEF InsertIntoDuckDB, Finish, Fail, TypeInv, TypeOK
  <2>3. ASSUME p \in alone, ~mess PROVE Agreeing'
    BY <2>1, <2>2, <2>3, <1>a DEF BuildingAt, Agreeing, Return, Budget
  <2> QED
    BY <2>1, <2>2, <2>3, <1>a, TidyReturn
<1>11. CASE DropDuckDBTable(p)
  <2>1. pc'[p] = "droplock" /\ Active' = Active
    BY <1>11, <1>b DEF DropDuckDBTable, Labels
  <2> QED
    BY <1>11, <2>1, TidyStep DEF DropDuckDBTable, DroppingAt, BuildingAt, History
<1>12. CASE DropDuckDBTableFails(p)
  <2>1. alone' = {} /\ mess'
    BY <1>12, AloneAtWork DEF DropDuckDBTableFails
  <2> QED
    BY <2>1 DEF Tidy, Sharing, Achieved, CatalogAgrees
<1>13. CASE DropLock(p)
  <2>1. pc'[p] = "list" /\ Active' = Active
    BY <1>13, <1>b DEF DropLock, Labels
  <2> QED
    BY <1>13, <2>1, <1>a, TidyStep DEF DropLock, DroppingAt, BuildingAt, History
<1>14. CASE ListTableDir(p)
  <2>1. pc'[p] = "remove" /\ Active' = Active
    BY <1>14, <1>b DEF ListTableDir, Labels
  <2>2. todo'[p] = rows \cup (IF file = Missing THEN {} ELSE {SchemaFile})
    BY <1>14 DEF ListTableDir, TypeInv, TypeOK
  <2> QED
    BY <1>14, <2>1, <2>2, <1>a, TidyStep DEF ListTableDir, DroppingAt, BuildingAt, Disk, History
<1>15. CASE RemoveEntry(p)
  <2>1. pc[p] = "remove" /\ UNCHANGED <<pc, duck, alone, mess>>
    BY <1>15 DEF RemoveEntry, History
  <2>2. Active' = Active
    BY <2>1 DEF Active
  <2>3. PICK e \in todo[p] : /\ todo' = [todo EXCEPT ![p] = @ \ {e}]
                             /\ file' = IF e = SchemaFile THEN Missing ELSE file
                             /\ rows' = rows \ {e}
    BY <1>15 DEF RemoveEntry
  <2>4. todo'[p] = todo[p] \ {e}
    BY <2>3 DEF TypeInv, TypeOK
  <2> QED
    BY <2>1, <2>2, <2>3, <2>4, <1>a, TidyStep DEF DroppingAt, BuildingAt
<1>16. CASE RemoveTableDir(p)
  <2>1. /\ pc[p] = "remove" /\ Return(p) /\ (mess' \/ ~mess \/ p \in alone)
        /\ todo[p] = {} /\ rows' = {} /\ ~dir' /\ file' = file /\ duck' = duck
    BY <1>16 DEF RemoveTableDir, Finish
  <2> QED
    BY <2>1, <1>a, TidyReturn DEF DroppingAt, Agreeing
<1>17. CASE RemoveTableDirFails(p)
  BY <1>17, TidyReturn DEF RemoveTableDirFails, Fail
<1> QED
  BY <1>1, <1>2, <1>3, <1>4, <1>5, <1>6, <1>7, <1>8, <1>9, <1>10, <1>11, <1>12, <1>13,
     <1>14, <1>15, <1>16, <1>17 DEF Step

LEMMA TidyNext == TypeInv /\ Cached /\ Tidy /\ [Next]_vars => Tidy'
<1> SUFFICES ASSUME TypeInv, Cached, Tidy, [Next]_vars PROVE Tidy'
  OBVIOUS
<1>1. ASSUME NEW p \in Procs, NEW o \in Operations, Start(p, o) PROVE Tidy'
  <2>1. CASE Active = {}
    <3>1. /\ pc[p] = "idle" /\ alone' = {p} /\ mess' = mess
          /\ UNCHANGED <<dir, file, rows, duck, crashes>>
      BY <1>1, <2>1 DEF Start, Disk, TypeInv, TypeOK
    <3>2. pc'[p] = FirstStep(o.kind) /\ Kind(p)' = o.kind
      BY <1>1 DEF Start, Goto, Kind, TypeInv, TypeOK
    <3>3. FirstStep(o.kind) = IF o.kind = "create" THEN "lock"
                              ELSE IF o.kind = "drop" THEN "sqldrop" ELSE "get"
      BY OperationOf DEF FirstStep
    <3>4. Active' = {p}
      BY <1>1, <2>1, <3>2, <3>3 DEF Active, Start, Goto, TypeInv, TypeOK
    <3>5. ~mess => Agreeing'
      BY <2>1, <3>1 DEF Tidy, CatalogAgrees, Agreeing
    <3> QED
      BY <3>1, <3>2, <3>3, <3>4, <3>5
         DEF Tidy, Sharing, Achieved, CatalogAgrees, DroppingAt, BuildingAt
  <2>2. CASE Active # {}
    BY <1>1, <2>2 DEF Start, Tidy, Sharing, Achieved, CatalogAgrees
  <2> QED
    BY <2>1, <2>2
<1>2. ASSUME NEW p \in Procs, Step(p) PROVE Tidy'
  BY <1>2, TidyActions
<1>3. ASSUME NEW p \in Procs, Cancel(p) PROVE Tidy'
  BY <1>3, TidyReturn DEF Cancel, Fail
<1>4. CASE Crash
  <2>1. Active' = {} /\ alone' = {}
    BY <1>4 DEF Crash, Active
  <2>2. ASSUME ~mess' PROVE Agreeing'
    <3>1. Agreeing
      BY <1>4, <2>2 DEF Crash, Tidy, CatalogAgrees
    <3>2. crashes' > 0
      BY <1>4 DEF Crash, TypeInv, TypeOK
    <3> QED
      BY <1>4, <3>1, <3>2 DEF Crash, Agreeing, Disk
  <2> QED
    BY <2>1, <2>2 DEF Tidy, Sharing, Achieved, CatalogAgrees
<1>5. CASE UNCHANGED vars
  BY <1>5 DEF vars, Tidy, Sharing, Achieved, CatalogAgrees, Active, DroppingAt, BuildingAt,
     Agreeing, Written, Kind
<1> QED
  BY <1>1, <1>2, <1>3, <1>4, <1>5 DEF Next

\* Operations that do not meet, do not fail and are not cut short leave the
\* directory, the schema file and the DuckDB table in step, and a DropTable that
\* meets nobody repairs what others have left.
THEOREM DiskAndDuckDBAgree == Spec => []CatalogAgrees
<1>1. Init => Cached /\ Tidy
  <2>1. Init => Active = {}
    BY DEF Init, Active
  <2> QED
    BY <2>1 DEF Init, Cached, CacheIsOnDisk, Tidy, Sharing, Achieved, CatalogAgrees, Agreeing
<1>2. Tidy => CatalogAgrees
  BY DEF Tidy
<1> QED
  BY <1>1, <1>2, TypeInit, TypeNext, CachedNext, TidyNext, PTL DEF Spec

-----------------------------------------------------------------------------
(* The manager is a SchemaStore. *)

\* The creator under the lock knows what the file is.
Writing ==
  \A p \in Procs : /\ pc[p] \in {"mkdir", "open"} => file = Missing
                   /\ pc[p] = "write" => file = Torn

\* A step that leaves the file alone and lets nobody begin to create.
LEMMA WritingFrame ==
  ASSUME TypeInv, Writing, file' = file,
         \A q \in Procs : pc'[q] \in {"mkdir", "open", "write"} =>
           \/ pc[q] = pc'[q]
           \/ pc'[q] = "open" /\ pc[q] = "mkdir"
           \/ pc'[q] = "mkdir" /\ file = Missing
  PROVE  Writing'
BY DEF Writing

LEMMA WritingStep ==
  ASSUME TypeInv, Cached, Writing, NEW p \in Procs, Step(p)
  PROVE  Writing'
<1> USE DEF TypeInv, TypeOK, Disk, Goto
<1>1. CASE CreateLock(p)
  BY <1>1, WritingFrame DEF CreateLock
<1>2. CASE CreateExists(p) \/ TableNotFound(p) \/ InsertIntoDuckDB(p) \/ RemoveTableDirFails(p)
           \/ CreateDuckDBTable(p) \/ RemoveTableDir(p)
  <2>1. Return(p) /\ file' = file
    BY <1>2 DEF CreateExists, TableNotFound, InsertIntoDuckDB, RemoveTableDirFails,
       CreateDuckDBTable, RemoveTableDir, Reject, Finish, Fail
  <2> QED
    BY <2>1, WritingFrame DEF Return
<1>3. CASE MakeTableDir(p)
  BY <1>3, WritingFrame DEF MakeTableDir
<1>4. CASE OpenSchema(p)
  BY <1>4 DEF OpenSchema, Writing, Locked
<1>5. CASE WriteSchema(p)
  BY <1>5 DEF WriteSchema, Writing, Locked
<1>6. CASE GetTable(p)
  BY <1>6, WritingFrame DEF GetTable, AfterGet
<1>7. CASE MakeRow(p) \/ DropDuckDBTable(p) \/ DropDuckDBTableFails(p) \/ DropLock(p)
           \/ ListTableDir(p)
  BY <1>7, WritingFrame DEF MakeRow, DropDuckDBTable, DropDuckDBTableFails, DropLock, ListTableDir
<1>8. CASE RemoveEntry(p)
  BY <1>8 DEF RemoveEntry, Writing, Locked
<1> QED
  BY <1>1, <1>2, <1>3, <1>4, <1>5, <1>6, <1>7, <1>8 DEF Step

LEMMA WritingNext == TypeInv /\ Cached /\ Writing /\ [Next]_vars => Writing'
<1> SUFFICES ASSUME TypeInv, Cached, Writing, [Next]_vars PROVE Writing'
  OBVIOUS
<1>1. ASSUME NEW p \in Procs, NEW o \in Operations, Start(p, o) PROVE Writing'
  <2>1. FirstStep(o.kind) \notin {"mkdir", "open", "write"}
    BY DEF FirstStep
  <2> QED
    BY <1>1, <2>1, WritingFrame DEF Start, Goto, Disk, TypeInv, TypeOK
<1>2. ASSUME NEW p \in Procs, Step(p) PROVE Writing'
  BY <1>2, WritingStep
<1>3. ASSUME NEW p \in Procs, Cancel(p) PROVE Writing'
  BY <1>3, WritingFrame DEF Cancel, Fail, Return, Goto, Disk, TypeInv, TypeOK
<1>4. CASE Crash
  BY <1>4 DEF Crash, Writing
<1>5. CASE UNCHANGED vars
  BY <1>5, WritingFrame DEF vars
<1> QED
  BY <1>1, <1>2, <1>3, <1>4, <1>5 DEF Next

\* A goroutine without a step to take has no request.
IdleHasNone == \A p \in Procs : pc[p] = "idle" => op[p] = NoOp

LEMMA IdleNext == TypeInv /\ IdleHasNone /\ [Next]_vars => IdleHasNone'
<1> SUFFICES ASSUME TypeInv, IdleHasNone, [Next]_vars PROVE IdleHasNone'
  OBVIOUS
<1> USE DEF TypeInv, TypeOK, IdleHasNone, Goto
<1>0. ASSUME NEW p \in Procs, Return(p) PROVE IdleHasNone'
  BY <1>0 DEF Return
<1>1. ASSUME NEW p \in Procs, NEW o \in Operations, Start(p, o) PROVE IdleHasNone'
  <2>1. FirstStep(o.kind) # "idle"
    BY DEF FirstStep
  <2> QED
    BY <1>1, <2>1 DEF Start
<1>2. ASSUME NEW p \in Procs, Step(p) PROVE IdleHasNone'
  <2>1. AfterGet(p) # "idle"
    BY DEF AfterGet
  <2>2. op' = op /\ (\A q \in Procs : pc'[q] = "idle" => pc[q] = "idle") => IdleHasNone'
    OBVIOUS
  <2> QED
    BY <1>0, <1>2, <2>1, <2>2 DEF Step, CreateLock, CreateExists, MakeTableDir, OpenSchema, WriteSchema, GetTable,
     TableNotFound, CreateDuckDBTable, MakeRow, InsertIntoDuckDB, DropDuckDBTable,
     DropDuckDBTableFails, DropLock, ListTableDir, RemoveEntry, RemoveTableDir, RemoveTableDirFails,
     Reject, Finish, Fail
<1>3. ASSUME NEW p \in Procs, Cancel(p) PROVE IdleHasNone'
  BY <1>0, <1>3 DEF Cancel, Fail
<1>4. CASE Crash
  BY <1>4 DEF Crash
<1>5. CASE UNCHANGED vars
  BY <1>5 DEF vars
<1> QED
  BY <1>1, <1>2, <1>3, <1>4, <1>5 DEF Next

StoreInv == TypeInv /\ Cached /\ Writing /\ IdleHasNone

\* With nobody at work under the lock, or its holder elsewhere, the entry is the file.
LEMMA EntryIsFile ==
  ASSUME TypeInv, mu = NoProc \/ \E p \in Procs : mu = p /\ pc[p] # "write"
  PROVE  Entry = file
BY CatalogNulls DEF TypeInv, TypeOK, Locked, Entry

\* Whoever is at work has a request.
LEMMA AtWork ==
  ASSUME TypeInv, NEW p \in Procs, pc[p] # "idle"
  PROVE  op[p] # NoOp /\ op[p] \in Operations
BY NoOpKind DEF TypeInv, TypeOK, Flow, Kind, Labels

LEMMA DoneChanges ==
  ASSUME NEW p \in Procs, NEW b, Done(p)' = b, \A q \in Procs \ {p} : Done(q)' = Done(q)
  PROVE  [q \in Procs |-> Done(q)]' = [[q \in Procs |-> Done(q)] EXCEPT ![p] = b]
OBVIOUS

\* The others are where they were.
LEMMA OthersDone ==
  ASSUME TypeInv, NEW p \in Procs,
         \A q \in Procs \ {p} : pc'[q] = pc[q] /\ todo'[q] = todo[q] /\ op'[q] = op[q]
  PROVE  \A q \in Procs \ {p} : Done(q)' = Done(q)
BY DEF Done, Kind

LEMMA StoreReturns ==
  ASSUME TypeInv, NEW p \in Procs, pc[p] # "idle", Return(p)
  PROVE  Store!Return(p)
<1>1. op[p] # NoOp
  BY AtWork
<1>2. Done(p)' = FALSE
  BY DEF Return, Goto, Done, TypeInv, TypeOK
<1>3. \A q \in Procs \ {p} : Done(q)' = Done(q)
  BY OthersDone DEF Return, Goto, TypeInv, TypeOK
<1> QED
  BY <1>1, <1>2, <1>3, DoneChanges DEF Return, Store!Return

\* A step of p that only it can see.
LEMMA StoreQuiet ==
  ASSUME TypeInv, NEW p \in Procs, op' = op, got' = got, Entry' = Entry, Done(p)' = Done(p),
         \A q \in Procs \ {p} : pc'[q] = pc[q] /\ todo'[q] = todo[q]
  PROVE  UNCHANGED Store!vars
<1>1. \A q \in Procs : Done(q)' = Done(q)
  BY OthersDone
<1> QED
  BY <1>1 DEF Store!vars

LEMMA EntryKept ==
  ASSUME file' = file, \A q \in Procs : pc'[q] = "write" <=> pc[q] = "write"
  PROVE  Entry' = Entry
BY DEF Entry

\* Each step of a request is one of the store's, or only it can see it.
LEMMA StoreStep ==
  ASSUME StoreInv, NEW p \in Procs, Step(p)
  PROVE  Store!Next \/ UNCHANGED Store!vars
<1> USE DEF StoreInv, Disk, Goto
<1>a. /\ pc \in [Procs -> Labels] /\ op \in [Procs -> Operations \cup {NoOp}]
      /\ got \in [Procs -> Schemas \cup {NoSchema}]
      /\ todo \in [Procs -> SUBSET (Rows \cup {SchemaFile})]
      /\ \A q \in Procs : pc[q] \in Locked <=> mu = q
  BY DEF TypeInv, TypeOK
<1>b. pc[p] = "idle" => ~Step(p)
  BY DEF Step, CreateLock, CreateExists, MakeTableDir, OpenSchema, WriteSchema, GetTable,
     TableNotFound, CreateDuckDBTable, MakeRow, InsertIntoDuckDB, DropDuckDBTable,
     DropDuckDBTableFails, DropLock, ListTableDir, RemoveEntry, RemoveTableDir, RemoveTableDirFails
<1>c. Return(p) => Store!Return(p)
  BY <1>b, StoreReturns
<1>d. ASSUME NEW l, pc' = [pc EXCEPT ![p] = l]
      PROVE  pc'[p] = l /\ \A q \in Procs \ {p} : pc'[q] = pc[q]
  BY <1>a, <1>d
<1>1. CASE CreateLock(p)
  <2>1. Entry' = Entry
    BY <1>1, <1>d, EntryKept DEF CreateLock
  <2>2. Done(p) = FALSE /\ Done(p)' = FALSE
    BY <1>1, <1>d DEF CreateLock, Done
  <2> QED
    BY <1>1, <1>d, <2>1, <2>2, StoreQuiet DEF CreateLock
<1>2. CASE CreateExists(p)
  <2>1. Entry = file /\ file # Missing /\ ~Done(p) /\ op[p].kind = "create"
    BY <1>2, EntryIsFile, CatalogNulls
       DEF CreateExists, Cached, CacheIsOnDisk, TypeInv, TypeOK, Flow, Kind, Done
  <2>2. Entry' = Entry
    BY <1>2, <1>a, EntryKept DEF CreateExists, Reject, Return
  <2>3. Store!Refuse(p)
    BY <1>2, <1>c, <2>1, <2>2 DEF CreateExists, Reject, Store!Refuse
  <2> QED
    BY <2>3 DEF Store!Next
<1>3. CASE MakeTableDir(p)
  <2>1. Entry' = Entry
    BY <1>3, <1>d, EntryKept DEF MakeTableDir
  <2>2. Done(p) = FALSE /\ Done(p)' = FALSE
    BY <1>3, <1>d DEF MakeTableDir, Done
  <2> QED
    BY <1>3, <1>d, <2>1, <2>2, StoreQuiet DEF MakeTableDir
<1>4. CASE OpenSchema(p)
  <2>1. Entry = Missing /\ Entry' = Missing
    <3>1. \A q \in Procs : pc[q] # "write"
      BY <1>4, <1>a DEF OpenSchema, Locked
    <3>2. file = Missing /\ pc'[p] = "write"
      BY <1>4, <1>d DEF OpenSchema, Writing
    <3> QED
      BY <3>1, <3>2 DEF Entry
  <2>2. Done(p) = FALSE /\ Done(p)' = FALSE
    BY <1>4, <1>d DEF OpenSchema, Done
  <2> QED
    BY <1>4, <1>d, <2>1, <2>2, StoreQuiet DEF OpenSchema
<1>5. CASE WriteSchema(p)
  <2>1. pc'[p] = "get" /\ (\A q \in Procs \ {p} : pc'[q] = pc[q]) /\ pc[p] = "write"
        /\ file' = op[p].schema /\ UNCHANGED <<op, got, todo>>
    BY <1>5, <1>d DEF WriteSchema
  <2>2. \A q \in Procs : pc'[q] # "write"
    BY <2>1, <1>a DEF Locked
  <2>3. Entry = Missing /\ Entry' = op[p].schema
    BY <2>1, <2>2 DEF Entry
  <2>4. op[p].kind = "create" /\ ~Done(p) /\ Done(p)' = TRUE
    BY <2>1 DEF TypeInv, Flow, Kind, Done
  <2>5. [q \in Procs |-> Done(q)]' = [[q \in Procs |-> Done(q)] EXCEPT ![p] = TRUE]
    BY <2>1, <2>4, OthersDone, DoneChanges
  <2>6. Store!Create(p)
    BY <2>1, <2>3, <2>4, <2>5 DEF Store!Create, Store!Effect
  <2> QED
    BY <2>6 DEF Store!Next
<1>6. CASE GetTable(p)
  <2>1. Entry = file /\ cache' = file /\ file \in Schemas
    BY <1>6, EntryIsFile DEF GetTable, Cached, CacheIsOnDisk, TypeInv, TypeOK
  <2>2. AfterGet(p) \in {"sqlcreate", "mkrow", "sqlrow"}
    BY DEF AfterGet
  <2>3. pc'[p] = AfterGet(p) /\ (\A q \in Procs \ {p} : pc'[q] = pc[q])
        /\ pc[p] \in {"get", "reget"} /\ UNCHANGED <<file, op, todo>>
        /\ got' = [got EXCEPT ![p] = cache']
    BY <1>6, <1>d DEF GetTable
  <2>4. Entry' = Entry
    BY <2>2, <2>3, EntryKept
  <2>5. Done(p)' = TRUE
    BY <2>2, <2>3 DEF Done
  <2>6. [q \in Procs |-> Done(q)]' = [[q \in Procs |-> Done(q)] EXCEPT ![p] = TRUE]
    BY <2>3, <2>5, OthersDone, DoneChanges
  <2>7. op[p].kind \in {"create", "insert", "load"} /\ (op[p].kind = "create" => Done(p))
    BY <2>3 DEF TypeInv, Flow, Kind, Done
  <2>8. Store!Look(p)
    BY <2>1, <2>3, <2>4, <2>6, <2>7 DEF Store!Look
  <2> QED
    BY <2>8 DEF Store!Next
<1>7. CASE TableNotFound(p)
  <2>1. Return(p) /\ file' = file /\ pc[p] \in {"get", "reget"} /\ file \notin Schemas /\ mu = NoProc
    BY <1>7 DEF TableNotFound, Reject, Fail
  <2>2. Entry = file
    BY <2>1, EntryIsFile
  <2>3. Entry' = Entry
    BY <2>1, <1>a, EntryKept DEF Return
  <2>4. CASE Done(p)
    BY <2>1, <2>3, <2>4, <1>c DEF Store!Answer, Store!Next
  <2>5. CASE ~Done(p)
    <3>1. op[p].kind \in {"insert", "load"}
      BY <2>1, <2>5 DEF TypeInv, Flow, Kind, Done
    <3>2. Store!Refuse(p)
      BY <2>1, <2>2, <2>3, <2>5, <3>1, <1>c DEF Store!Refuse
    <3> QED
      BY <3>2 DEF Store!Next
  <2> QED
    BY <2>4, <2>5
<1>8. CASE CreateDuckDBTable(p) \/ InsertIntoDuckDB(p) \/ RemoveTableDir(p) \/ RemoveTableDirFails(p)
  <2>1. Return(p) /\ file' = file /\ Done(p) /\ pc[p] # "write"
    BY <1>8 DEF CreateDuckDBTable, InsertIntoDuckDB, RemoveTableDir, RemoveTableDirFails,
       Finish, Fail, Done
  <2>2. Entry' = Entry
    BY <2>1, <1>a, EntryKept DEF Return
  <2> QED
    BY <2>1, <2>2, <1>c DEF Store!Answer, Store!Next
<1>9. CASE MakeRow(p)
  <2>1. Entry' = Entry
    BY <1>9, <1>d, EntryKept DEF MakeRow
  <2>2. Done(p) = TRUE /\ Done(p)' = TRUE
    BY <1>9, <1>d DEF MakeRow, Done
  <2> QED
    BY <1>9, <1>d, <2>1, <2>2, StoreQuiet DEF MakeRow
<1>10. CASE DropDuckDBTable(p) \/ DropDuckDBTableFails(p) \/ DropLock(p)
  <2>1. UNCHANGED <<file, op, got, todo>> /\ pc[p] \in {"sqldrop", "droplock"}
        /\ pc'[p] \in {"droplock", "list"} /\ (\A q \in Procs \ {p} : pc'[q] = pc[q])
    BY <1>10, <1>d DEF DropDuckDBTable, DropDuckDBTableFails, DropLock
  <2>2. Entry' = Entry
    BY <2>1, EntryKept
  <2>3. Done(p) = FALSE /\ Done(p)' = FALSE
    BY <2>1 DEF Done
  <2> QED
    BY <2>1, <2>2, <2>3, StoreQuiet
<1>11. CASE ListTableDir(p)
  <2>1. /\ UNCHANGED <<file, op, got>> /\ pc[p] = "list" /\ pc'[p] = "remove"
        /\ todo'[p] = rows \cup (IF file = Missing THEN {} ELSE {SchemaFile})
        /\ \A q \in Procs \ {p} : pc'[q] = pc[q] /\ todo'[q] = todo[q]
    BY <1>11, <1>a, <1>d DEF ListTableDir
  <2>2. Entry = file /\ Entry' = Entry
    <3>1. mu = p
      BY <2>1, <1>a DEF Locked
    <3> QED
      BY <2>1, <3>1, EntryIsFile, EntryKept
  <2>3. ~Done(p) /\ op[p].kind = "drop"
    BY <2>1 DEF Done, TypeInv, Flow, Kind
  <2>4. CASE file = Missing
    <3>1. SchemaFile \notin todo'[p]
      BY <2>1, <2>4, CatalogNulls DEF TypeInv, TypeOK
    <3>2. Done(p)' = TRUE
      BY <2>1, <3>1 DEF Done
    <3>3. [q \in Procs |-> Done(q)]' = [[q \in Procs |-> Done(q)] EXCEPT ![p] = TRUE]
      BY <2>1, <3>2, OthersDone, DoneChanges
    <3>4. Store!Drop(p)
      BY <2>1, <2>2, <2>3, <2>4, <3>3 DEF Store!Drop, Store!Effect
    <3> QED
      BY <3>4 DEF Store!Next
  <2>5. CASE file # Missing
    <3>1. Done(p)' = FALSE
      BY <2>1, <2>5 DEF Done
    <3>2. Done(p)' = Done(p)
      BY <2>3, <3>1 DEF Done
    <3> QED
      BY <2>1, <2>2, <3>2, StoreQuiet
  <2> QED
    BY <2>4, <2>5
<1>12. CASE RemoveEntry(p)
  <2>1. pc[p] = "remove" /\ UNCHANGED <<pc, op, got>>
    BY <1>12 DEF RemoveEntry
  <2>2. PICK e \in todo[p] : /\ todo' = [todo EXCEPT ![p] = @ \ {e}]
                             /\ file' = IF e = SchemaFile THEN Missing ELSE file
    BY <1>12 DEF RemoveEntry
  <2>3. todo'[p] = todo[p] \ {e} /\ \A q \in Procs \ {p} : todo'[q] = todo[q]
    BY <2>2, <1>a
  <2>4. \A q \in Procs : pc[q] # "write" /\ pc'[q] # "write"
    BY <2>1, <1>a DEF Locked
  <2>5. Entry = file /\ Entry' = file'
    BY <2>4 DEF Entry
  <2>6. CASE e = SchemaFile
    <3>1. ~Done(p) /\ Done(p)' = TRUE /\ op[p].kind = "drop"
      BY <2>1, <2>2, <2>3, <2>6 DEF Done, TypeInv, Flow, Kind
    <3>2. [q \in Procs |-> Done(q)]' = [[q \in Procs |-> Done(q)] EXCEPT ![p] = TRUE]
      BY <2>1, <2>3, <3>1, OthersDone, DoneChanges
    <3>3. Store!Drop(p)
      BY <2>1, <2>2, <2>5, <2>6, <3>1, <3>2 DEF Store!Drop, Store!Effect
    <3> QED
      BY <3>3 DEF Store!Next
  <2>7. CASE e # SchemaFile
    <3>1. Done(p)' = Done(p)
      BY <2>1, <2>3, <2>7 DEF Done
    <3> QED
      BY <2>1, <2>2, <2>3, <2>5, <2>7, <3>1, StoreQuiet
  <2> QED
    BY <2>6, <2>7
<1> QED
  BY <1>1, <1>2, <1>3, <1>4, <1>5, <1>6, <1>7, <1>8, <1>9, <1>10, <1>11, <1>12 DEF Step

LEMMA StoreNext == StoreInv /\ [Next]_vars => [Store!Next]_(Store!vars)
<1> SUFFICES ASSUME StoreInv, [Next]_vars PROVE Store!Next \/ UNCHANGED Store!vars
  BY DEF Store!vars
<1>1. ASSUME NEW p \in Procs, NEW o \in Operations, Start(p, o)
      PROVE  Store!Next \/ UNCHANGED Store!vars
  <2>1. FirstStep(o.kind) \in {"lock", "sqldrop", "get"} /\ (FirstStep(o.kind) = "get" => o.kind # "create")
    BY OperationOf DEF FirstStep
  <2>2. /\ op' = [op EXCEPT ![p] = o] /\ pc' = [pc EXCEPT ![p] = FirstStep(o.kind)]
        /\ UNCHANGED <<file, got, todo>> /\ pc[p] = "idle"
    BY <1>1 DEF Start, Goto, Disk
  <2>3. /\ pc'[p] = FirstStep(o.kind) /\ op'[p] = o
        /\ \A q \in Procs \ {p} : pc'[q] = pc[q] /\ op'[q] = op[q] /\ todo'[q] = todo[q]
    BY <2>2 DEF StoreInv, TypeInv, TypeOK
  <2>4. Done(p) = FALSE /\ Done(p)' = FALSE
    BY <2>1, <2>2, <2>3 DEF Done, Kind
  <2>5. \A q \in Procs : Done(q)' = Done(q)
    BY <2>3, <2>4, OthersDone DEF StoreInv
  <2>6. Entry' = Entry
    BY <2>1, <2>2, <2>3, EntryKept
  <2>7. op[p] = NoOp
    BY <2>2 DEF StoreInv, IdleHasNone
  <2>8. Store!Call(p, o)
    BY <2>2, <2>5, <2>6, <2>7 DEF Store!Call
  <2> QED
    BY <2>8 DEF Store!Next
<1>2. ASSUME NEW p \in Procs, Step(p) PROVE Store!Next \/ UNCHANGED Store!vars
  BY <1>2, StoreStep
<1>3. ASSUME NEW p \in Procs, Cancel(p) PROVE Store!Next
  <2>1. pc[p] # "idle" /\ Return(p) /\ file' = file /\ "cancel" \in Faults
    BY <1>3 DEF Cancel, Fail, Disk
  <2>2. Store!Return(p)
    BY <2>1, StoreReturns DEF StoreInv
  <2>3. Entry' \in Store!Breaks({p})
    <3>1. pc'[p] = "idle" /\ \A q \in Procs \ {p} : pc'[q] = pc[q]
      BY <2>1 DEF Return, Goto, StoreInv, TypeInv, TypeOK
    <3>2. CASE pc[p] = "write"
      <4>1. \A q \in Procs : pc'[q] # "write"
        BY <3>1, <3>2 DEF StoreInv, TypeInv, TypeOK, Locked
      <4>2. Entry = Missing /\ Entry' = Torn
        BY <2>1, <3>2, <4>1 DEF Entry, StoreInv, Writing
      <4>3. op[p].kind = "create" /\ ~Done(p)
        BY <3>2 DEF StoreInv, TypeInv, Flow, Kind, Done
      <4> QED
        BY <4>2, <4>3 DEF Store!Breaks
    <3>3. CASE pc[p] # "write"
      BY <2>1, <3>1, <3>3, EntryKept DEF Store!Breaks
    <3> QED
      BY <3>2, <3>3
  <2>4. Store!Stop(p)
    BY <2>1, <2>2, <2>3 DEF Store!Stop
  <2> QED
    BY <2>4 DEF Store!Next
<1>4. CASE Crash
  <2>1. /\ pc' = [p \in Procs |-> "idle"] /\ op' = [p \in Procs |-> NoOp]
        /\ got' = [p \in Procs |-> NoSchema] /\ file' = file /\ "crash" \in Faults
    BY <1>4 DEF Crash, Disk
  <2>2. Entry' = file
    BY <2>1 DEF Entry
  <2>3. \A p \in Procs : Done(p)' = FALSE
    BY <2>1 DEF Done
  <2>4. Entry' \in Store!Breaks(Procs)
    <3>1. CASE \E p \in Procs : pc[p] = "write"
      <4>1. PICK p \in Procs : pc[p] = "write"
        BY <3>1
      <4>2. Entry = Missing /\ Entry' = Torn
        BY <2>2, <4>1 DEF Entry, StoreInv, Writing
      <4>3. op[p].kind = "create" /\ ~Done(p)
        BY <4>1 DEF StoreInv, TypeInv, Flow, Kind, Done
      <4> QED
        BY <4>2, <4>3 DEF Store!Breaks
    <3>2. CASE ~ \E p \in Procs : pc[p] = "write"
      BY <2>2, <3>2 DEF Entry, Store!Breaks
    <3> QED
      BY <3>1, <3>2
  <2>5. Store!Die
    BY <2>1, <2>3, <2>4 DEF Store!Die
  <2> QED
    BY <2>5 DEF Store!Next
<1>5. CASE UNCHANGED vars
  BY <1>5 DEF vars, Store!vars, Entry, Done, Kind
<1> QED
  BY <1>1, <1>2, <1>3, <1>4, <1>5 DEF Next

\* Creates, drops and lookups are as if each were one step on one entry: the
\* cache, the lock and the file written in two steps do not show.
THEOREM ManagerIsSchemaStore == Spec => ImplementsSchemaStore
<1>1. Init => StoreInv /\ Store!Init
  <2>1. Init => Cached /\ Writing /\ IdleHasNone
    BY DEF Init, Cached, CacheIsOnDisk, Writing, IdleHasNone
  <2>2. Init => Store!Init
    BY DEF Init, Store!Init, Entry, Done
  <2> QED
    BY <2>1, <2>2, TypeInit DEF StoreInv
<1>2. StoreInv /\ [Next]_vars => StoreInv'
  BY TypeNext, CachedNext, WritingNext, IdleNext DEF StoreInv
<1> QED
  BY <1>1, <1>2, StoreNext, PTL DEF Spec, ImplementsSchemaStore, Store!Spec
=============================================================================
