---------------------------- MODULE IndexerProofs ----------------------------
(* Theorems about Indexer. *)
EXTENDS IndexerInv, TLAPS, FiniteSetTheorems

USE RowsAssumption, NoneAssumption, EnginesAssumption DEF shared, local, copy, history, budget, Goto

LEMMA TypeInit == Init => TypeOK
BY DEF Init, TypeOK, FilesOK, ProgramsOK, CopiesOK, HistoryOK, Schema, EmptyTable, Labels

LEMMA TypePut ==
  ASSUME TypeOK, NEW by, NEW r \in Rows, NEW d \in RowDir \cup {None}, Put(by, r, d),
         d # None => d.dir =< clock + 1
  PROVE  /\ disk' \in [Rows -> RowDir \cup {None}] /\ clock' \in Nat
         /\ \A s \in Rows : disk'[s] # None => disk'[s].dir =< clock'
         /\ late' \in [Engines -> SUBSET Rows] /\ inplace' \in [Engines -> SUBSET Rows]
         /\ askew' \in [Engines -> {"no", "partial", "yes"}]
         /\ touched' \in [Engines -> {"no", "saving", "yes"}]
BY DEF TypeOK, FilesOK, ProgramsOK, CopiesOK, HistoryOK, Put, RowDir

LEMMA TypeWritten ==
  ASSUME TypeOK, NEW r \in Rows, NEW c \in Columns
  PROVE  NewDir \in RowDir /\ NewDir.dir =< clock + 1
         /\ Written(r, c) \in RowDir /\ Written(r, c).dir =< clock + 1
BY DEF TypeOK, FilesOK, ProgramsOK, CopiesOK, HistoryOK, NewDir, Written, RowDir

LEMMA TypeGenerateRow == ASSUME TypeOK, GenerateRow PROVE TypeOK'
<1>1. PICK r \in Rows, d \in RowDir : Put(None, r, d) /\ d.dir =< clock + 1
  BY TypeWritten DEF GenerateRow, TypeOK, FilesOK, ProgramsOK, CopiesOK, HistoryOK, Schema
<1>2. QED BY <1>1, TypePut DEF GenerateRow, TypeOK, FilesOK, ProgramsOK, CopiesOK, HistoryOK

LEMMA TypeScripts ==
  ASSUME TypeOK, UpdateSchemaTimestamp \/ CleanData \/ WriteSchema PROVE TypeOK'
<1>1. CASE UpdateSchemaTimestamp
  <2>1. FilesOK' BY <1>1 DEF UpdateSchemaTimestamp, TouchAll, Schema, RowDir, TypeOK, FilesOK, ProgramsOK, CopiesOK, HistoryOK
  <2>2. ProgramsOK' BY <1>1 DEF UpdateSchemaTimestamp, TouchAll, Schema, Labels, TypeOK, FilesOK, ProgramsOK, CopiesOK, HistoryOK
  <2>3. CopiesOK' BY <1>1 DEF UpdateSchemaTimestamp, TouchAll, Schema, TypeOK, FilesOK, ProgramsOK, CopiesOK, HistoryOK
  <2>4. HistoryOK' BY <1>1 DEF UpdateSchemaTimestamp, TouchAll, Schema, TypeOK, FilesOK, ProgramsOK, CopiesOK, HistoryOK
  <2> QED BY <2>1, <2>2, <2>3, <2>4 DEF TypeOK
<1>2. CASE CleanData
  BY <1>2 DEF CleanData, TouchAll, TypeOK, FilesOK, ProgramsOK, CopiesOK, HistoryOK
<1>3. CASE WriteSchema
  <2>1. FilesOK' BY <1>3 DEF WriteSchema, TouchAll, Schema, RowDir, TypeOK, FilesOK, ProgramsOK, CopiesOK, HistoryOK
  <2>2. ProgramsOK' BY <1>3 DEF WriteSchema, TouchAll, Schema, Labels, TypeOK, FilesOK, ProgramsOK, CopiesOK, HistoryOK
  <2>3. CopiesOK' BY <1>3 DEF WriteSchema, TouchAll, Schema, TypeOK, FilesOK, ProgramsOK, CopiesOK, HistoryOK
  <2>4. HistoryOK' BY <1>3 DEF WriteSchema, TouchAll, Schema, TypeOK, FilesOK, ProgramsOK, CopiesOK, HistoryOK
  <2> QED BY <2>1, <2>2, <2>3, <2>4 DEF TypeOK
<1> QED BY <1>1, <1>2, <1>3

LEMMA TypeStart == ASSUME TypeOK, NEW e \in Engines, Start(e) \/ Rebuild(e) PROVE TypeOK'
<1>1. FilesOK' BY DEF Start, Rebuild, TypeOK, FilesOK, ProgramsOK, CopiesOK, HistoryOK
<1>2. ProgramsOK'
  <2>1. CASE Start(e) BY <2>1 DEF Start, Labels, TypeOK, ProgramsOK
  <2>2. CASE Rebuild(e) BY <2>2 DEF Rebuild, Labels, TypeOK, ProgramsOK
  <2> QED BY <2>1, <2>2
<1>3. CopiesOK' BY DEF Start, Rebuild, TypeOK, CopiesOK
<1>4. HistoryOK'
  <2>1. starts' \in Nat BY DEF Start, Rebuild, TypeOK, HistoryOK
  <2>2. late' = [late EXCEPT ![e] = {}] /\ UNCHANGED <<inplace, askew, touched, faults>>
    BY DEF Start, Rebuild
  <2> QED BY <2>1, <2>2 DEF TypeOK, HistoryOK
<1> QED BY <1>1, <1>2, <1>3, <1>4 DEF TypeOK

LEMMA TypeStop == ASSUME TypeOK, NEW e \in Engines, Stop(e) PROVE TypeOK'
<1>1. FilesOK' BY DEF Stop, EmptyTable, TypeOK, FilesOK, ProgramsOK, CopiesOK, HistoryOK
<1>2. ProgramsOK' BY DEF Stop, EmptyTable, Labels, TypeOK, FilesOK, ProgramsOK, CopiesOK, HistoryOK
<1>3. CopiesOK'
  <2>1. CASE e \in Persistent BY <2>1 DEF Stop, TypeOK, CopiesOK
  <2>2. CASE e \notin Persistent BY <2>2 DEF Stop, EmptyTable, TypeOK, CopiesOK
  <2> QED BY <2>1, <2>2
<1>4. HistoryOK' BY DEF Stop, EmptyTable, TypeOK, FilesOK, ProgramsOK, CopiesOK, HistoryOK
<1> QED BY <1>1, <1>2, <1>3, <1>4 DEF TypeOK

LEMMA TypeEnd ==
  ASSUME TypeOK, NEW e \in Engines, NEW how \in {"kept", "rebuilt", "failed"}, End(e, how),
         pc[e] \notin {"write", "refresh", "delete"}, UNCHANGED <<cached, target>>
  PROVE  ProgramsOK' /\ result' \in [Engines -> {"none", "kept", "rebuilt", "failed"}]
BY DEF End, TypeOK, ProgramsOK, CopiesOK, Labels

LEMMA TypeSmartLoad == ASSUME TypeOK, NEW e \in Engines, SmartLoad(e) PROVE TypeOK'
<1>1. CASE GetIndexMeta(e)
  BY <1>1 DEF GetIndexMeta, TypeOK, FilesOK, ProgramsOK, CopiesOK, HistoryOK, Labels
<1>2. CASE CheckSchemaHash(e)
  BY <1>2 DEF CheckSchemaHash, GetTable, Known, TypeOK, FilesOK, ProgramsOK, CopiesOK, HistoryOK, Labels
<1>3. CASE CheckDataHash(e)
  BY <1>3 DEF CheckDataHash, TypeOK, FilesOK, ProgramsOK, CopiesOK, HistoryOK, Labels
<1>4. CASE VerifyCopy(e)
  <2>1. CASE End(e, "kept") BY <1>4, <2>1, TypeEnd DEF VerifyCopy, TypeOK, FilesOK, ProgramsOK, CopiesOK, HistoryOK
  <2>2. CASE pc' = [pc EXCEPT ![e] = "create"] /\ UNCHANGED <<read, todo, result>>
    <3>1. FilesOK' BY <1>4 DEF VerifyCopy, TypeOK, FilesOK
    <3>2. ProgramsOK' BY <1>4, <2>2 DEF VerifyCopy, Labels, TypeOK, ProgramsOK
    <3>3. CopiesOK' BY <1>4, <2>2 DEF VerifyCopy, TypeOK, CopiesOK
    <3>4. HistoryOK' BY <1>4 DEF VerifyCopy, TypeOK, HistoryOK
    <3> QED BY <3>1, <3>2, <3>3, <3>4 DEF TypeOK
  <2> QED BY <1>4, <2>1, <2>2 DEF VerifyCopy
<1> QED BY <1>1, <1>2, <1>3, <1>4 DEF SmartLoad

LEMMA ComputedHash == TypeOK => ComputeDataHash \in [Rows -> Nat \cup {None}]
BY DEF TypeOK, FilesOK, ProgramsOK, CopiesOK, HistoryOK, ComputeDataHash, RowDir

LEMMA LoadedCount ==
  ASSUME TypeOK, NEW e \in Engines PROVE IsFiniteSet(Loaded(e)) /\ Cardinality(Loaded(e)) \in Nat
<1>1. Loaded(e) \subseteq Rows BY DEF Loaded
<1>2. QED BY <1>1, FS_Subset, FS_CardinalityType

LEMMA TypeBuildIndex == ASSUME TypeOK, NEW e \in Engines, BuildIndex(e) PROVE TypeOK'
<1>1. CASE CreateDuckDBTable(e)
  BY <1>1 DEF CreateDuckDBTable, GetTable, Known, TypeOK, FilesOK, ProgramsOK, CopiesOK, HistoryOK, Labels, Schema
<1>2. CASE ListRows(e)
  BY <1>2 DEF ListRows, TypeOK, FilesOK, ProgramsOK, CopiesOK, HistoryOK, Labels, EmptyTable, Present
<1>3. CASE LoadRow(e)
  BY <1>3 DEF LoadRow, Contents, TypeOK, FilesOK, ProgramsOK, CopiesOK, HistoryOK, Labels, RowDir
<1>4. CASE ComputeHashes(e)
  <2> DEFINE saved(n) == [schema |-> cached[e], data |-> ComputeDataHash, rows |-> n]
  <2>1. PICK n \in Nat, t \in {"saving", "yes"} : /\ read' = [read EXCEPT ![e] = saved(n)]
                                                 /\ touched' = [touched EXCEPT ![e] = t]
    BY <1>4, LoadedCount DEF ComputeHashes
  <2>2. saved(n) \in Meta
    BY <1>4, ComputedHash DEF ComputeHashes, TypeOK, ProgramsOK, Meta
  <2>3. QED
    <3>1. FilesOK' BY <1>4, <2>1 DEF ComputeHashes, TypeOK, FilesOK, ProgramsOK, CopiesOK, HistoryOK
    <3>2. ProgramsOK' BY <1>4, <2>1, <2>2 DEF ComputeHashes, Labels, TypeOK, FilesOK, ProgramsOK, CopiesOK, HistoryOK
    <3>3. CopiesOK' BY <1>4, <2>1 DEF ComputeHashes, TypeOK, FilesOK, ProgramsOK, CopiesOK, HistoryOK
    <3>4. HistoryOK' BY <1>4, <2>1 DEF ComputeHashes, TypeOK, FilesOK, ProgramsOK, CopiesOK, HistoryOK
    <3> QED BY <3>1, <3>2, <3>3, <3>4 DEF TypeOK
<1>5. CASE OpenMeta(e)
  BY <1>5 DEF OpenMeta, TypeOK, FilesOK, ProgramsOK, CopiesOK, HistoryOK, Labels
<1>6. CASE SaveIndexMeta(e)
  BY <1>6, TypeEnd DEF SaveIndexMeta, TypeOK, FilesOK, ProgramsOK, CopiesOK, HistoryOK
<1> QED BY <1>1, <1>2, <1>3, <1>4, <1>5, <1>6 DEF BuildIndex

LEMMA TypeLoadFails == ASSUME TypeOK, NEW e \in Engines, LoadFails(e) PROVE TypeOK'
<1>1. pc[e] \notin {"write", "refresh", "delete"} BY DEF LoadFails
<1>2. End(e, "failed") /\ faults' \in Nat BY DEF LoadFails, TypeOK, FilesOK, ProgramsOK, CopiesOK, HistoryOK
<1>3. QED BY <1>1, <1>2, TypeEnd DEF LoadFails, TypeOK, FilesOK, ProgramsOK, CopiesOK, HistoryOK

LEMMA TypeRowOperation == ASSUME TypeOK, NEW e \in Engines, RowOperation(e) PROVE TypeOK'
<1>1. CASE MakeRow(e)
  <2>1. PICK r \in Rows : Put(e, r, NewDir) /\ target' = [target EXCEPT ![e] = r] BY <1>1 DEF MakeRow
  <2>2. NewDir \in RowDir /\ NewDir.dir =< clock + 1 BY DEF TypeOK, FilesOK, ProgramsOK, CopiesOK, HistoryOK, NewDir, RowDir
  <2>3. QED
    <3>1. FilesOK' BY <1>1, <2>1, <2>2, TypePut DEF MakeRow, GetTable, Known, TypeOK, FilesOK, ProgramsOK, CopiesOK, HistoryOK
    <3>2. ProgramsOK' BY <1>1, <2>1, <2>2, TypePut DEF MakeRow, GetTable, Known, Labels, TypeOK, FilesOK, ProgramsOK, CopiesOK, HistoryOK
    <3>3. CopiesOK' BY <1>1, <2>1, <2>2, TypePut DEF MakeRow, GetTable, Known, TypeOK, FilesOK, ProgramsOK, CopiesOK, HistoryOK
    <3>4. HistoryOK' BY <1>1, <2>1, <2>2, TypePut DEF MakeRow, GetTable, Known, TypeOK, FilesOK, ProgramsOK, CopiesOK, HistoryOK
    <3> QED BY <3>1, <3>2, <3>3, <3>4 DEF TypeOK
<1>2. CASE WriteRow(e)
  <2>1. Known(e) \in Schema BY <1>2 DEF WriteRow, Known, TypeOK, FilesOK, ProgramsOK, CopiesOK, HistoryOK
  <2>2. PICK r \in Rows : Put(e, r, Written(r, Known(e).columns)) /\ target' = [target EXCEPT ![e] = r]
    BY <1>2 DEF WriteRow
  <2>3. Written(r, Known(e).columns) \in RowDir /\ Written(r, Known(e).columns).dir =< clock + 1
    BY <2>1, TypeWritten DEF Schema
  <2>4. QED
    <3>1. FilesOK' BY <1>2, <2>1, <2>2, <2>3, TypePut DEF WriteRow, TypeOK, FilesOK, ProgramsOK, CopiesOK, HistoryOK
    <3>2. ProgramsOK' BY <1>2, <2>1, <2>2 DEF WriteRow, Labels, TypeOK, ProgramsOK
    <3>3. CopiesOK' BY <1>2, <2>1, <2>2, <2>3, TypePut DEF WriteRow, TypeOK, FilesOK, ProgramsOK, CopiesOK, HistoryOK
    <3>4. HistoryOK' BY <1>2, <2>1, <2>2, <2>3, TypePut DEF WriteRow, TypeOK, FilesOK, ProgramsOK, CopiesOK, HistoryOK
    <3> QED BY <3>1, <3>2, <3>3, <3>4 DEF TypeOK
<1>3. CASE RefreshRow(e)
  <2>1. FilesOK' BY <1>3 DEF RefreshRow, Contents, RowDir, TypeOK, FilesOK, ProgramsOK, CopiesOK, HistoryOK
  <2>2. ProgramsOK' BY <1>3 DEF RefreshRow, Contents, RowDir, Labels, TypeOK, FilesOK, ProgramsOK, CopiesOK, HistoryOK
  <2>3. CopiesOK'
    <3>1. Contents(target[e]) \in Nat BY <1>3 DEF RefreshRow, Contents, RowDir, TypeOK, FilesOK, ProgramsOK
    <3>2. PICK x \in Nat \cup {None} : duck' = duck \/ duck' = [duck EXCEPT ![e][target[e]] = x]
      BY <1>3, <3>1 DEF RefreshRow
    <3>3. target[e] \in Rows BY <1>3 DEF RefreshRow, TypeOK, ProgramsOK
    <3>4. duck' \in [Engines -> [Rows -> Nat \cup {None}]] BY <3>2, <3>3 DEF TypeOK, CopiesOK
    <3>5. result' \in [Engines -> {"none", "kept", "rebuilt", "failed"}] BY <1>3 DEF RefreshRow, TypeOK, CopiesOK
    <3> QED BY <1>3, <3>4, <3>5 DEF RefreshRow, TypeOK, CopiesOK
  <2>4. HistoryOK' BY <1>3 DEF RefreshRow, Contents, RowDir, TypeOK, FilesOK, ProgramsOK, CopiesOK, HistoryOK
  <2> QED BY <2>1, <2>2, <2>3, <2>4 DEF TypeOK
<1>4. CASE DeleteRow(e)
  <2>1. FilesOK' BY <1>4, TypePut DEF DeleteRow, TypeOK, FilesOK, ProgramsOK, CopiesOK, HistoryOK
  <2>2. ProgramsOK'
    <3>1. PICK r \in Rows : target' = [target EXCEPT ![e] = r] BY <1>4 DEF DeleteRow
    <3> QED BY <1>4, <3>1 DEF DeleteRow, Labels, TypeOK, ProgramsOK
  <2>3. CopiesOK' BY <1>4, TypePut DEF DeleteRow, TypeOK, FilesOK, ProgramsOK, CopiesOK, HistoryOK
  <2>4. HistoryOK' BY <1>4, TypePut DEF DeleteRow, TypeOK, FilesOK, ProgramsOK, CopiesOK, HistoryOK
  <2> QED BY <2>1, <2>2, <2>3, <2>4 DEF TypeOK
<1>5. CASE DeleteCopy(e)
  BY <1>5 DEF DeleteCopy, TypeOK, FilesOK, ProgramsOK, CopiesOK, HistoryOK, Labels
<1> QED BY <1>1, <1>2, <1>3, <1>4, <1>5 DEF RowOperation

LEMMA TypeNext == TypeOK /\ [Next]_vars => TypeOK'
<1> SUFFICES ASSUME TypeOK, [Next]_vars PROVE TypeOK' OBVIOUS
<1>1. CASE UNCHANGED vars BY <1>1 DEF vars, TypeOK, FilesOK, ProgramsOK, CopiesOK, HistoryOK
<1>2. CASE Scripts BY <1>2, TypeGenerateRow, TypeScripts DEF Scripts
<1>3. ASSUME NEW e \in Engines, Start(e) \/ Stop(e) \/ SmartLoad(e) \/ Rebuild(e) \/ BuildIndex(e)
                                \/ LoadFails(e) \/ RowOperation(e)
      PROVE TypeOK'
  BY <1>3, TypeStart, TypeStop, TypeSmartLoad, TypeBuildIndex, TypeLoadFails, TypeRowOperation
<1> QED BY <1>1, <1>2, <1>3 DEF Next

\* The types of the files, of the copies in DuckDB and of what the programs do
\* with them (pkg/duckdb/indexer.go), and that a program reads rows only during
\* a load.
THEOREM IndexerTypes == Spec => []TypeOK
<1>1. Init => TypeOK BY TypeInit
<1>2. TypeOK /\ [Next]_vars => TypeOK' BY TypeNext
<1>3. QED BY <1>1, <1>2, PTL DEF Spec
-----------------------------------------------------------------------------
(* The inductive invariant. *)

\* A program that does nothing keeps its invariant while the time passes.
LEMMA Bystander ==
  ASSUME TypeOK, NEW f \in Engines, EngineInv(f), UNCHANGED <<disk, meta>>,
         clock' \in Nat, clock =< clock',
         pc'[f] = pc[f], read'[f] = read[f], todo'[f] = todo[f], target'[f] = target[f],
         table'[f] = table[f], duck'[f] = duck[f], result'[f] = result[f],
         late'[f] = late[f], inplace'[f] = inplace[f], askew'[f] = askew[f]
  PROVE  EngineInv(f)'
<1>0. ComputeDataHash' = ComputeDataHash /\ Recorded' = Recorded /\ Recorded \subseteq Rows
  BY DEF ComputeDataHash, Recorded
<1>a. \A r \in Rows : Same(f, r)' <=> Same(f, r) BY DEF Same, OnDisk
<1>b. Loaded(f)' = Loaded(f) /\ Loaded(f) \subseteq Rows /\ (InUse(f)' <=> InUse(f)) BY DEF Loaded, InUse
<1>1. HashesPast(read[f])'
  BY DEF EngineInv, HashesPast, TypeOK, FilesOK, ProgramsOK, Meta
<1>2. TargetInv(f)' /\ TableInv(f)' BY <1>b DEF EngineInv, TargetInv, TableInv
<1>3. LoadInv(f)' BY <1>0, <1>a DEF EngineInv, LoadInv
<1>4. CheckInv(f)' BY <1>0, <1>b DEF EngineInv, CheckInv
<1>5. DescribesInv(f)' BY <1>0, <1>a DEF EngineInv, DescribesInv
<1>6. PartialInv(f)' BY <1>0, <1>a, <1>b DEF EngineInv, PartialInv
<1>7. DeletingInv(f)' /\ UseInv(f)' BY <1>0, <1>a, <1>b DEF EngineInv, DeletingInv, UseInv
<1> QED BY <1>1, <1>2, <1>3, <1>4, <1>5, <1>6, <1>7 DEF EngineInv

\* The metadata are another program's now.
LEMMA OthersMeta ==
  ASSUME TypeOK, NEW f \in Engines, EngineInv(f), UNCHANGED <<disk, clock>>,
         pc'[f] = pc[f], read'[f] = read[f], todo'[f] = todo[f], target'[f] = target[f],
         table'[f] = table[f], duck'[f] = duck[f], result'[f] = result[f],
         late'[f] = late[f], inplace'[f] = inplace[f], askew'[f] = "yes"
  PROVE  EngineInv(f)'
<1>0. UNCHANGED ComputeDataHash BY DEF ComputeDataHash
<1>a. \A r \in Rows : Same(f, r)' <=> Same(f, r) BY DEF Same, OnDisk
<1>b. InUse(f)' <=> InUse(f) BY DEF InUse
<1>1. HashesPast(read[f])' BY DEF EngineInv, HashesPast
<1>2. TargetInv(f)' /\ TableInv(f)' BY <1>b DEF EngineInv, TargetInv, TableInv
<1>3. LoadInv(f)' BY <1>0, <1>a DEF EngineInv, LoadInv
<1>4. CheckInv(f)' /\ DescribesInv(f)' /\ PartialInv(f)' /\ DeletingInv(f)'
  BY DEF CheckInv, DescribesInv, PartialInv, DeletingInv
<1>5. UseInv(f)' BY <1>a, <1>b DEF EngineInv, UseInv, TableInv
<1> QED BY <1>1, <1>2, <1>3, <1>4, <1>5 DEF EngineInv

\* What a change to row r says of any program f.
Overwrites(r, d) == d # None /\ disk[r] # None /\ d.dir = disk[r].dir

PutEffect(by, f, r, d) ==
  /\ disk'[r] = d /\ clock' = clock + 1 /\ clock \in Nat
  /\ late'[f] = IF f = by THEN late[f] ELSE late[f] \cup {r}
  /\ \A s \in Rows \ {r} : /\ disk'[s] = disk[s] /\ ComputeDataHash'[s] = ComputeDataHash[s]
                           /\ s \in inplace'[f] <=> s \in inplace[f]
  /\ askew[f] \in {"no", "partial", "yes"} /\ (askew'[f] = "no" <=> askew[f] = "no")
  /\ askew[f] = "yes" => askew'[f] = "yes"
  /\ IF Overwrites(r, d)
     THEN /\ ComputeDataHash'[r] = ComputeDataHash[r] /\ ComputeDataHash[r] # None
          /\ r \in inplace'[f] /\ askew'[f] = askew[f]
     ELSE /\ ComputeDataHash'[r] \in {None, clock + 1}
          /\ askew'[f] # "partial"

LEMMA PutFacts ==
  ASSUME TypeOK, NEW by, NEW f \in Engines, NEW r \in Rows, NEW d \in RowDir \cup {None},
         Put(by, r, d), d # None => d.dir = clock + 1 \/ Overwrites(r, d)
  PROVE  PutEffect(by, f, r, d)
<1>1. disk'[r] = d /\ clock' = clock + 1 /\ clock \in Nat
  BY DEF Put, TypeOK, FilesOK
<1>2. \A s \in Rows \ {r} : disk'[s] = disk[s]
  BY DEF Put, TypeOK, FilesOK
<1>3. \A s \in Rows : ComputeDataHash[s] = IF disk[s] = None THEN None ELSE disk[s].dir
  BY DEF ComputeDataHash
<1>4. \A s \in Rows : ComputeDataHash'[s] = IF disk'[s] = None THEN None ELSE disk'[s].dir
  BY DEF ComputeDataHash
<1>5. inplace'[f] = IF Overwrites(r, d) THEN inplace[f] \cup {r} ELSE inplace[f] \ {r}
  BY DEF Put, Overwrites
<1>6. askew'[f] = IF askew[f] = "partial" /\ ~Overwrites(r, d) THEN "yes" ELSE askew[f]
  BY DEF Put, Overwrites
<1>7. askew[f] \in {"no", "partial", "yes"} BY DEF TypeOK, HistoryOK
<1>8. late'[f] = IF f = by THEN late[f] ELSE late[f] \cup {r} BY DEF Put
<1>9. CASE Overwrites(r, d)
  <2>1. disk[r].dir # None BY <1>9 DEF Overwrites, TypeOK, FilesOK, RowDir
  <2>2. QED BY <1>1, <1>2, <1>3, <1>4, <1>5, <1>6, <1>7, <1>8, <1>9, <2>1 DEF Overwrites, PutEffect
<1>10. CASE ~Overwrites(r, d)
  BY <1>1, <1>2, <1>3, <1>4, <1>5, <1>6, <1>7, <1>8, <1>10 DEF PutEffect
<1> QED BY <1>9, <1>10

\* The metadata's own invariants do not ask what the program is doing.
LEMMA PutDescribes ==
  ASSUME TypeOK, NEW by, NEW f \in Engines, NEW r \in Rows, NEW d \in RowDir \cup {None},
         Put(by, r, d), d # None => d.dir = clock + 1 \/ Overwrites(r, d),
         EngineInv(f), HashesPast(meta), UNCHANGED meta, duck'[f] = duck[f]
  PROVE  DescribesInv(f)'
<1> SUFFICES ASSUME f \in Persistent, meta # None, askew'[f] = "no"
             PROVE  /\ meta.rows = Cardinality(Recorded)
                    /\ \A s \in Recorded : meta.data[s] = ComputeDataHash'[s] =>
                         duck[f][s] # None /\ (s \notin inplace'[f] => Same(f, s)')
  BY DEF DescribesInv, Recorded
<1>0. PutEffect(by, f, r, d) BY PutFacts
<1>1. askew[f] = "no" BY <1>0 DEF PutEffect
<1>2. /\ meta.rows = Cardinality(Recorded)
      /\ \A s \in Recorded : meta.data[s] = ComputeDataHash[s] =>
                         duck[f][s] # None /\ (s \notin inplace[f] => Same(f, s))
  BY <1>1 DEF EngineInv, DescribesInv
<1>3. ASSUME NEW s \in Recorded, meta.data[s] = ComputeDataHash'[s]
      PROVE  duck[f][s] # None /\ (s \notin inplace'[f] => Same(f, s)')
  <2>1. CASE s # r
    <3>1. s \in Rows \ {r} BY <2>1 DEF Recorded
    <3>2. Same(f, s)' <=> Same(f, s) BY <3>1, <1>0 DEF Same, OnDisk, PutEffect
    <3>3. QED BY <1>2, <1>3, <3>1, <3>2, <1>0 DEF PutEffect
  <2>2. CASE s = r /\ Overwrites(r, d)
    BY <1>2, <1>3, <2>2, <1>0 DEF PutEffect
  <2>3. CASE s = r /\ ~Overwrites(r, d)
    <3>1. meta.data[r] \in Nat /\ meta.data[r] =< clock
      BY <1>3, <2>3 DEF Recorded, HashesPast, TypeOK, FilesOK, Meta
    <3>2. ComputeDataHash'[r] \in {None, clock + 1} /\ clock \in Nat BY <2>3, <1>0 DEF PutEffect
    <3>3. meta.data[r] # None BY <1>3, <2>3 DEF Recorded
    <3>4. QED BY <1>3, <2>3, <3>1, <3>2, <3>3
  <2> QED BY <2>1, <2>2, <2>3
<1> QED BY <1>2, <1>3

LEMMA PutPartial ==
  ASSUME TypeOK, NEW by, NEW f \in Engines, NEW r \in Rows, NEW d \in RowDir \cup {None},
         Put(by, r, d), d # None => d.dir = clock + 1 \/ Overwrites(r, d),
         EngineInv(f), UNCHANGED meta, duck'[f] = duck[f], todo'[f] = todo[f],
         f \in Persistent, meta # None, askew'[f] = "partial"
  PROVE  /\ Overwrites(r, d) /\ r \in Recorded /\ pc[f] \notin {"write", "delete"}
         /\ pc[f] = "refresh" => target[f] \in Recorded
         /\ meta.rows = Cardinality(Recorded)
         /\ \A s \in Rows : meta.data[s] = ComputeDataHash'[s]
         /\ todo'[f] \cup Loaded(f)' \subseteq Recorded
         /\ \A s \in Loaded(f)' \ inplace'[f] : Same(f, s)'
<1>0. PutEffect(by, f, r, d) BY PutFacts
<1>1. Overwrites(r, d) /\ askew[f] = "partial" BY <1>0 DEF PutEffect
<1>2. PartialInv(f) BY DEF EngineInv
<1>3. Loaded(f)' = Loaded(f) /\ Loaded(f) \subseteq Rows BY DEF Loaded
<1>4. \A s \in Rows : ComputeDataHash'[s] = ComputeDataHash[s] BY <1>1, <1>0 DEF PutEffect
<1>5. r \in Recorded
  BY <1>1, <1>2, <1>0 DEF PartialInv, Recorded, PutEffect
<1>6. ASSUME NEW s \in Loaded(f), s \notin inplace'[f] PROVE Same(f, s)'
  <2>1. s \in Rows \ {r} /\ s \notin inplace[f] BY <1>1, <1>3, <1>6, <1>0 DEF PutEffect
  <2>2. Same(f, s) BY <1>1, <1>2, <1>6, <2>1 DEF PartialInv
  <2>3. QED BY <2>1, <2>2, <1>0 DEF Same, OnDisk, PutEffect
<1> QED BY <1>1, <1>2, <1>3, <1>4, <1>5, <1>6 DEF PartialInv

\* Another program's invariant survives a change to a row.
LEMMA PutOthers ==
  ASSUME TypeOK, NEW by, NEW f \in Engines, NEW r \in Rows, NEW d \in RowDir \cup {None},
         Put(by, r, d), d # None => d.dir = clock + 1 \/ Overwrites(r, d),
         EngineInv(f), HashesPast(meta), UNCHANGED meta,
         by # f, pc'[f] = pc[f], read'[f] = read[f], todo'[f] = todo[f], target'[f] = target[f],
         table'[f] = table[f], duck'[f] = duck[f], result'[f] = result[f]
  PROVE  EngineInv(f)'
<1>0. PutEffect(by, f, r, d) BY PutFacts
<1>1. /\ late'[f] = late[f] \cup {r} /\ late[f] \subseteq Rows
      /\ \A s \in Rows \ late'[f] : /\ s \notin late[f] /\ disk'[s] = disk[s]
                                    /\ ComputeDataHash'[s] = ComputeDataHash[s]
                                    /\ s \in inplace'[f] <=> s \in inplace[f]
                                    /\ Same(f, s)' <=> Same(f, s)
  BY <1>0 DEF PutEffect, TypeOK, HistoryOK, Same, OnDisk
<1>2. HashesPast(read[f])'
  BY <1>0 DEF PutEffect, EngineInv, HashesPast, TypeOK, ProgramsOK, Meta
<1>3. TargetInv(f)'
  <2> SUFFICES ASSUME target[f] # None, target[f] \notin late'[f]
               PROVE  disk'[target[f]] = None <=> pc[f] = "delete"
    BY DEF TargetInv
  <2>1. target[f] \in Rows BY DEF TypeOK, ProgramsOK
  <2>2. QED BY <1>1, <2>1 DEF EngineInv, TargetInv
<1>4. TableInv(f)' BY DEF EngineInv, TableInv, InUse
<1>5. LoadInv(f)' BY <1>1 DEF EngineInv, LoadInv
<1>6. CheckInv(f)'
  <2>1. Recorded' = Recorded /\ Loaded(f)' = Loaded(f) BY DEF Recorded, Loaded
  <2>2. (askew'[f] # "yes" => askew[f] # "yes") /\ (askew'[f] = "no" => askew[f] = "no")
    BY <1>0 DEF PutEffect
  <2>3. late[f] = Rows => late'[f] = Rows BY <1>1
  <2>4. QED BY <1>1, <2>1, <2>2, <2>3 DEF EngineInv, CheckInv
<1>7. DescribesInv(f)' BY PutDescribes
<1>8. PartialInv(f)'
  <2> SUFFICES ASSUME f \in Persistent, meta # None, askew'[f] = "partial" PROVE PartialInv(f)'
    BY DEF PartialInv
  <2>1. Recorded' = Recorded BY DEF Recorded
  <2>2. QED BY <2>1, PutPartial DEF PartialInv
<1>9. DeletingInv(f)'
  <2> SUFFICES ASSUME f \in Persistent, meta # None, askew'[f] = "no", pc[f] = "delete", target[f] \in Recorded
               PROVE  meta.data[target[f]] # ComputeDataHash'[target[f]]
    BY DEF DeletingInv, Recorded
  <2>1. meta.data[target[f]] # ComputeDataHash[target[f]]
    BY <1>0 DEF PutEffect, EngineInv, DeletingInv
  <2>2. target[f] \in Rows /\ meta.data[target[f]] # None BY DEF Recorded
  <2>3. meta.data[target[f]] \in Nat /\ meta.data[target[f]] =< clock
    BY <2>2 DEF HashesPast, TypeOK, FilesOK, Meta
  <2>4. CASE target[f] # r BY <1>0, <2>1, <2>2, <2>4 DEF PutEffect
  <2>5. CASE target[f] = r BY <1>0, <2>1, <2>2, <2>3, <2>5 DEF PutEffect
  <2> QED BY <2>4, <2>5
<1>10. UseInv(f)'
  <2>1. askew[f] = "yes" => askew'[f] = "yes" BY <1>0 DEF PutEffect
  <2>2. QED BY <1>1, <2>1 DEF EngineInv, UseInv, InUse
<1> QED BY <1>2, <1>3, <1>4, <1>5, <1>6, <1>7, <1>8, <1>9, <1>10 DEF EngineInv

\* A program's own change to the row it works on.
LEMMA PutOwn ==
  ASSUME TypeOK, NEW f \in Engines, NEW r \in Rows, NEW d \in RowDir \cup {None},
         Put(f, r, d), d # None => d.dir = clock + 1 \/ Overwrites(r, d),
         EngineInv(f), HashesPast(meta), UNCHANGED meta,
         pc[f] = "up" \/ (pc[f] = "write" /\ target[f] = r),
         target'[f] = r, pc'[f] \in {"write", "refresh", "delete"},
         (d = None) <=> (pc'[f] = "delete"), Overwrites(r, d) => pc'[f] = "refresh",
         read'[f] = read[f], todo'[f] = todo[f],
         table'[f] = table[f], duck'[f] = duck[f], result'[f] = result[f]
  PROVE  EngineInv(f)'
<1>0. PutEffect(f, f, r, d) BY PutFacts
<1>1. /\ late'[f] = late[f] /\ disk'[r] = d
      /\ \A s \in Rows \ {r} : /\ s \in inplace'[f] <=> s \in inplace[f]
                               /\ Same(f, s)' <=> Same(f, s)
  BY <1>0 DEF PutEffect, Same, OnDisk
<1>2. HashesPast(read[f])'
  BY <1>0 DEF PutEffect, EngineInv, HashesPast, TypeOK, ProgramsOK, Meta
<1>3. TargetInv(f)' BY <1>1 DEF TargetInv
<1>4. TableInv(f)' BY DEF EngineInv, TableInv, InUse
<1>5. LoadInv(f)' /\ CheckInv(f)' BY DEF LoadInv, CheckInv
<1>6. DescribesInv(f)' BY PutDescribes
<1>7. PartialInv(f)'
  <2> SUFFICES ASSUME f \in Persistent, meta # None, askew'[f] = "partial" PROVE PartialInv(f)'
    BY DEF PartialInv
  <2>1. Recorded' = Recorded BY DEF Recorded
  <2>2. QED BY <2>1, PutPartial DEF PartialInv
<1>8. DeletingInv(f)'
  <2>1. pc'[f] = "delete" => ComputeDataHash'[r] = None BY <1>1 DEF ComputeDataHash
  <2>2. QED BY <2>1 DEF DeletingInv, Recorded
<1>9. UseInv(f)'
  <2>1. askew[f] = "yes" => askew'[f] = "yes" BY <1>0 DEF PutEffect
  <2>2. target[f] \in {None, r} BY DEF TypeOK, ProgramsOK
  <2>3. InUse(f)' => InUse(f) BY DEF InUse
  <2>4. QED BY <1>1, <2>1, <2>2, <2>3 DEF EngineInv, UseInv
<1> QED BY <1>2, <1>3, <1>4, <1>5, <1>6, <1>7, <1>8, <1>9 DEF EngineInv
-----------------------------------------------------------------------------
(* The actions keep the invariant. *)

LEMMA InvPut ==
  ASSUME IInv, NEW by, NEW r \in Rows, NEW d \in RowDir \cup {None},
         Put(by, r, d), d # None => d.dir = clock + 1 \/ Overwrites(r, d), UNCHANGED meta
  PROVE  HashesPast(meta)'
<1>1. clock \in Nat /\ clock' = clock + 1 /\ meta \in Meta \cup {None}
  BY DEF IInv, TypeOK, FilesOK, Put
<1>2. ASSUME NEW s \in Rows, meta # None, meta.data[s] # None PROVE meta.data[s] =< clock'
  <2>1. meta.data[s] \in Nat BY <1>1, <1>2 DEF Meta
  <2>2. meta.data[s] =< clock BY <1>2 DEF IInv, HashesPast
  <2>3. QED BY <1>1, <2>1, <2>2
<1>3. QED BY <1>2 DEF HashesPast

LEMMA InvGenerateRow == ASSUME IInv, GenerateRow PROVE IInv'
<1>1. PICK r \in Rows, d \in RowDir : Put(None, r, d) /\ (d.dir = clock + 1 \/ Overwrites(r, d))
  <2>1. schema.columns \in Columns BY DEF GenerateRow, IInv, TypeOK, FilesOK, Schema
  <2>2. NewDir.dir = clock + 1 BY DEF NewDir
  <2>3. \A s \in Rows : disk[s] # None /\ disk[s].file = 0 =>
          Written(s, schema.columns).dir = clock + 1
    BY DEF Written
  <2>4. QED BY <2>1, <2>2, <2>3, TypeWritten DEF GenerateRow, IInv
<1>2. ASSUME NEW f \in Engines PROVE EngineInv(f)'
  <2>1. None # f OBVIOUS
  <2>2. QED BY <1>1, <2>1, PutOthers DEF GenerateRow, IInv
<1> QED BY <1>1, <1>2, InvPut, TypeGenerateRow DEF IInv, GenerateRow

\* The time passes, and the schema changes.
LEMMA InvSchema == ASSUME IInv, UpdateSchemaTimestamp \/ WriteSchema PROVE IInv'
<1>1. clock \in Nat /\ clock' = clock + 1 /\ UNCHANGED <<disk, meta, pc, local, copy, result, late, inplace, askew>>
  BY DEF UpdateSchemaTimestamp, WriteSchema, TouchAll, IInv, TypeOK, FilesOK
<1>2. ASSUME NEW f \in Engines PROVE EngineInv(f)'
  BY <1>1, Bystander DEF IInv
<1>3. HashesPast(meta)'
  <2>1. meta' = meta /\ meta \in Meta \cup {None} /\ HashesPast(meta)
    BY <1>1 DEF IInv, TypeOK, FilesOK
  <2>2. ASSUME meta # None, NEW r \in Rows, meta.data[r] # None PROVE meta.data[r] =< clock + 1
    <3>1. meta.data[r] \in Nat
      BY <2>1, <2>2 DEF Meta
    <3>2. meta.data[r] =< clock
      BY <2>1, <2>2 DEF HashesPast
    <3> QED BY <1>1, <3>1, <3>2
  <2> QED BY <1>1, <2>1, <2>2 DEF HashesPast
<1>4. TypeOK' BY TypeScripts DEF IInv
<1> QED BY <1>2, <1>3, <1>4 DEF IInv

LEMMA InvCleanData == ASSUME IInv, CleanData PROVE IInv'
<1>1. /\ clock \in Nat /\ clock' = clock + 1 /\ meta' = None
      /\ \A f \in Engines : late'[f] = Rows
      /\ UNCHANGED <<pc, local, copy, result>>
  BY DEF CleanData, TouchAll, IInv, TypeOK, FilesOK
<1>2. ASSUME NEW f \in Engines PROVE EngineInv(f)'
  <2>1. EngineInv(f) /\ late'[f] = Rows /\ pc \in [Engines -> Labels] /\ target \in [Engines -> Rows \cup {None}]
    BY <1>1 DEF IInv, TypeOK, ProgramsOK
  <2>2. HashesPast(read[f])'
    BY <1>1 DEF IInv, EngineInv, HashesPast, TypeOK, ProgramsOK, Meta
  <2>3. TargetInv(f)' /\ TableInv(f)' BY <1>1, <2>1 DEF EngineInv, TargetInv, TableInv, InUse
  <2>4. LoadInv(f)' /\ UseInv(f)' BY <2>1 DEF LoadInv, UseInv
  <2>5. CheckInv(f)' /\ DescribesInv(f)' /\ PartialInv(f)' /\ DeletingInv(f)'
    BY <1>1, <2>1 DEF CheckInv, DescribesInv, PartialInv, DeletingInv
  <2> QED BY <2>2, <2>3, <2>4, <2>5 DEF EngineInv
<1>3. HashesPast(meta)' BY <1>1 DEF HashesPast
<1>4. TypeOK' BY TypeScripts DEF IInv
<1> QED BY <1>2, <1>3, <1>4 DEF IInv

\* A step of program e that leaves the files and the metadata alone.
LEMMA OwnStep ==
  ASSUME IInv, NEW e \in Engines, UNCHANGED shared, TypeOK', EngineInv(e)',
         \A f \in Engines \ {e} :
           /\ pc'[f] = pc[f] /\ read'[f] = read[f] /\ todo'[f] = todo[f] /\ target'[f] = target[f]
           /\ table'[f] = table[f] /\ duck'[f] = duck[f] /\ result'[f] = result[f]
           /\ late'[f] = late[f] /\ inplace'[f] = inplace[f] /\ askew'[f] = askew[f]
  PROVE  IInv'
<1>1. clock \in Nat /\ clock' = clock BY DEF IInv, TypeOK, FilesOK
<1>2. ASSUME NEW f \in Engines, f # e PROVE EngineInv(f)'
  BY <1>1, <1>2, Bystander DEF IInv
<1>3. HashesPast(meta)' BY DEF IInv, HashesPast
<1> QED BY <1>2, <1>3 DEF IInv

LEMMA InvRowChange ==
  ASSUME IInv, NEW e \in Engines, MakeRow(e) \/ WriteRow(e) \/ DeleteRow(e) PROVE IInv'
<1>0. pc \in [Engines -> Labels] /\ target \in [Engines -> Rows \cup {None}]
  BY DEF IInv, TypeOK, ProgramsOK
<1> DEFINE Changes(r, d, l) ==
      /\ Put(e, r, d) /\ (d # None => d.dir = clock + 1 \/ Overwrites(r, d))
      /\ (pc[e] = "up" \/ (pc[e] = "write" /\ target[e] = r))
      /\ target' = [target EXCEPT ![e] = r]
      /\ pc' = [pc EXCEPT ![e] = l]
      /\ (d = None) <=> (l = "delete")
      /\ Overwrites(r, d) => l = "refresh"
<1>1. \E r \in Rows, d \in RowDir \cup {None}, l \in {"write", "refresh", "delete"} : Changes(r, d, l)
  <2>1. CASE MakeRow(e)
    <3>1. PICK r \in Rows : disk[r] = None /\ Put(e, r, NewDir) /\ target' = [target EXCEPT ![e] = r]
      BY <2>1 DEF MakeRow
    <3>2. NewDir \in RowDir /\ NewDir.dir = clock + 1 BY DEF IInv, TypeOK, FilesOK, NewDir, RowDir
    <3>3. NewDir # None BY <3>2
    <3>4. Changes(r, NewDir, "write") BY <2>1, <3>1, <3>2, <3>3 DEF MakeRow, Overwrites
    <3>5. QED BY <3>2, <3>4
  <2>2. CASE WriteRow(e)
    <3>1. Known(e) \in Schema BY <2>2 DEF WriteRow, Known, IInv, TypeOK, FilesOK, ProgramsOK
    <3>2. PICK r \in Rows : /\ (pc[e] = "up" \/ (pc[e] = "write" /\ target[e] = r))
                            /\ Put(e, r, Written(r, Known(e).columns))
                            /\ target' = [target EXCEPT ![e] = r]
      BY <2>2 DEF WriteRow
    <3> DEFINE d == Written(r, Known(e).columns)
    <3>3. d \in RowDir /\ d # None BY <3>1, TypeWritten DEF IInv, Schema
    <3>4. d.dir = clock + 1 \/ Overwrites(r, d) BY <3>3 DEF Written, Overwrites
    <3>5. pc' = [pc EXCEPT ![e] = "refresh"] BY <2>2 DEF WriteRow
    <3>6. Changes(r, d, "refresh") BY <3>2, <3>3, <3>4, <3>5
    <3>7. QED BY <3>3, <3>6
  <2>3. CASE DeleteRow(e)
    <3>1. PICK r \in Rows : Put(e, r, None) /\ target' = [target EXCEPT ![e] = r]
      BY <2>3 DEF DeleteRow
    <3>2. Changes(r, None, "delete") BY <2>3, <3>1 DEF DeleteRow, Overwrites
    <3>3. QED BY <3>2
  <2> QED BY <2>1, <2>2, <2>3
<1>2. UNCHANGED <<meta, read, todo, copy, result>> BY DEF MakeRow, WriteRow, DeleteRow
<1>3. PICK r \in Rows, d \in RowDir \cup {None}, l \in {"write", "refresh", "delete"} : Changes(r, d, l)
  BY <1>1
<1>4. EngineInv(e)'
  <2>1. target'[e] = r /\ pc'[e] = l BY <1>0, <1>3
  <2>2. QED BY <1>2, <1>3, <2>1, PutOwn DEF IInv
<1>5. ASSUME NEW f \in Engines, f # e PROVE EngineInv(f)'
  <2>1. pc'[f] = pc[f] /\ target'[f] = target[f] BY <1>0, <1>3, <1>5
  <2>2. QED BY <1>2, <1>3, <1>5, <2>1, PutOthers DEF IInv
<1>6. HashesPast(meta)' BY <1>2, <1>3, InvPut
<1>7. TypeOK' BY TypeRowOperation DEF IInv, RowOperation
<1> QED BY <1>4, <1>5, <1>6, <1>7 DEF IInv
\* The types of one program's variables.
LEMMA Typed ==
  ASSUME TypeOK, NEW e \in Engines
  PROVE  /\ pc \in [Engines -> Labels] /\ cached \in [Engines -> Schema \cup {None}]
         /\ read \in [Engines -> Meta \cup {None}] /\ todo \in [Engines -> SUBSET Rows]
         /\ target \in [Engines -> Rows \cup {None}] /\ table \in [Engines -> Columns \cup {None}]
         /\ duck \in [Engines -> [Rows -> Nat \cup {None}]]
         /\ result \in [Engines -> {"none", "kept", "rebuilt", "failed"}]
         /\ late \in [Engines -> SUBSET Rows] /\ inplace \in [Engines -> SUBSET Rows]
         /\ askew \in [Engines -> {"no", "partial", "yes"}]
         /\ Loaded(e) \subseteq Rows /\ Recorded \subseteq Rows
BY DEF TypeOK, ProgramsOK, CopiesOK, HistoryOK, Loaded, Recorded

LEMMA SameFiles ==
  ASSUME NEW e \in Engines, UNCHANGED shared
  PROVE  /\ ComputeDataHash' = ComputeDataHash /\ Recorded' = Recorded
         /\ \A r \in Rows : duck'[e][r] = duck[e][r] => (Same(e, r)' <=> Same(e, r))
         /\ duck'[e] = duck[e] => Loaded(e)' = Loaded(e)
BY DEF ComputeDataHash, Recorded, Same, OnDisk, Loaded

\* Program e goes from one step of a load to another, to or from a stop.
LEMMA Moves ==
  ASSUME TypeOK, NEW e \in Engines, EngineInv(e), UNCHANGED shared,
         target'[e] = target[e], todo'[e] = todo[e], duck'[e] = duck[e], table'[e] = table[e],
         result'[e] = result[e], inplace'[e] = inplace[e], askew'[e] = askew[e],
         late'[e] \in {late[e], {}}, HashesPast(read'[e]),
         pc[e] \in {"down", "meta", "schema", "data", "verify", "up"},
         pc'[e] \in {"meta", "schema", "data", "verify", "create"},
         pc[e] = "up" => pc'[e] = "create",
         CheckInv(e)'
  PROVE  EngineInv(e)'
<1>1. HashesPast(read[e])' BY DEF HashesPast
<1>2. TargetInv(e)' BY DEF TypeOK, ProgramsOK, TargetInv
<1>3. TableInv(e)' BY DEF EngineInv, TableInv, InUse
<1>4. LoadInv(e)' /\ UseInv(e)' /\ DeletingInv(e)' BY DEF LoadInv, UseInv, InUse, DeletingInv
<1>5. DescribesInv(e)' BY SameFiles, Typed DEF EngineInv, DescribesInv
<1>6. PartialInv(e)' BY SameFiles, Typed DEF EngineInv, PartialInv
<1> QED BY <1>1, <1>2, <1>3, <1>4, <1>5, <1>6 DEF EngineInv

LEMMA InvStart == ASSUME IInv, NEW e \in Engines, Start(e) \/ Rebuild(e) PROVE IInv'
<1>0. TypeOK /\ EngineInv(e) BY DEF IInv
<1>1. /\ UNCHANGED <<shared, local, copy, result, inplace, askew>>
      /\ late' = [late EXCEPT ![e] = {}]
      /\ \/ pc[e] = "down" /\ pc' = [pc EXCEPT ![e] = "meta"]
         \/ pc[e] = "up" /\ pc' = [pc EXCEPT ![e] = "create"]
  BY DEF Start, Rebuild
<1>2. CheckInv(e)' BY <1>0, <1>1, Typed DEF CheckInv
<1>3. EngineInv(e)'
  <2>1. HashesPast(read'[e]) BY <1>0, <1>1 DEF EngineInv
  <2>2. pc'[e] \in {"meta", "create"} /\ (pc[e] = "up" => pc'[e] = "create") /\ late'[e] = {}
    BY <1>0, <1>1, Typed
  <2>3. QED BY <1>0, <1>1, <1>2, <2>1, <2>2, Moves
<1>4. TypeOK' BY <1>0, TypeStart
<1>5. QED BY <1>0, <1>1, <1>3, <1>4, Typed, OwnStep

LEMMA InvStop == ASSUME IInv, NEW e \in Engines, Stop(e) PROVE IInv'
<1>0. TypeOK /\ EngineInv(e) BY DEF IInv
<1>1. /\ UNCHANGED <<shared, history>> /\ pc'[e] = "down" /\ read'[e] = None /\ todo'[e] = {}
      /\ target'[e] = None /\ result'[e] = "none"
      /\ e \in Persistent => duck'[e] = duck[e]
      /\ e \notin Persistent => table'[e] = None
  BY <1>0, Typed DEF Stop
<1>2. HashesPast(read[e])' /\ TargetInv(e)' /\ LoadInv(e)' /\ CheckInv(e)' /\ DeletingInv(e)' /\ UseInv(e)'
  BY <1>1 DEF HashesPast, TargetInv, LoadInv, CheckInv, DeletingInv, UseInv, InUse
<1>3. TableInv(e)' BY <1>1 DEF TableInv, InUse
<1>4. DescribesInv(e)' BY <1>0, <1>1, SameFiles, Typed DEF EngineInv, DescribesInv
<1>5. PartialInv(e)' BY <1>0, <1>1, SameFiles, Typed DEF EngineInv, PartialInv
<1>6. EngineInv(e)' BY <1>2, <1>3, <1>4, <1>5 DEF EngineInv
<1>7. TypeOK' BY <1>0, TypeStop
<1>8. ASSUME NEW f \in Engines, f # e
      PROVE  /\ pc'[f] = pc[f] /\ read'[f] = read[f] /\ todo'[f] = todo[f] /\ target'[f] = target[f]
             /\ table'[f] = table[f] /\ duck'[f] = duck[f] /\ result'[f] = result[f]
  BY <1>0, <1>8, Typed DEF Stop
<1>9. QED BY <1>1, <1>6, <1>7, <1>8, OwnStep

LEMMA InvCheck ==
  ASSUME IInv, NEW e \in Engines, GetIndexMeta(e) \/ CheckSchemaHash(e) \/ CheckDataHash(e) PROVE IInv'
<1>0. TypeOK /\ EngineInv(e) /\ HashesPast(meta) BY DEF IInv
<1>1. /\ UNCHANGED <<shared, todo, target, copy, result, history>>
      /\ \E m \in {read[e], meta} : read' = [read EXCEPT ![e] = m]
      /\ \E l \in {"create", "schema", "data", "verify"} : pc' = [pc EXCEPT ![e] = l]
      /\ pc[e] \in {"meta", "schema", "data"}
  <2>1. read = [read EXCEPT ![e] = read[e]] BY <1>0, Typed
  <2>2. QED BY <2>1 DEF GetIndexMeta, CheckSchemaHash, CheckDataHash
<1>2. CheckInv(e)'
  <2>1. CASE GetIndexMeta(e)
    <3>1. pc'[e] # "create" => pc'[e] = "schema" /\ meta # None /\ read'[e] = meta
      BY <1>0, <2>1, Typed DEF GetIndexMeta
    <3>2. QED BY <1>1, <3>1 DEF CheckInv
  <2>2. CASE CheckSchemaHash(e)
    <3>1. pc[e] = "schema" /\ pc'[e] \in {"create", "data"} /\ UNCHANGED <<read, askew, late>>
      BY <1>0, <2>2, Typed DEF CheckSchemaHash
    <3>2. QED BY <1>0, <1>1, <3>1 DEF CheckInv, EngineInv
  <2>3. CASE CheckDataHash(e)
    <3>1. /\ pc[e] = "data" /\ UNCHANGED <<read, askew, late, duck>>
          /\ pc'[e] = "create" \/ (pc'[e] = "verify" /\ read[e].data = ComputeDataHash)
      BY <1>0, <2>3, Typed DEF CheckDataHash
    <3> SUFFICES ASSUME e \in Persistent, pc'[e] = "verify", askew[e] # "yes", meta # None
                 PROVE  /\ \A r \in Rows \ late[e] : meta.data[r] = ComputeDataHash[r]
                        /\ askew[e] = "no" => Recorded \subseteq Loaded(e)
      BY <1>0, <1>1, <3>1, SameFiles DEF CheckInv, EngineInv
    <3>2. meta.data = ComputeDataHash BY <1>0, <3>1 DEF CheckInv, EngineInv
    <3>3. askew[e] = "no" => Recorded \subseteq Loaded(e)
      BY <1>0, <3>2, Typed DEF EngineInv, DescribesInv, Loaded
    <3>4. QED BY <3>2, <3>3
  <2> QED BY <2>1, <2>2, <2>3
<1>3. EngineInv(e)'
  <2>1. HashesPast(read'[e]) BY <1>0, <1>1, Typed DEF EngineInv
  <2>2. pc'[e] \in {"create", "schema", "data", "verify"} BY <1>0, <1>1, Typed
  <2>3. QED BY <1>0, <1>1, <1>2, <2>1, <2>2, Moves
<1>4. TypeOK' BY <1>0, TypeSmartLoad DEF SmartLoad
<1>5. QED BY <1>0, <1>1, <1>3, <1>4, Typed, OwnStep
\* Two sets of rows of one size, one in the other, are the same.
LEMMA SameCount ==
  ASSUME NEW S \in SUBSET Rows, NEW T \in SUBSET Rows, S \subseteq T, Cardinality(S) = Cardinality(T)
  PROVE  S = T
<1>1. IsFiniteSet(T) BY FS_Subset
<1>2. SUFFICES ASSUME S # T PROVE FALSE OBVIOUS
<1>3. Cardinality(S) < Cardinality(T) BY <1>1, <1>2, FS_Subset
<1>4. QED BY <1>1, <1>3, FS_CardinalityType

\* What a copy that is kept looks like: but for changes the metadata cannot show,
\* it is the files'.
LEMMA KeptCopy ==
  ASSUME TypeOK, NEW e \in Engines, EngineInv(e), pc[e] = "verify", e \in Persistent,
         meta = None \/ Cardinality(Loaded(e)) = meta.rows, askew[e] # "yes",
         NEW r \in Rows, r \notin late[e], r \notin inplace[e]
  PROVE  Same(e, r)
<1>1. /\ meta # None /\ meta.data[r] = ComputeDataHash[r]
      /\ askew[e] = "no" => Recorded \subseteq Loaded(e)
  BY DEF EngineInv, CheckInv
<1>2. askew[e] \in {"no", "partial"} BY DEF TypeOK, HistoryOK
<1>3. meta.rows = Cardinality(Recorded)
  BY <1>1, <1>2 DEF EngineInv, DescribesInv, PartialInv
<1>4. Recorded = Loaded(e)
  <2>1. Recorded \subseteq Rows /\ Loaded(e) \subseteq Rows BY Typed
  <2>2. CASE askew[e] = "no" BY <1>1, <1>3, <2>1, <2>2, SameCount
  <2>3. CASE askew[e] = "partial"
    <3>1. Loaded(e) \subseteq Recorded BY <1>1, <2>3 DEF EngineInv, PartialInv
    <3>2. QED BY <1>1, <1>3, <2>1, <3>1, SameCount
  <2> QED BY <1>2, <2>2, <2>3
<1>5. CASE r \in Recorded
  <2>1. CASE askew[e] = "no" BY <1>1, <1>5, <2>1 DEF EngineInv, DescribesInv
  <2>2. CASE askew[e] = "partial" BY <1>1, <1>4, <1>5, <2>2 DEF EngineInv, PartialInv
  <2> QED BY <1>2, <2>1, <2>2
<1>6. CASE r \notin Recorded
  <2>1. ComputeDataHash[r] = None BY <1>1, <1>6 DEF Recorded
  <2>2. disk[r] = None BY <2>1 DEF ComputeDataHash, TypeOK, FilesOK, RowDir
  <2>3. duck[e][r] = None BY <1>4, <1>6 DEF Loaded
  <2>4. QED BY <2>2, <2>3 DEF Same, OnDisk
<1> QED BY <1>5, <1>6

LEMMA InvVerifyCopy == ASSUME IInv, NEW e \in Engines, VerifyCopy(e) PROVE IInv'
<1>0. TypeOK /\ EngineInv(e) BY DEF IInv
<1>1. UNCHANGED <<shared, cached, target, copy, history>> /\ pc[e] = "verify" BY DEF VerifyCopy
<1>2. EngineInv(e)'
  <2>1. CASE table[e] = None \/ (meta # None /\ Cardinality(Loaded(e)) # meta.rows)
    <3>1. UNCHANGED <<read, todo, result>> /\ pc'[e] = "create"
      BY <1>0, <2>1, Typed DEF VerifyCopy
    <3>2. CheckInv(e)' BY <3>1 DEF CheckInv
    <3>3. HashesPast(read'[e]) BY <1>0, <3>1 DEF EngineInv
    <3>4. QED BY <1>0, <1>1, <3>1, <3>2, <3>3, Moves
  <2>2. CASE table[e] # None /\ (meta = None \/ Cardinality(Loaded(e)) = meta.rows)
    <3>1. /\ pc'[e] = "up" /\ result'[e] = "kept" /\ read'[e] = None /\ todo'[e] = {}
      BY <1>0, <2>2, Typed DEF VerifyCopy, End
    <3>2. e \in Persistent BY <1>0, <1>1, <2>2 DEF EngineInv, TableInv
    <3>3. HashesPast(read[e])' /\ TargetInv(e)' /\ LoadInv(e)' /\ CheckInv(e)' /\ DeletingInv(e)'
      BY <1>0, <1>1, <3>1 DEF HashesPast, TypeOK, ProgramsOK, TargetInv, LoadInv, CheckInv, DeletingInv
    <3>4. TableInv(e)' BY <1>1, <2>2, <3>1, <3>2 DEF TableInv
    <3>5. DescribesInv(e)' BY <1>0, <1>1, SameFiles, Typed DEF EngineInv, DescribesInv
    <3>6. PartialInv(e)' BY <1>0, <1>1, <3>1, SameFiles, Typed DEF EngineInv, PartialInv
    <3>7. UseInv(e)'
      <4> SUFFICES ASSUME NEW r \in Rows, r \notin late[e], r \notin inplace[e], askew[e] # "yes"
                   PROVE  Same(e, r)'
        BY <1>1, <3>1, <3>2 DEF UseInv
      <4>1. Same(e, r) BY <1>0, <1>1, <2>2, <3>2, KeptCopy
      <4>2. QED BY <1>1, <4>1 DEF Same, OnDisk
    <3> QED BY <3>3, <3>4, <3>5, <3>6, <3>7 DEF EngineInv
  <2> QED BY <2>1, <2>2
<1>3. ASSUME NEW f \in Engines, f # e
      PROVE  pc'[f] = pc[f] /\ read'[f] = read[f] /\ todo'[f] = todo[f] /\ result'[f] = result[f]
  BY <1>0, <1>3, Typed DEF VerifyCopy, End
<1>4. TypeOK' BY <1>0, TypeSmartLoad DEF SmartLoad
<1>5. QED BY <1>1, <1>2, <1>3, <1>4, OwnStep

LEMMA InvCreateDuckDBTable == ASSUME IInv, NEW e \in Engines, CreateDuckDBTable(e) PROVE IInv'
<1>0. TypeOK /\ EngineInv(e) /\ TypeOK' BY TypeBuildIndex DEF IInv, BuildIndex
<1>1. /\ UNCHANGED <<shared, read, todo, target, duck, result, history>>
      /\ pc[e] = "create" /\ pc'[e] = "list" /\ table'[e] # None
  <2>1. Known(e) \in Schema
    BY <1>0 DEF CreateDuckDBTable, GetTable, Known, TypeOK, FilesOK, ProgramsOK
  <2>2. Known(e).columns # None BY <2>1 DEF Schema
  <2>3. QED BY <1>0, <2>2, Typed DEF CreateDuckDBTable
<1>2. HashesPast(read[e])' /\ TargetInv(e)' /\ LoadInv(e)' /\ CheckInv(e)' /\ DeletingInv(e)' /\ UseInv(e)'
  BY <1>0, <1>1 DEF EngineInv, HashesPast, TypeOK, ProgramsOK, TargetInv, LoadInv, CheckInv,
                    DeletingInv, UseInv, InUse
<1>3. TableInv(e)' BY <1>0, <1>1 DEF EngineInv, TableInv, InUse
<1>4. DescribesInv(e)' BY <1>0, <1>1, SameFiles, Typed DEF EngineInv, DescribesInv
<1>5. PartialInv(e)' BY <1>0, <1>1, SameFiles, Typed DEF EngineInv, PartialInv
<1>6. EngineInv(e)' BY <1>2, <1>3, <1>4, <1>5 DEF EngineInv
<1>7. ASSUME NEW f \in Engines, f # e PROVE pc'[f] = pc[f] /\ table'[f] = table[f]
  BY <1>0, <1>7, Typed DEF CreateDuckDBTable
<1>8. QED BY <1>0, <1>1, <1>6, <1>7, OwnStep

LEMMA InvListRows == ASSUME IInv, NEW e \in Engines, ListRows(e) PROVE IInv'
<1>0. TypeOK /\ EngineInv(e) /\ TypeOK' BY TypeBuildIndex DEF IInv, BuildIndex
<1>1. /\ UNCHANGED <<shared, read, target, table, result, late, inplace>>
      /\ pc[e] = "list" /\ pc'[e] = "rows" /\ duck'[e] = EmptyTable /\ todo'[e] = Present
      /\ IF askew[e] # "yes" /\ (meta = None \/ meta.data = ComputeDataHash)
         THEN askew'[e] = "partial" ELSE askew'[e] = "yes"
  BY <1>0, Typed DEF ListRows
<1>2. HashesPast(read[e])' /\ TargetInv(e)' /\ CheckInv(e)' /\ DeletingInv(e)' /\ UseInv(e)' /\ DescribesInv(e)'
  BY <1>0, <1>1 DEF EngineInv, HashesPast, TypeOK, ProgramsOK, TargetInv, CheckInv,
                    DeletingInv, UseInv, InUse, DescribesInv
<1>3. TableInv(e)' BY <1>0, <1>1 DEF EngineInv, TableInv, InUse
<1>4. LoadInv(e)' BY <1>1 DEF LoadInv, Present, Same, OnDisk, EmptyTable
<1>5. PartialInv(e)'
  <2> SUFFICES ASSUME e \in Persistent, meta # None, askew'[e] = "partial" PROVE PartialInv(e)'
    BY <1>1 DEF PartialInv
  <2>1. askew[e] \in {"no", "partial"} /\ meta.data = ComputeDataHash
    BY <1>1 DEF TypeOK, HistoryOK, IInv
  <2>2. meta.rows = Cardinality(Recorded) BY <1>0, <2>1 DEF EngineInv, DescribesInv, PartialInv
  <2>3. Present = Recorded
    BY <1>0, <2>1 DEF Present, Recorded, ComputeDataHash, TypeOK, FilesOK, RowDir
  <2>4. Loaded(e)' = {} BY <1>1 DEF Loaded, EmptyTable
  <2>5. Recorded' = Recorded /\ ComputeDataHash' = ComputeDataHash BY <1>1, SameFiles
  <2>6. QED BY <1>1, <2>1, <2>2, <2>3, <2>4, <2>5 DEF PartialInv
<1>6. EngineInv(e)' BY <1>2, <1>3, <1>4, <1>5 DEF EngineInv
<1>7. ASSUME NEW f \in Engines, f # e
      PROVE  pc'[f] = pc[f] /\ todo'[f] = todo[f] /\ duck'[f] = duck[f] /\ askew'[f] = askew[f]
  BY <1>0, <1>7, Typed DEF ListRows
<1>8. QED BY <1>0, <1>1, <1>6, <1>7, OwnStep
LEMMA InvLoadRow == ASSUME IInv, NEW e \in Engines, LoadRow(e) PROVE IInv'
<1>0. TypeOK /\ EngineInv(e) /\ TypeOK' BY TypeBuildIndex DEF IInv, BuildIndex
<1>1. PICK r \in todo[e] : /\ duck' = [duck EXCEPT ![e][r] = Contents(r)]
                           /\ todo' = [todo EXCEPT ![e] = @ \ {r}]
                           /\ inplace' = [inplace EXCEPT ![e] = @ \ {r}]
  BY DEF LoadRow
<1>2. /\ UNCHANGED <<shared, pc, cached, read, target, table, result, late, askew>>
      /\ pc[e] = "rows"
  BY DEF LoadRow
<1>3. /\ r \in Rows /\ duck'[e][r] = Contents(r) /\ Contents(r) # None
      /\ \A s \in Rows \ {r} : duck'[e][s] = duck[e][s]
      /\ todo'[e] = todo[e] \ {r} /\ inplace'[e] = inplace[e] \ {r}
  BY <1>0, <1>1, Typed DEF Contents, TypeOK, FilesOK, RowDir
<1>4. disk[r] # None => Same(e, r)'
  BY <1>2, <1>3 DEF Same, OnDisk, Contents
<1>5. \A s \in Rows \ {r} : Same(e, s)' <=> Same(e, s)
  BY <1>2, <1>3, SameFiles
<1>6. HashesPast(read[e])' /\ TargetInv(e)' /\ CheckInv(e)' /\ DeletingInv(e)' /\ UseInv(e)'
  BY <1>0, <1>2 DEF EngineInv, HashesPast, TypeOK, ProgramsOK, TargetInv, CheckInv,
                    DeletingInv, UseInv, InUse
<1>7. TableInv(e)' BY <1>0, <1>2 DEF EngineInv, TableInv, InUse
<1>8. LoadInv(e)' BY <1>0, <1>2, <1>3, <1>4, <1>5 DEF EngineInv, LoadInv
<1>9. UNCHANGED <<ComputeDataHash, Recorded>> BY <1>2, SameFiles
<1>10. \A s \in Recorded : meta.data[s] = ComputeDataHash[s] => disk[s] # None
  BY DEF Recorded, ComputeDataHash
<1>11. DescribesInv(e)'
  <2> SUFFICES ASSUME e \in Persistent, meta # None, askew[e] = "no"
               PROVE  /\ meta.rows = Cardinality(Recorded)
                      /\ \A s \in Recorded : meta.data[s] = ComputeDataHash[s] =>
                           duck'[e][s] # None /\ (s \notin inplace'[e] => Same(e, s)')
    BY <1>2, <1>9 DEF DescribesInv
  <2>1. /\ meta.rows = Cardinality(Recorded)
        /\ \A s \in Recorded : meta.data[s] = ComputeDataHash[s] =>
             duck[e][s] # None /\ (s \notin inplace[e] => Same(e, s))
    BY <1>0 DEF EngineInv, DescribesInv
  <2>2. Recorded \subseteq Rows BY DEF Recorded
  <2>3. QED BY <1>3, <1>4, <1>5, <1>10, <2>1, <2>2
<1>12. PartialInv(e)'
  <2> SUFFICES ASSUME e \in Persistent, meta # None, askew[e] = "partial"
               PROVE  /\ todo'[e] \cup Loaded(e)' \subseteq Recorded
                      /\ \A s \in Loaded(e)' \ inplace'[e] : Same(e, s)'
    BY <1>0, <1>2, <1>9 DEF EngineInv, PartialInv
  <2>1. Loaded(e)' = Loaded(e) \cup {r}
    BY <1>3 DEF Loaded
  <2>2. /\ \A s \in Rows : meta.data[s] = ComputeDataHash[s]
        /\ todo[e] \cup Loaded(e) \subseteq Recorded
        /\ \A s \in Loaded(e) \ inplace[e] : Same(e, s)
    BY <1>0 DEF EngineInv, PartialInv
  <2>3. disk[r] # None BY <1>1, <1>3, <1>10, <2>2
  <2>4. Loaded(e) \subseteq Rows BY DEF Loaded
  <2>5. QED BY <1>1, <1>3, <1>4, <1>5, <2>1, <2>2, <2>3, <2>4
<1>13. EngineInv(e)' BY <1>6, <1>7, <1>8, <1>11, <1>12 DEF EngineInv
<1>14. ASSUME NEW f \in Engines, f # e
       PROVE  todo'[f] = todo[f] /\ duck'[f] = duck[f] /\ inplace'[f] = inplace[f]
  BY <1>0, <1>1, <1>14, Typed
<1>15. QED BY <1>0, <1>2, <1>13, <1>14, OwnStep

LEMMA InvComputeHashes == ASSUME IInv, NEW e \in Engines, ComputeHashes(e) PROVE IInv'
<1>0. TypeOK /\ EngineInv(e) /\ TypeOK' BY TypeBuildIndex DEF IInv, BuildIndex
<1>1. /\ UNCHANGED <<shared, cached, todo, target, copy, result, late, inplace, askew>>
      /\ pc[e] = "rows" /\ todo[e] = {} /\ pc' = [pc EXCEPT ![e] = "open"]
      /\ \E n : read' = [read EXCEPT ![e] = [schema |-> cached[e], data |-> ComputeDataHash, rows |-> n]]
  BY DEF ComputeHashes
<1>2. pc'[e] = "open" /\ read'[e].data = ComputeDataHash BY <1>0, <1>1, Typed
<1>3. HashesPast(read[e])' BY <1>0, <1>1, <1>2 DEF HashesPast, ComputeDataHash, TypeOK, FilesOK
<1>4. TargetInv(e)' /\ CheckInv(e)' /\ DeletingInv(e)' /\ UseInv(e)'
  BY <1>0, <1>1, <1>2 DEF TypeOK, ProgramsOK, TargetInv, CheckInv, DeletingInv, UseInv, InUse
<1>5. TableInv(e)' BY <1>0, <1>1, <1>2 DEF EngineInv, TableInv, InUse
<1>6. LoadInv(e)'
  <2>1. UNCHANGED ComputeDataHash /\ \A r \in Rows : Same(e, r)' <=> Same(e, r) BY <1>1, SameFiles
  <2>2. QED BY <1>0, <1>1, <1>2, <2>1 DEF EngineInv, LoadInv
<1>7. DescribesInv(e)' BY <1>0, <1>1, SameFiles, Typed DEF EngineInv, DescribesInv
<1>8. PartialInv(e)' BY <1>0, <1>1, <1>2, SameFiles, Typed DEF EngineInv, PartialInv
<1>9. EngineInv(e)' BY <1>3, <1>4, <1>5, <1>6, <1>7, <1>8 DEF EngineInv
<1>10. ASSUME NEW f \in Engines, f # e PROVE pc'[f] = pc[f] /\ read'[f] = read[f]
  BY <1>0, <1>1, <1>10, Typed
<1>11. QED BY <1>0, <1>1, <1>9, <1>10, OwnStep

LEMMA InvOpenMeta == ASSUME IInv, NEW e \in Engines, OpenMeta(e) PROVE IInv'
<1>0. TypeOK /\ EngineInv(e) /\ TypeOK' BY TypeBuildIndex DEF IInv, BuildIndex
<1>1. /\ UNCHANGED <<schema, disk, clock, local, copy, result, late, inplace>>
      /\ meta' = None /\ pc[e] = "open" /\ pc'[e] = "save"
  BY <1>0, Typed DEF OpenMeta
<1>2. EngineInv(e)'
  <2>1. HashesPast(read[e])' /\ TargetInv(e)' /\ CheckInv(e)' /\ UseInv(e)'
    BY <1>0, <1>1 DEF EngineInv, HashesPast, TypeOK, ProgramsOK, TargetInv, CheckInv, UseInv, InUse
  <2>2. DeletingInv(e)' /\ DescribesInv(e)' /\ PartialInv(e)'
    BY <1>1 DEF DeletingInv, DescribesInv, PartialInv
  <2>3. TableInv(e)' BY <1>0, <1>1 DEF EngineInv, TableInv, InUse
  <2>4. LoadInv(e)' BY <1>0, <1>1 DEF EngineInv, LoadInv, Same, OnDisk, ComputeDataHash
  <2> QED BY <2>1, <2>2, <2>3, <2>4 DEF EngineInv
<1>3. ASSUME NEW f \in Engines, f # e PROVE EngineInv(f)'
  <2>1. pc'[f] = pc[f] /\ askew'[f] = "yes" BY <1>0, <1>3, Typed DEF OpenMeta
  <2>2. QED BY <1>0, <1>1, <2>1, OthersMeta DEF IInv
<1>4. HashesPast(meta)' BY <1>1 DEF HashesPast
<1>5. QED BY <1>0, <1>2, <1>3, <1>4 DEF IInv

LEMMA InvSaveIndexMeta == ASSUME IInv, NEW e \in Engines, SaveIndexMeta(e) PROVE IInv'
<1>0. TypeOK /\ EngineInv(e) /\ TypeOK' BY TypeBuildIndex DEF IInv, BuildIndex
<1>1. /\ UNCHANGED <<schema, disk, clock, cached, target, copy, late, inplace>>
      /\ meta' = read[e] /\ pc[e] = "save" /\ pc'[e] = "up" /\ result'[e] = "rebuilt"
      /\ read'[e] = None /\ todo'[e] = {} /\ read[e] # None
      /\ askew'[e] # "yes" => askew'[e] = "no" /\ late[e] = {} /\ read[e].rows = Cardinality(Loaded(e))
  BY <1>0, Typed DEF SaveIndexMeta, End, TypeOK, ProgramsOK
<1>2. HashesPast(read[e]) /\ target[e] = None BY <1>0, <1>1 DEF EngineInv, TypeOK, ProgramsOK
<1>3. \A r \in Rows \ late[e] : Same(e, r) /\ Same(e, r)' /\ read[e].data[r] = ComputeDataHash[r]
  BY <1>0, <1>1 DEF EngineInv, LoadInv, Same, OnDisk
<1>4. EngineInv(e)'
  <2>1. HashesPast(read[e])' /\ TargetInv(e)' /\ LoadInv(e)' /\ CheckInv(e)' /\ DeletingInv(e)'
    BY <1>1, <1>2 DEF HashesPast, TargetInv, LoadInv, CheckInv, DeletingInv
  <2>2. TableInv(e)' BY <1>0, <1>1 DEF EngineInv, TableInv
  <2>3. UseInv(e)' BY <1>1, <1>3 DEF UseInv
  <2>4. PartialInv(e)' BY <1>1 DEF PartialInv
  <2>5. DescribesInv(e)'
    <3> SUFFICES ASSUME late[e] = {}, read[e].rows = Cardinality(Loaded(e)) PROVE DescribesInv(e)'
      BY <1>1 DEF DescribesInv
    <3>1. \A r \in Rows : /\ Same(e, r) /\ Same(e, r)' /\ read[e].data[r] = ComputeDataHash[r]
                          /\ duck'[e][r] = duck[e][r]
      BY <1>1, <1>3
    <3>2. \A r \in Rows : read[e].data[r] = None <=> duck[e][r] = None
      BY <1>0, <3>1 DEF Same, OnDisk, ComputeDataHash, TypeOK, FilesOK, RowDir
    <3>3. Recorded' = Loaded(e) BY <1>1, <3>2 DEF Recorded, Loaded
    <3>4. QED BY <1>1, <3>1, <3>3 DEF DescribesInv, Loaded
  <2> QED BY <2>1, <2>2, <2>3, <2>4, <2>5 DEF EngineInv
<1>5. ASSUME NEW f \in Engines, f # e PROVE EngineInv(f)'
  <2>1. /\ pc'[f] = pc[f] /\ askew'[f] = "yes" /\ read'[f] = read[f] /\ todo'[f] = todo[f]
        /\ result'[f] = result[f]
    BY <1>0, <1>5, Typed DEF SaveIndexMeta, End
  <2>2. QED BY <1>0, <1>1, <2>1, OthersMeta DEF IInv
<1>6. HashesPast(meta)' BY <1>1, <1>2 DEF HashesPast
<1>7. QED BY <1>0, <1>4, <1>5, <1>6 DEF IInv

LEMMA InvLoadFails == ASSUME IInv, NEW e \in Engines, LoadFails(e) PROVE IInv'
<1>0. TypeOK /\ EngineInv(e) /\ TypeOK' BY TypeLoadFails DEF IInv
<1>1. /\ UNCHANGED <<shared, cached, target, copy, history>>
      /\ pc'[e] = "up" /\ result'[e] = "failed" /\ read'[e] = None /\ todo'[e] = {}
      /\ pc[e] \in {"schema", "data", "verify", "create", "list", "rows", "open", "save"}
  BY <1>0, Typed DEF LoadFails, End
<1>2. target[e] = None BY <1>0, <1>1 DEF TypeOK, ProgramsOK
<1>3. /\ HashesPast(read[e])' /\ TargetInv(e)' /\ TableInv(e)' /\ LoadInv(e)' /\ CheckInv(e)'
      /\ DeletingInv(e)' /\ UseInv(e)'
  BY <1>1, <1>2 DEF HashesPast, TargetInv, TableInv, LoadInv, CheckInv, DeletingInv, UseInv, InUse
<1>4. DescribesInv(e)' BY <1>0, <1>1, SameFiles, Typed DEF EngineInv, DescribesInv
<1>5. PartialInv(e)' BY <1>0, <1>1, SameFiles, Typed DEF EngineInv, PartialInv
<1>6. EngineInv(e)' BY <1>3, <1>4, <1>5 DEF EngineInv
<1>7. ASSUME NEW f \in Engines, f # e
      PROVE  pc'[f] = pc[f] /\ read'[f] = read[f] /\ todo'[f] = todo[f] /\ result'[f] = result[f]
  BY <1>0, <1>7, Typed DEF LoadFails, End
<1>8. QED BY <1>0, <1>1, <1>6, <1>7, OwnStep
\* The copy of the row a program works on is renewed: a recorded row is in it
\* again, and it is as the files are.
LEMMA InvRefreshRow == ASSUME IInv, NEW e \in Engines, RefreshRow(e) PROVE IInv'
<1>0. TypeOK /\ EngineInv(e) /\ TypeOK' BY TypeRowOperation DEF IInv, RowOperation
<1>a. PICK r \in Rows : r = target[e] BY <1>0 DEF RefreshRow, TypeOK, ProgramsOK
<1> DEFINE fails == table[e] = None \/ Misfit(e, r)
<1>1. /\ UNCHANGED <<shared, cached, read, todo, table, late>>
      /\ r = target[e] /\ pc[e] = "refresh" /\ pc'[e] = "up" /\ target'[e] = None
  BY <1>a, <1>0, Typed DEF RefreshRow
<1>2. Contents(r) \in Nat BY <1>0, <1>1 DEF Contents, TypeOK, FilesOK, RowDir
<1>3. \A s \in Rows \ {r} : /\ duck'[e][s] = duck[e][s] /\ (Same(e, s)' <=> Same(e, s))
                            /\ s \in inplace'[e] <=> s \in inplace[e]
  <2>1. ASSUME NEW s \in Rows \ {r} PROVE duck'[e][s] = duck[e][s] /\ (s \in inplace'[e] <=> s \in inplace[e])
    BY <1>0, <1>1, Typed DEF RefreshRow
  <2>2. QED BY <1>1, <2>1, SameFiles
<1>4. ASSUME ~fails
      PROVE  /\ duck'[e][r] # None /\ (disk[r] # None => Same(e, r)')
             /\ result'[e] = result[e] /\ askew'[e] = askew[e]
  <2>1. duck'[e][r] = Contents(r) /\ UNCHANGED <<result, askew>>
    BY <1>0, <1>1, <1>4, Typed DEF RefreshRow
  <2>2. QED BY <1>1, <1>2, <2>1 DEF Same, OnDisk, Contents
<1>5. ASSUME fails PROVE result'[e] = "failed" /\ askew'[e] = "yes"
  BY <1>0, <1>1, <1>5, Typed DEF RefreshRow
<1>6. ComputeDataHash' = ComputeDataHash /\ Recorded' = Recorded /\ Recorded \subseteq Rows
  BY <1>1, SameFiles DEF Recorded
<1>7. \A s \in Recorded : meta.data[s] = ComputeDataHash[s] => disk[s] # None
  BY DEF Recorded, ComputeDataHash
<1>8. HashesPast(read[e])' /\ TargetInv(e)' /\ LoadInv(e)' /\ CheckInv(e)' /\ DeletingInv(e)'
  BY <1>0, <1>1 DEF EngineInv, HashesPast, TargetInv, LoadInv, CheckInv, DeletingInv
<1>9. TableInv(e)' BY <1>0, <1>1, <1>4, <1>5 DEF EngineInv, TableInv, InUse
<1>10. DescribesInv(e)'
  <2> SUFFICES ASSUME e \in Persistent, meta # None, askew'[e] = "no"
               PROVE  /\ meta.rows = Cardinality(Recorded)
                      /\ \A s \in Recorded : meta.data[s] = ComputeDataHash[s] =>
                           duck'[e][s] # None /\ (s \notin inplace'[e] => Same(e, s)')
    BY <1>1, <1>6 DEF DescribesInv
  <2>1. ~fails /\ askew[e] = "no" BY <1>4, <1>5
  <2>2. /\ meta.rows = Cardinality(Recorded)
        /\ \A s \in Recorded : meta.data[s] = ComputeDataHash[s] =>
             duck[e][s] # None /\ (s \notin inplace[e] => Same(e, s))
    BY <1>0, <2>1 DEF EngineInv, DescribesInv
  <2>3. QED BY <1>3, <1>4, <1>6, <1>7, <2>1, <2>2
<1>11. PartialInv(e)'
  <2> SUFFICES ASSUME e \in Persistent, meta # None, askew'[e] = "partial"
               PROVE  /\ meta.rows = Cardinality(Recorded)
                      /\ \A s \in Rows : meta.data[s] = ComputeDataHash[s]
                      /\ todo[e] \cup Loaded(e)' \subseteq Recorded
                      /\ \A s \in Loaded(e)' \ inplace'[e] : Same(e, s)'
    BY <1>1, <1>6 DEF PartialInv
  <2>1. ~fails /\ askew[e] = "partial" BY <1>4, <1>5
  <2>2. PartialInv(e) BY <1>0 DEF EngineInv
  <2>3. Loaded(e)' \subseteq Loaded(e) \cup {r} BY <1>3 DEF Loaded
  <2>4. r \in Recorded /\ disk[r] # None BY <1>1, <1>7, <2>1, <2>2 DEF PartialInv
  <2>5. ASSUME NEW s \in Loaded(e)', s \notin inplace'[e] PROVE Same(e, s)'
    <3>1. CASE s = r BY <1>4, <2>1, <2>4, <3>1
    <3>2. CASE s # r
      <4>1. s \in Loaded(e) /\ s \in Rows \ {r} /\ s \notin inplace[e]
        BY <1>3, <2>3, <2>5, <3>2 DEF Loaded
      <4>2. QED BY <1>3, <2>1, <2>2, <4>1 DEF PartialInv
    <3> QED BY <3>1, <3>2
  <2>6. QED BY <2>1, <2>2, <2>3, <2>4, <2>5 DEF PartialInv
<1>12. UseInv(e)'
  <2> SUFFICES ASSUME InUse(e)', NEW s \in Rows, s \notin late[e], ~Same(e, s)'
               PROVE  e \in Persistent /\ result'[e] = "kept" /\ (s \in inplace'[e] \/ askew'[e] = "yes")
    BY <1>1 DEF UseInv
  <2>1. ~fails BY <1>5 DEF InUse
  <2>2. InUse(e) BY <1>1, <1>4, <2>1 DEF InUse
  <2>3. s # r
    <3> SUFFICES ASSUME s = r PROVE FALSE OBVIOUS
    <3>1. disk[r] # None BY <1>0, <1>1 DEF EngineInv, TargetInv
    <3>2. QED BY <1>4, <2>1, <3>1
  <2>4. QED BY <1>0, <1>1, <1>3, <1>4, <2>1, <2>2, <2>3 DEF EngineInv, UseInv
<1>13. EngineInv(e)' BY <1>8, <1>9, <1>10, <1>11, <1>12 DEF EngineInv
<1>14. ASSUME NEW f \in Engines, f # e
       PROVE  /\ pc'[f] = pc[f] /\ target'[f] = target[f] /\ duck'[f] = duck[f]
              /\ result'[f] = result[f] /\ inplace'[f] = inplace[f] /\ askew'[f] = askew[f]
  BY <1>0, <1>14, Typed DEF RefreshRow
<1>15. QED BY <1>0, <1>1, <1>13, <1>14, OwnStep

LEMMA InvDeleteCopy == ASSUME IInv, NEW e \in Engines, DeleteCopy(e) PROVE IInv'
<1>0. TypeOK /\ EngineInv(e) /\ TypeOK' BY TypeRowOperation DEF IInv, RowOperation
<1>a. PICK r \in Rows : r = target[e] BY <1>0 DEF DeleteCopy, TypeOK, ProgramsOK
<1>1. /\ UNCHANGED <<shared, cached, read, todo, table, result, history>> /\ r = target[e]
      /\ pc[e] = "delete" /\ pc'[e] = "up" /\ target'[e] = None /\ duck'[e][r] = None
  BY <1>a, <1>0, Typed DEF DeleteCopy
<1>2. \A s \in Rows \ {r} : duck'[e][s] = duck[e][s] /\ (Same(e, s)' <=> Same(e, s))
  <2>1. \A s \in Rows \ {r} : duck'[e][s] = duck[e][s] BY <1>0, <1>1, Typed DEF DeleteCopy
  <2>2. QED BY <1>1, <2>1, SameFiles
<1>3. ComputeDataHash' = ComputeDataHash /\ Recorded' = Recorded /\ Recorded \subseteq Rows
  BY <1>1, SameFiles DEF Recorded
<1>4. HashesPast(read[e])' /\ TargetInv(e)' /\ LoadInv(e)' /\ CheckInv(e)' /\ DeletingInv(e)'
  BY <1>0, <1>1 DEF EngineInv, HashesPast, TargetInv, LoadInv, CheckInv, DeletingInv
<1>5. TableInv(e)' BY <1>0, <1>1 DEF EngineInv, TableInv, InUse
<1>6. PartialInv(e)' BY <1>0, <1>1 DEF EngineInv, PartialInv
<1>7. DescribesInv(e)'
  <2> SUFFICES ASSUME e \in Persistent, meta # None, askew[e] = "no"
               PROVE  /\ meta.rows = Cardinality(Recorded)
                      /\ \A s \in Recorded : meta.data[s] = ComputeDataHash[s] =>
                           duck'[e][s] # None /\ (s \notin inplace[e] => Same(e, s)')
    BY <1>1, <1>3 DEF DescribesInv
  <2>1. r \in Recorded => meta.data[r] # ComputeDataHash[r]
    BY <1>0, <1>1 DEF EngineInv, DeletingInv
  <2>2. QED BY <1>0, <1>2, <1>3, <2>1 DEF EngineInv, DescribesInv
<1>8. UseInv(e)'
  <2>1. r \notin late[e] => Same(e, r)'
    BY <1>0, <1>1 DEF EngineInv, TargetInv, Same, OnDisk
  <2>2. QED BY <1>0, <1>1, <1>2, <2>1 DEF EngineInv, UseInv, InUse
<1>9. EngineInv(e)' BY <1>4, <1>5, <1>6, <1>7, <1>8 DEF EngineInv
<1>10. ASSUME NEW f \in Engines, f # e
       PROVE  pc'[f] = pc[f] /\ target'[f] = target[f] /\ duck'[f] = duck[f]
  BY <1>0, <1>10, Typed DEF DeleteCopy
<1>11. QED BY <1>0, <1>1, <1>9, <1>10, OwnStep

-----------------------------------------------------------------------------
LEMMA InvInit == Init => IInv
<1> SUFFICES ASSUME Init PROVE IInv OBVIOUS
<1>1. HashesPast(meta) BY DEF Init, HashesPast
<1>2. ASSUME NEW e \in Engines PROVE EngineInv(e)
  BY <1>2 DEF Init, EngineInv, HashesPast, TargetInv, TableInv, LoadInv, CheckInv, DescribesInv,
              PartialInv, DeletingInv, UseInv, InUse
<1>3. QED BY <1>1, <1>2, TypeInit DEF IInv

LEMMA InvNext == IInv /\ [Next]_vars => IInv'
<1> SUFFICES ASSUME IInv, [Next]_vars PROVE IInv' OBVIOUS
<1>1. CASE UNCHANGED vars
  <2>1. TypeOK' /\ clock \in Nat /\ HashesPast(meta)'
    BY <1>1, TypeNext DEF IInv, vars, TypeOK, FilesOK, HashesPast
  <2>2. ASSUME NEW f \in Engines PROVE EngineInv(f)' BY <1>1, <2>1, Bystander DEF vars, IInv
  <2>3. QED BY <2>1, <2>2 DEF IInv
<1>2. CASE Scripts BY <1>2, InvGenerateRow, InvSchema, InvCleanData DEF Scripts
<1>3. ASSUME NEW e \in Engines, Start(e) \/ Stop(e) \/ Rebuild(e) \/ LoadFails(e) PROVE IInv'
  BY <1>3, InvStart, InvStop, InvLoadFails
<1>4. ASSUME NEW e \in Engines, SmartLoad(e) PROVE IInv'
  BY <1>4, InvCheck, InvVerifyCopy DEF SmartLoad
<1>5. ASSUME NEW e \in Engines, BuildIndex(e) PROVE IInv'
  BY <1>5, InvCreateDuckDBTable, InvListRows, InvLoadRow, InvComputeHashes, InvOpenMeta,
     InvSaveIndexMeta DEF BuildIndex
<1>6. ASSUME NEW e \in Engines, RowOperation(e) PROVE IInv'
  BY <1>6, InvRowChange, InvRefreshRow, InvDeleteCopy DEF RowOperation
<1> QED BY <1>1, <1>2, <1>3, <1>4, <1>5, <1>6 DEF Next

\* A program whose last load succeeded has the rows of the files, but for the
\* changes SmartLoad cannot see (engine.go, SmartLoad), for any number of
\* programs and rows.
THEOREM CopyIsCurrent == Spec => []LoadedIsCurrent
<1>1. Init => IInv BY InvInit
<1>2. IInv /\ [Next]_vars => IInv' BY InvNext
<1>3. IInv => LoadedIsCurrent BY DEF IInv, EngineInv, UseInv, Same, LoadedIsCurrent
<1>4. QED BY <1>1, <1>2, <1>3, PTL DEF Spec

-----------------------------------------------------------------------------
(* No needless load. *)

\* After a change to the files there is nothing to show.
LEMMA UntouchedYes ==
  ASSUME NEW e \in Engines, touched'[e] = "yes" PROVE UntouchedInv(e)'
BY DEF UntouchedInv

\* Steps that leave e, its copy and the files alone.
LEMMA UntouchedKeeps ==
  ASSUME NEW e \in Engines, UntouchedInv(e), UNCHANGED <<schema, disk, meta>>,
         touched'[e] \in {touched[e], "yes"}, table'[e] = table[e], duck'[e] = duck[e],
         \/ /\ pc'[e] = pc[e] /\ read'[e] = read[e] /\ cached'[e] = cached[e]
         \/ /\ pc'[e] \in {"down", "meta", "verify", "create", "list", "up"}
            /\ cached'[e] \in {cached[e], None}
         \/ /\ pc[e] = "schema" \/ pc'[e] # "data"
            /\ pc'[e] \in {"create", "data", "list"}
            /\ read'[e] = read[e] /\ cached'[e] \in {cached[e], schema}
  PROVE  UntouchedInv(e)'
<1>1. /\ ComputeDataHash' = ComputeDataHash /\ Loaded(e)' = Loaded(e)
      /\ schema' = schema /\ meta' = meta /\ table'[e] = table[e]
  BY DEF ComputeDataHash, Loaded
<1>2. \A m : Fits(e, m)' <=> Fits(e, m)
  BY <1>1 DEF Fits
<1>3. CASE touched'[e] = "yes"
  BY <1>3, UntouchedYes
<1>4. CASE touched'[e] = touched[e]
  <2> SUFFICES ASSUME e \in Persistent PROVE UntouchedInv(e)'
    BY DEF UntouchedInv
  <2>1. CASE pc'[e] = pc[e] /\ read'[e] = read[e] /\ cached'[e] = cached[e]
    <3>1. Fits(e, meta)' <=> Fits(e, meta)
      BY <1>1, <1>2
    <3>2. Fits(e, read[e])' <=> Fits(e, read[e])
      BY <1>1, <1>2, <2>1
    <3> QED BY <1>1, <1>4, <2>1, <3>1, <3>2 DEF UntouchedInv
  <2>2. CASE /\ pc'[e] \in {"down", "meta", "verify", "create", "list", "up"}
             /\ cached'[e] \in {cached[e], None}
    <3>1. Fits(e, meta)' <=> Fits(e, meta)
      BY <1>1, <1>2
    <3>2. touched[e] = "no" => Fits(e, meta) /\ cached[e] \in {None, schema}
      BY DEF UntouchedInv
    <3> QED BY <1>1, <1>4, <2>2, <3>1, <3>2 DEF UntouchedInv
  <2>3. CASE /\ pc[e] = "schema" \/ pc'[e] # "data"
             /\ pc'[e] \in {"create", "data", "list"}
             /\ read'[e] = read[e] /\ cached'[e] \in {cached[e], schema}
    <3>1. Fits(e, meta)' <=> Fits(e, meta)
      BY <1>1, <1>2
    <3>2. touched[e] = "no" => Fits(e, meta) /\ cached[e] \in {None, schema}
      BY DEF UntouchedInv
    <3>3. pc'[e] = "data" /\ touched[e] = "no" => read[e] = meta
      BY <2>3 DEF UntouchedInv
    <3> QED BY <1>1, <1>4, <2>3, <3>1, <3>2, <3>3 DEF UntouchedInv
  <2> QED BY <2>1, <2>2, <2>3
<1> QED BY <1>3, <1>4

LEMMA OthersUntouched ==
  ASSUME TypeOK, NEW e \in Engines, NEW f \in Engines \ {e}, UntouchedInv(e),
         Start(f) \/ Stop(f) \/ SmartLoad(f) \/ Rebuild(f) \/ BuildIndex(f) \/ LoadFails(f) \/ RowOperation(f)
  PROVE  UntouchedInv(e)'
<1> USE DEF TypeOK, ProgramsOK, CopiesOK, HistoryOK
<1> DEFINE Same1 == /\ pc'[e] = pc[e] /\ read'[e] = read[e] /\ cached'[e] = cached[e]
                    /\ table'[e] = table[e] /\ duck'[e] = duck[e]
<1>1. ASSUME Same1, UNCHANGED <<schema, disk, meta>>, touched'[e] \in {touched[e], "yes"} PROVE UntouchedInv(e)'
  BY <1>1, UntouchedKeeps
<1>2. ASSUME NEW by, NEW r, NEW d, Put(by, r, d) PROVE UntouchedInv(e)'
  BY <1>2, UntouchedYes DEF Put
<1>3. CASE Start(f) \/ Stop(f) \/ Rebuild(f) \/ LoadFails(f)
  <2>1. Same1
    BY <1>3 DEF Start, Stop, Rebuild, LoadFails, End
  <2> QED BY <1>1, <1>3, <2>1 DEF Start, Stop, Rebuild, LoadFails
<1>4. CASE SmartLoad(f)
  <2>1. Same1
    BY <1>4 DEF SmartLoad, GetIndexMeta, CheckSchemaHash, CheckDataHash, VerifyCopy, End, GetTable
  <2> QED BY <1>1, <1>4, <2>1 DEF SmartLoad, GetIndexMeta, CheckSchemaHash, CheckDataHash, VerifyCopy
<1>5. CASE CreateDuckDBTable(f) \/ ListRows(f) \/ LoadRow(f) \/ ComputeHashes(f)
  <2>1. Same1 /\ touched'[e] = touched[e]
    BY <1>5 DEF CreateDuckDBTable, GetTable, ListRows, LoadRow, ComputeHashes
  <2> QED BY <1>1, <1>5, <2>1 DEF CreateDuckDBTable, ListRows, LoadRow, ComputeHashes
<1>6. CASE OpenMeta(f) \/ SaveIndexMeta(f)
  BY <1>6, UntouchedYes DEF OpenMeta, SaveIndexMeta
<1>7. CASE MakeRow(f) \/ WriteRow(f) \/ DeleteRow(f)
  BY <1>2, <1>7 DEF MakeRow, WriteRow, DeleteRow
<1>8. CASE RefreshRow(f) \/ DeleteCopy(f)
  <2>1. Same1
    BY <1>8 DEF RefreshRow, DeleteCopy
  <2> QED BY <1>1, <1>8, <2>1 DEF RefreshRow, DeleteCopy
<1> QED BY <1>3, <1>4, <1>5, <1>6, <1>7, <1>8 DEF BuildIndex, RowOperation

LEMMA OwnUntouched ==
  ASSUME IInv, NEW e \in Engines, UntouchedInv(e),
         Start(e) \/ Stop(e) \/ SmartLoad(e) \/ Rebuild(e) \/ BuildIndex(e) \/ LoadFails(e) \/ RowOperation(e)
  PROVE  UntouchedInv(e)'
<1> SUFFICES ASSUME e \in Persistent PROVE UntouchedInv(e)'
  BY DEF UntouchedInv
<1> TypeOK /\ TableInv(e)
  BY DEF IInv, EngineInv
<1>0. /\ \A l : pc' = [pc EXCEPT ![e] = l] => pc'[e] = l
      /\ \A t : touched' = [touched EXCEPT ![e] = t] => touched'[e] = t
      /\ \A t : read' = [read EXCEPT ![e] = t] => read'[e] = t
      /\ \A t : cached' = [cached EXCEPT ![e] = t] => cached'[e] = t
  BY DEF TypeOK, ProgramsOK, HistoryOK
<1>1. ASSUME NEW by, NEW r, NEW d, Put(by, r, d) PROVE UntouchedInv(e)'
  BY <1>1, UntouchedYes DEF Put
<1>2. CASE Start(e) \/ Rebuild(e) \/ Stop(e)
  BY <1>0, <1>2, UntouchedKeeps DEF Start, Rebuild, Stop
<1>3. CASE LoadFails(e)
  BY <1>0, <1>3, UntouchedKeeps DEF LoadFails, End
<1>4. CASE GetIndexMeta(e)
  <2>1. pc'[e] \in {"create", "schema"} /\ read'[e] = meta
    BY <1>0, <1>4 DEF GetIndexMeta
  <2>2. /\ UNCHANGED <<schema, disk, meta, touched, table, duck, cached>>
        /\ ComputeDataHash' = ComputeDataHash /\ Loaded(e)' = Loaded(e)
    BY <1>4 DEF GetIndexMeta, ComputeDataHash, Loaded
  <2>3. Fits(e, meta)' <=> Fits(e, meta)
    BY <2>2 DEF Fits
  <2> QED BY <2>1, <2>2, <2>3 DEF UntouchedInv
<1>5. CASE CheckSchemaHash(e)
  <2>1. cached'[e] \in {cached[e], schema} /\ pc'[e] \in {"create", "data"} /\ pc[e] = "schema"
    BY <1>0, <1>5 DEF CheckSchemaHash, GetTable, Known
  <2> QED BY <1>5, <2>1, UntouchedKeeps DEF CheckSchemaHash
<1>6. CASE CheckDataHash(e)
  BY <1>0, <1>6, UntouchedKeeps DEF CheckDataHash
<1>7. CASE VerifyCopy(e)
  BY <1>0, <1>7, UntouchedKeeps DEF VerifyCopy, End
<1>8. CASE CreateDuckDBTable(e)
  <2>1. cached'[e] \in {cached[e], schema} /\ pc'[e] = "list" /\ pc[e] = "create"
    BY <1>0, <1>8 DEF CreateDuckDBTable, GetTable, Known
  <2>2. CASE table[e] # None
    <3>1. table'[e] = table[e]
      BY <1>8, <2>2 DEF CreateDuckDBTable, TypeOK, CopiesOK
    <3> QED BY <1>8, <2>1, <3>1, UntouchedKeeps DEF CreateDuckDBTable
  <2>3. CASE table[e] = None
    <3>1. touched[e] # "no"
      BY <2>3 DEF UntouchedInv, Fits
    <3> QED BY <1>8, <2>1, <3>1 DEF UntouchedInv, CreateDuckDBTable
  <2> QED BY <2>2, <2>3
<1>9. CASE ListRows(e)
  BY <1>0, <1>9, UntouchedYes DEF ListRows
<1>10. CASE LoadRow(e)
  <2>1. touched[e] = "yes" /\ touched' = touched
    BY <1>10 DEF LoadRow, UntouchedInv
  <2> QED BY <2>1, UntouchedYes
<1>11. CASE ComputeHashes(e)
  <2>1. pc'[e] = "open" /\ touched'[e] \in {"saving", "yes"}
    BY <1>0, <1>11 DEF ComputeHashes
  <2>2. ASSUME touched'[e] = "saving" PROVE Fits(e, read[e])' /\ cached'[e] = schema'
    <3>1. /\ read'[e] = [schema |-> cached[e], data |-> ComputeDataHash, rows |-> Cardinality(Loaded(e))]
          /\ cached[e] = schema
      BY <1>0, <1>11, <2>2 DEF ComputeHashes
    <3>2. /\ UNCHANGED <<schema, disk, cached, table, duck>>
          /\ ComputeDataHash' = ComputeDataHash /\ Loaded(e)' = Loaded(e)
      BY <1>11 DEF ComputeHashes, ComputeDataHash, Loaded
    <3>3. cached[e] # None /\ table[e] # None
      BY <1>11 DEF ComputeHashes, TypeOK, ProgramsOK, TableInv
    <3>4. [schema |-> cached[e], data |-> ComputeDataHash, rows |-> Cardinality(Loaded(e))] \in Meta
      BY <3>3, ComputedHash, LoadedCount DEF Meta, TypeOK, ProgramsOK
    <3> QED BY <3>1, <3>2, <3>3, <3>4 DEF Fits
  <2> QED BY <2>1, <2>2 DEF UntouchedInv
<1>12. CASE OpenMeta(e)
  <2>1. /\ pc'[e] = "save" /\ pc[e] = "open" /\ touched'[e] = touched[e]
        /\ UNCHANGED <<schema, disk, cached, read, table, duck>>
        /\ ComputeDataHash' = ComputeDataHash /\ Loaded(e)' = Loaded(e)
    BY <1>0, <1>12 DEF OpenMeta, ComputeDataHash, Loaded
  <2>2. Fits(e, read[e])' <=> Fits(e, read[e])
    BY <2>1 DEF Fits
  <2> QED BY <2>1, <2>2 DEF UntouchedInv
<1>13. CASE SaveIndexMeta(e)
  <2>1. /\ pc'[e] = "up" /\ pc[e] = "save" /\ meta' = read[e]
        /\ touched'[e] = IF touched[e] = "saving" THEN "no" ELSE "yes"
        /\ UNCHANGED <<schema, disk, cached, table, duck>>
        /\ ComputeDataHash' = ComputeDataHash /\ Loaded(e)' = Loaded(e)
    BY <1>0, <1>13 DEF SaveIndexMeta, End, ComputeDataHash, Loaded
  <2>2. Fits(e, meta)' <=> Fits(e, read[e])
    BY <2>1 DEF Fits
  <2> QED BY <2>1, <2>2 DEF UntouchedInv
<1>14. CASE MakeRow(e) \/ WriteRow(e) \/ DeleteRow(e)
  BY <1>1, <1>14 DEF MakeRow, WriteRow, DeleteRow
<1>15. CASE RefreshRow(e) \/ DeleteCopy(e)
  <2>1. touched[e] = "yes" /\ touched' = touched
    BY <1>15 DEF RefreshRow, DeleteCopy, UntouchedInv
  <2> QED BY <2>1, UntouchedYes
<1> QED
  BY <1>2, <1>3, <1>4, <1>5, <1>6, <1>7, <1>8, <1>9, <1>10, <1>11, <1>12, <1>13, <1>14, <1>15
     DEF SmartLoad, BuildIndex, RowOperation

LEMMA UntouchedNext ==
  ASSUME IInv, [Next]_vars, NEW e \in Engines, UntouchedInv(e) PROVE UntouchedInv(e)'
<1>1. CASE UNCHANGED vars
  BY <1>1, UntouchedKeeps DEF vars
<1>2. CASE Scripts
  BY <1>2, UntouchedYes DEF Scripts, GenerateRow, Put, UpdateSchemaTimestamp, CleanData, WriteSchema, TouchAll
<1>3. TypeOK
  BY DEF IInv
<1> QED BY <1>1, <1>2, <1>3, OwnUntouched, OthersUntouched DEF Next

\* A copy that fits its metadata passes every check of NeedsReindex.
LEMMA NoNeedlessLoad ==
  ASSUME TypeOK, \A e \in Engines : UntouchedInv(e), [Next]_vars,
         NEW e \in Persistent, pc[e] \in {"meta", "schema", "data", "verify"}, pc'[e] = "create"
  PROVE  touched[e] # "no"
<1> SUFFICES ASSUME touched[e] = "no" PROVE FALSE
  OBVIOUS
<1>0. /\ e \in Engines /\ Fits(e, meta) /\ cached[e] \in {None, schema}
      /\ pc[e] \in {"schema", "data"} => read[e] = meta
  BY DEF UntouchedInv
<1>1. /\ \A f \in Engines : \A l : pc' = [pc EXCEPT ![f] = l] => pc'[f] = l /\ (f # e => pc'[e] = pc[e])
      /\ pc'[e] # pc[e]
  BY <1>0 DEF TypeOK, ProgramsOK
<1>2. ~Scripts
  BY <1>1 DEF Scripts, GenerateRow, UpdateSchemaTimestamp, CleanData, WriteSchema
<1>3. ASSUME NEW f \in Engines \ {e},
             Start(f) \/ Stop(f) \/ SmartLoad(f) \/ Rebuild(f) \/ BuildIndex(f) \/ LoadFails(f) \/ RowOperation(f)
      PROVE  FALSE
  BY <1>1, <1>3 DEF Start, Stop, SmartLoad, Rebuild, BuildIndex, LoadFails, RowOperation, End, GetIndexMeta,
     CheckSchemaHash, CheckDataHash, VerifyCopy, CreateDuckDBTable, ListRows, LoadRow, ComputeHashes, OpenMeta,
     SaveIndexMeta, MakeRow, WriteRow, RefreshRow, DeleteRow, DeleteCopy
<1>4. ~SmartLoad(e)
  BY <1>0, <1>1 DEF SmartLoad, GetIndexMeta, CheckSchemaHash, CheckDataHash, VerifyCopy, End, Fits, Known
<1>5. ~(Start(e) \/ Stop(e) \/ Rebuild(e) \/ BuildIndex(e) \/ LoadFails(e) \/ RowOperation(e))
  BY <1>1 DEF Start, Stop, Rebuild, BuildIndex, LoadFails, RowOperation, End, CreateDuckDBTable, ListRows, LoadRow,
     ComputeHashes, OpenMeta, SaveIndexMeta, MakeRow, WriteRow, RefreshRow, DeleteRow, DeleteCopy
<1> QED BY <1>1, <1>2, <1>3, <1>4, <1>5 DEF Next, vars

\* A copy in a DuckDB file is not rebuilt when neither the files nor the copy
\* changed since the program built it ("rebuilding index only if necessary",
\* indexer.go), for any number of programs and rows, whatever stops and fails.
THEOREM NeverNeedlessly == Spec => OnlyIfNecessary
<1> DEFINE Untouched == \A e \in Engines : UntouchedInv(e)
<1>1. Init => IInv /\ Untouched
  BY InvInit DEF Init, UntouchedInv
<1>2. IInv /\ Untouched /\ [Next]_vars => (IInv /\ Untouched)'
  BY InvNext, UntouchedNext
<1>3. IInv /\ Untouched /\ [Next]_vars =>
        [\A e \in Persistent :
           pc[e] \in {"meta", "schema", "data", "verify"} /\ pc'[e] = "create" => touched[e] # "no"]_vars
  BY NoNeedlessLoad DEF IInv
<1> QED BY <1>1, <1>2, <1>3, PTL DEF Spec, OnlyIfNecessary
=============================================================================
