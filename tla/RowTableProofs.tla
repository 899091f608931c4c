---------------------------- MODULE RowTableProofs ----------------------------
(* DualStore implements RowTable, for any number of goroutines, rows, groups, *)
(* columns and values, any set of requests and any faults.                    *)
EXTENDS DualStoreTable, DualStoreProofs

Known == TypeInv /\ Safe /\ HistoryInv

\* RowTable's operators are DualStore's.
LEMMA TableNames ==
  /\ Table!Groups = Groups /\ Table!GroupData = GroupData /\ Table!BulkKinds = BulkKinds
  /\ Table!Contents = RowData \cup {NoRow}
  /\ \A q : Table!Footprint(q) = Footprint(q)
  /\ \A a, b : Table!Merge(a, b) = Merge(a, b)
  /\ \A g : Table!Base(NoRow, g) = EmptyData
  /\ \A old, g : old # NoRow => Table!Base(old, g) = old[g]
BY DEF Table!Groups, Groups, Table!GroupData, GroupData, Table!BulkKinds, BulkKinds, Table!Contents, RowData,
   Table!Footprint, Footprint, Table!Merge, Merge, Table!Base, EmptyData

LEMMA ViewType ==
  ASSUME TypeOK, NEW r \in Rows
  PROVE  View(r) \in RowData \cup {NoRow}
BY ReadFileType DEF View, RowOnDisk, RowData

\* What the files show of a row depends on its files.
LEMMA SameFiles ==
  ASSUME NEW r \in Rows, disk'[r] = disk[r]
  PROVE  View(r)' = View(r) /\ \A g \in Groups : ReadFile(r, g)' = ReadFile(r, g)
BY DEF View, RowOnDisk, ReadFile

\* A view that is a row shows each group as it is read.
LEMMA Viewed ==
  ASSUME TypeOK, NEW r \in Rows, NEW g \in Groups
  PROVE  /\ ReadFile(r, g) = Table!Base(View(r), g)
         /\ disk[r] # NoRow <=> View(r) # NoRow
<1>1. CASE disk[r] = NoRow
  BY <1>1, TableNames DEF View, ReadFile
<1>2. CASE disk[r] # NoRow
  <2>1. View(r) = RowOnDisk(r) /\ RowOnDisk(r)[g] = ReadFile(r, g)
    BY <1>2 DEF View, RowOnDisk
  <2>2. RowOnDisk(r) # NoRow
    BY ReadFileType, NullsAssumption DEF RowOnDisk, FileState
  <2> QED BY <1>2, <2>1, <2>2, TableNames
<1> QED BY <1>1, <1>2

-----------------------------------------------------------------------------
(* A step, and the rows of the other requests. *)

\* A load or a sync leaves the files as they are.
LEMMA BulkKeepsFiles ==
  ASSUME TypeInv, NEW p \in Procs, Step(p) \/ Cancel(p), Kind(p) \in BulkKinds
  PROVE  UNCHANGED disk
<1>1. FlowOf(p)
  BY DEF TypeInv, Flow
<1>2. ~(MakeRowDir(p) \/ OpenFile(p) \/ WriteFile(p) \/ RemoveFile(p) \/ RemoveRowDir(p))
  BY <1>1 DEF FlowOf, WriteKinds, BulkKinds, MakeRowDir, OpenFile, WriteFile, RemoveFile, RemoveRowDir
<1> QED
  BY <1>2 DEF Step, CheckRowExists, RejectUpdate, PrepareGroup, PrepareGroupUnread, ListRowFiles, RemoveRowDirFails,
     SqlDrop, ReadGroup, ReadGroupFails, SqlDelete, SqlInsert, SqlFails, CreateDuckDBTable, TruncateTable,
     SelectRowIds, SelectRowIdsFails, ListRows, PruneRow, PruneDone, NextRow, BulkDone, Cancel

\* before changes where no request is, and then shows what the files show.
LEMMA BeforeStep ==
  ASSUME HNext, NEW r \in Rows
  PROVE  /\ Claimed(r)' => before'[r] = before[r]
         /\ ~Claimed(r)' => before'[r] = View(r)'
BY DEF HNext

\* What a request has done to a row it has for itself stays done while others
\* make their steps.
LEMMA OthersWorking ==
  ASSUME Known, HNext, NEW p \in Procs, Step(p) \/ Cancel(p),
         NEW o \in Procs \ {p}, o \in Active', NEW r \in solo'[o]
  PROVE  IF Kind(o)' \in BulkKinds THEN View(r)' = before'[r] ELSE WriteInv(o, r)'
<1> USE DEF Known
<1>1. /\ pc'[o] = pc[o] /\ req'[o] = req[o] /\ solo'[o] = solo[o]
      /\ loc'[o] = loc[o] \/ (RemoveFile(p) /\ loc'[o] = [loc[o] EXCEPT !.linked = FALSE])
  BY StepFrame
<1>2. o \in Active /\ r \in solo[o] /\ p \in Active /\ pc[p] # "idle"
  BY <1>1, HistoryStep DEF Active
<1>3. r \in Footprint(req[o]) /\ r \notin Footprint(req[p]) /\ r \in Rows
  BY <1>2 DEF Safe, Sharing, TypeInv, TypeOK, Active
<1>4. disk'[r] = disk[r]
  BY <1>2, <1>3, Touch
<1>5. before'[r] = before[r]
  BY <1>1, <1>3, BeforeStep DEF Claimed, Active, Footprint
<1>6. View(r)' = View(r) /\ \A g \in Groups : ReadFile(r, g)' = ReadFile(r, g)
  BY <1>3, <1>4, SameFiles
<1>7. IF Kind(o) \in BulkKinds THEN View(r) = before[r] ELSE WriteInv(o, r)
  BY <1>2 DEF HistoryInv, Working
<1>8. CASE Kind(o) \in BulkKinds
  BY <1>1, <1>5, <1>6, <1>7, <1>8 DEF Kind
<1>9. CASE Kind(o) \notin BulkKinds
  <2>1. loc'[o] = loc[o]
    <3>1. Footprint(req[o]) = {Row(o)} /\ Row(o) \in Rows
      BY <1>2, <1>9, ActiveRequest
    <3>2. CASE RemoveFile(p)
      <4>1. Row(o) # Row(p)
        BY <1>2, <1>3, <3>1, <3>2, ActiveRequest DEF RemoveFile, TypeInv, Flow, FlowOf, RowKinds
      <4> QED BY <3>2, <4>1 DEF RemoveFile, TypeInv, TypeOK
    <3> QED BY <1>1, <3>2
  <2>2. \A g \in Groups : Table!GroupAfter(req[o], g, before[r])' = Table!GroupAfter(req[o], g, before[r])
    BY <1>1, <1>5 DEF Table!GroupAfter, Table!Base, Table!Merge
  <2>3. Groups' = Groups /\ loc[o] \in LocType /\ \A g \in Groups : Table!Base(before[r], g)' = Table!Base(before[r], g)
    BY <1>5 DEF Groups, Table!Base, TypeInv, TypeOK
  <2>4. WriteInv(o, r)
    BY <1>7, <1>9
  <2> QED BY <1>1, <1>4, <1>5, <1>6, <1>9, <2>1, <2>2, <2>3, <2>4 DEF WriteInv, After, Kind, LocType
<1> QED BY <1>8, <1>9

-----------------------------------------------------------------------------
(* A request's own steps. *)

\* What RowTable lets a request make of a group.
LEMMA Wants ==
  ASSUME NEW p, NEW r, NEW g \in Groups
  PROVE  /\ g \notin NamedGroups(req[p]) => After(p, g, r) = {Table!Base(before[r], g)}
         /\ g \in NamedGroups(req[p]) /\ Kind(p) # "update" => After(p, g, r) = {req[p].data[g]}
         /\ g \in NamedGroups(req[p]) /\ Kind(p) = "update" =>
              /\ Merge(Table!Base(before[r], g), req[p].data[g]) \in After(p, g, r)
              /\ "read" \in Faults => req[p].data[g] \in After(p, g, r)
BY TableNames DEF NamedGroups, After, Table!GroupAfter, Kind

\* The loop over the groups begins: nothing is written yet.
LEMMA LoopBegins ==
  ASSUME Known, NEW p \in Active, Kind(p) \in WriteKinds, NEW r \in solo[p], r \in Rows,
         View(r) = before[r], before'[r] = before[r], req'[p] = req[p],
         disk'[r] = IF disk[r] = NoRow THEN BareRow ELSE disk[r],
         Kind(p) = "update" => before[r] # NoRow,
         AfterGroup(p, NamedGroups(req[p]))
  PROVE  WriteInv(p, r)'
<1> USE DEF Known
<1>1. TypeOK /\ p \in Procs /\ NamedGroups(req[p]) \in SUBSET Groups /\ loc[p] \in LocType
  BY ActiveRequest, RequestsAssumption DEF TypeInv, TypeOK, NamedGroups, Request
<1>2. ASSUME NEW g \in Groups PROVE ReadFile(r, g)' = Table!Base(before[r], g)
  <2>1. ReadFile(r, g) = Table!Base(before[r], g)
    BY <1>1, Viewed
  <2>2. CASE disk[r] = NoRow
    BY <2>1, <2>2, NullsAssumption DEF ReadFile, BareRow, Unreadable
  <2>3. CASE disk[r] # NoRow
    BY <2>1, <2>3 DEF ReadFile
  <2> QED BY <2>2, <2>3
<1>3. \A g \in Groups : /\ Table!Base(before[r], g)' = Table!Base(before[r], g)
                        /\ After(p, g, r)' = After(p, g, r)
  BY DEF After, Table!GroupAfter, Table!Base, Table!Merge
<1>4. CASE NamedGroups(req[p]) = {}
  <2>1. pc'[p] = "read"
    BY <1>1, <1>4 DEF AfterGroup, Goto, TypeOK
  <2>2. \A g \in Groups : ReadFile(r, g)' \in After(p, g, r)'
    BY <1>2, <1>3, <1>4, Wants
  <2> QED BY <2>1, <2>2 DEF WriteInv, Kind
<1>5. CASE NamedGroups(req[p]) # {}
  <2>1. pc'[p] = "prepare" /\ loc'[p].todo = NamedGroups(req[p])
    BY <1>1, <1>5 DEF AfterGroup, Goto, SetLoc, TypeOK, LocType
  <2>2. \A g \in Groups \ loc'[p].todo : ReadFile(r, g)' \in After(p, g, r)'
    BY <1>2, <1>3, <2>1, Wants
  <2>3. loc'[p].todo \subseteq Groups /\ \A g \in loc'[p].todo : ReadFile(r, g)' = Table!Base(before[r], g)'
    BY <1>1, <1>2, <1>3, <2>1
  <2>4. Groups' = Groups /\ (Kind(p) = "update" => before[r] # NoRow)
    BY DEF Groups
  <2> QED BY <2>1, <2>2, <2>3, <2>4 DEF WriteInv, Kind, NamedGroups, RowSteps
<1> QED BY <1>4, <1>5

\* The groups named and not yet written are as they were, the others as they
\* will be.
LEMMA OwnWriting ==
  ASSUME Known, NEW p \in Active, Kind(p) \in WriteKinds, NEW r \in solo[p], r \in Rows, r = Row(p),
         before'[r] = before[r], req'[p] = req[p], WriteInv(p, r), disk[r] # NoRow,
         PrepareGroup(p) \/ PrepareGroupUnread(p) \/ OpenFile(p) \/ WriteFile(p)
  PROVE  WriteInv(p, r)'
<1> USE DEF Known
<1>1. /\ TypeOK /\ p \in Procs /\ loc[p] \in LocType /\ disk[r] \in [Groups -> FileState]
      /\ req[p].data \in RowData /\ NamedGroups(req[p]) \in SUBSET Groups
  BY ActiveRequest, RequestsAssumption DEF TypeInv, TypeOK, NamedGroups, Request
<1>2. \A g \in Groups : /\ Table!Base(before[r], g)' = Table!Base(before[r], g)
                        /\ After(p, g, r)' = After(p, g, r)
  BY DEF After, Table!GroupAfter, Table!Base, Table!Merge
<1>3. /\ Groups' = Groups /\ Kind(p)' = Kind(p) /\ NamedGroups(req[p])' = NamedGroups(req[p])
      /\ pc \in [Procs -> Label] /\ loc \in [Procs -> LocType]
  BY <1>1 DEF Groups, Kind, NamedGroups, TypeOK
<1>4. ASSUME NEW g \in loc[p].todo, NEW d, d \in After(p, g, r), pc[p] = "prepare", Goto(p, "open"),
             SetLoc(p, [loc[p] EXCEPT !.cur = g, !.out = d]), UNCHANGED disk
      PROVE  WriteInv(p, r)'
  <2>1. pc'[p] = "open" /\ loc'[p].todo = loc[p].todo /\ loc'[p].cur = g /\ loc'[p].out = d
    BY <1>1, <1>3, <1>4 DEF Goto, SetLoc, LocType
  <2>2. \A h \in Groups : ReadFile(r, h)' = ReadFile(r, h)
    BY <1>4, SameFiles
  <2> QED BY <1>1, <1>2, <1>3, <1>4, <2>1, <2>2 DEF WriteInv, RowSteps, LocType
<1>5. CASE PrepareGroup(p)
  <2> DEFINE d(g) == IF Kind(p) = "update" THEN Merge(ReadFile(Row(p), g), req[p].data[g]) ELSE req[p].data[g]
  <2>1. PICK g \in loc[p].todo : SetLoc(p, [loc[p] EXCEPT !.cur = g, !.out = d(g)])
    BY <1>5 DEF PrepareGroup, NextGroup
  <2>2. g \in Groups /\ g \in NamedGroups(req[p]) /\ ReadFile(r, g) = Table!Base(before[r], g)
    BY <1>1, <1>5, <2>1 DEF WriteInv, PrepareGroup
  <2>3. d(g) \in After(p, g, r)
    BY <2>2, Wants
  <2>4. pc[p] = "prepare" /\ Goto(p, "open") /\ UNCHANGED disk
    BY <1>5 DEF PrepareGroup
  <2> HIDE DEF d
  <2> QED BY <1>4, <2>1, <2>3, <2>4
<1>6. CASE PrepareGroupUnread(p)
  <2>1. PICK g \in loc[p].todo : SetLoc(p, [loc[p] EXCEPT !.cur = g, !.out = req[p].data[g]])
    BY <1>6 DEF PrepareGroupUnread
  <2>2. g \in Groups /\ g \in NamedGroups(req[p])
    BY <1>1, <1>6, <2>1 DEF WriteInv, PrepareGroupUnread
  <2>3. req[p].data[g] \in After(p, g, r)
    BY <1>6, <2>2, Wants DEF PrepareGroupUnread
  <2>4. pc[p] = "prepare" /\ Goto(p, "open") /\ UNCHANGED disk
    BY <1>6 DEF PrepareGroupUnread
  <2> QED BY <1>4, <2>1, <2>3, <2>4
<1>7. CASE OpenFile(p)
  <2>1. /\ pc'[p] = "write" /\ loc'[p].todo = loc[p].todo /\ loc'[p].cur = loc[p].cur /\ loc'[p].out = loc[p].out
        /\ loc'[p].linked
    BY <1>1, <1>3, <1>7 DEF OpenFile, Goto, SetLoc, LocType
  <2>2. disk'[r] = [disk[r] EXCEPT ![loc[p].cur] = Torn] /\ disk'[r] # NoRow
    BY <1>1, <1>7, NullsAssumption DEF OpenFile, TypeOK, FileState, Unreadable
  <2>3. loc[p].cur \in Groups /\ loc[p].cur \in loc[p].todo /\ loc[p].out \in After(p, loc[p].cur, r)
    BY <1>1, <1>7 DEF OpenFile, WriteInv, LocType
  <2>4. \A h \in Groups \ {loc[p].cur} : ReadFile(r, h)' = ReadFile(r, h)
    BY <1>1, <2>2 DEF ReadFile
  <2> QED BY <1>1, <1>2, <1>3, <1>7, <2>1, <2>2, <2>3, <2>4 DEF WriteInv, OpenFile, RowSteps, LocType
<1>8. CASE WriteFile(p)
  <2>0. PICK c : c = loc[p].cur
    OBVIOUS
  <2> DEFINE rest == loc[p].todo \ {c}
  <2>1. c \in Groups /\ c \in loc[p].todo /\ loc[p].out \in After(p, c, r) /\ loc[p].linked /\ disk[r][c] = Torn
    BY <1>1, <1>8, <2>0 DEF WriteFile, WriteInv, LocType
  <2>2. disk'[r] = [disk[r] EXCEPT ![c] = loc[p].out] /\ disk'[r] # NoRow
    <3>1. disk' = [disk EXCEPT ![r] = [@ EXCEPT ![c] = loc[p].out]]
      BY <1>8, <2>0, <2>1 DEF WriteFile
    <3>2. [disk[r] EXCEPT ![c] = loc[p].out] \in [Groups -> FileState]
      BY <1>1, <2>1 DEF LocType, FileState
    <3> QED BY <1>1, <3>1, <3>2, NullsAssumption DEF TypeOK
  <2>3. ReadFile(r, c)' = loc[p].out
    <3>1. disk'[r][c] = loc[p].out
      BY <1>1, <2>1, <2>2
    <3>2. loc[p].out \notin Unreadable
      BY <1>1, NullsAssumption DEF LocType
    <3> QED BY <2>2, <3>1, <3>2 DEF ReadFile
  <2>4. \A h \in Groups \ {c} : ReadFile(r, h)' = ReadFile(r, h)
    BY <1>1, <2>2 DEF ReadFile
  <2>5. \A g \in Groups \ rest : ReadFile(r, g)' \in After(p, g, r)'
    <3> SUFFICES ASSUME NEW g \in Groups \ rest PROVE ReadFile(r, g)' \in After(p, g, r)
      BY <1>2
    <3>1. CASE g = c
      BY <2>1, <2>3, <3>1
    <3>2. CASE g # c
      <4>1. g \in Groups \ loc[p].todo
        BY <3>2
      <4>2. ReadFile(r, g) \in After(p, g, r)
        BY <1>8, <4>1 DEF WriteInv, WriteFile
      <4> QED BY <2>4, <3>2, <4>2
    <3> QED BY <3>1, <3>2
  <2>6. rest \subseteq Groups /\ \A g \in rest : ReadFile(r, g)' = Table!Base(before[r], g)'
    BY <1>1, <1>2, <1>8, <2>0, <2>4 DEF WriteInv, WriteFile, LocType
  <2>7. CASE rest = {}
    <3>1. pc'[p] = "read"
      BY <1>1, <1>3, <1>8, <2>0, <2>7 DEF WriteFile, AfterGroup, Goto
    <3> QED BY <1>2, <1>3, <1>8, <2>5, <2>7, <3>1 DEF WriteInv, WriteFile
  <2>8. CASE rest # {}
    <3>1. pc'[p] = "prepare" /\ loc'[p].todo = rest
      BY <1>1, <1>3, <1>8, <2>0, <2>8 DEF WriteFile, AfterGroup, Goto, SetLoc, LocType
    <3> HIDE DEF rest
    <3>2. rest \subseteq NamedGroups(req[p])
      BY <1>8 DEF rest, WriteInv, WriteFile
    <3> QED BY <1>2, <1>3, <1>8, <2>5, <2>6, <3>1, <3>2 DEF WriteInv, WriteFile, RowSteps
  <2> QED BY <2>7, <2>8
<1> QED BY <1>5, <1>6, <1>7, <1>8

\* A request keeps what it has established of the rows it has for itself.
LEMMA OwnWorking ==
  ASSUME Known, HNext, NEW p \in Procs, Step(p) \/ Cancel(p), pc'[p] # "idle", NEW r \in solo'[p]
  PROVE  IF Kind(p)' \in BulkKinds THEN View(r)' = before'[r] ELSE WriteInv(p, r)'
<1> USE DEF Known
<1>1. /\ p \in Active /\ r \in solo[p] /\ req'[p] = req[p] /\ solo[p] \in SUBSET Rows
      /\ pc \in [Procs -> Label]
  BY HistoryStep DEF Active, Release, TypeInv, TypeOK
<1>2. r \in Footprint(req[p]) /\ r \in Rows
  BY <1>1 DEF Safe, Sharing
<1>3. before'[r] = before[r]
  BY <1>1, <1>2, BeforeStep DEF Claimed, Active, Footprint
<1>4. IF Kind(p) \in BulkKinds THEN View(r) = before[r] ELSE WriteInv(p, r)
  BY <1>1 DEF HistoryInv, Working
<1>5. CASE Kind(p) \in BulkKinds
  BY <1>1, <1>2, <1>3, <1>4, <1>5, BulkKeepsFiles, SameFiles DEF Kind
<1>6. CASE Kind(p) \notin BulkKinds
  <2>1. /\ Kind(p) \in RowKinds /\ r = Row(p) /\ WriteInv(p, r) /\ FlowOf(p)
        /\ Kind(p)' = Kind(p) /\ TypeOK /\ disk[r] \in [Groups -> FileState] \cup {NoRow}
        /\ pc[p] \in {"prepare", "open", "write"} \cup RowSteps => disk[r] # NoRow
    <3>1. Kind(p) \in RowKinds /\ r = Row(p)
      BY <1>1, <1>2, <1>6, ActiveRequest
    <3>2. RowProgress(p, r)
      BY <1>1, <1>6 DEF Safe, Progress
    <3>3. TypeOK /\ FlowOf(p) /\ Kind(p)' = Kind(p)
      BY <1>1 DEF TypeInv, Flow, Kind
    <3>4. disk[r] \in [Groups -> FileState] \cup {NoRow}
      BY <1>2, <3>3 DEF TypeOK
    <3> QED BY <1>4, <1>6, <3>1, <3>2, <3>3, <3>4 DEF RowProgress
  <2> SUFFICES WriteInv(p, r)'
    BY <1>6, <2>1
  <2>2. CASE MakeRowDir(p)
    <3>1. Kind(p) \in {"insert", "group"} /\ AfterGroup(p, NamedGroups(req[p])) /\ View(r) = before[r]
      BY <2>1, <2>2 DEF MakeRowDir, FlowOf, NamedGroups, Kind, WriteInv
    <3>2. disk' = [disk EXCEPT ![r] = IF @ = NoRow THEN BareRow ELSE @]
      BY <2>1, <2>2 DEF MakeRowDir
    <3>3. disk'[r] = IF disk[r] = NoRow THEN BareRow ELSE disk[r]
      BY <1>2, <2>1, <3>2 DEF TypeOK
    <3> QED BY <1>1, <1>2, <1>3, <3>1, <3>3, LoopBegins DEF WriteKinds
  <2>3. CASE CheckRowExists(p)
    <3>1. Kind(p) = "update" /\ AfterGroup(p, NamedGroups(req[p])) /\ View(r) = before[r] /\ disk' = disk
          /\ disk[r] # NoRow
      BY <2>1, <2>3 DEF CheckRowExists, FlowOf, NamedGroups, Kind, WriteInv
    <3>2. before[r] # NoRow
      BY <1>2, <2>1, <3>1, Viewed, GroupsAssumption DEF Groups
    <3> QED BY <1>1, <1>2, <1>3, <3>1, <3>2, LoopBegins DEF WriteKinds
  <2>4. CASE PrepareGroup(p) \/ PrepareGroupUnread(p) \/ OpenFile(p) \/ WriteFile(p)
    <3>1. Kind(p) \in WriteKinds /\ disk[r] # NoRow
      BY <2>1, <2>4 DEF PrepareGroup, PrepareGroupUnread, OpenFile, WriteFile, FlowOf
    <3> QED BY <1>1, <1>2, <1>3, <2>1, <2>4, <3>1, OwnWriting
  <2>5. CASE ListRowFiles(p) \/ RemoveFile(p) \/ RemoveRowDir(p)
    <3>1. pc'[p] \in {"rmfile", "sqldrop"}
      BY <1>1, <2>5 DEF ListRowFiles, RemoveFile, RemoveRowDir, Goto
    <3> QED BY <3>1 DEF WriteInv, RowSteps
  <2>6. CASE ReadGroup(p) \/ ReadGroupFails(p) \/ SqlDelete(p)
    <3>1. pc[p] \in RowSteps /\ pc'[p] \in RowSteps /\ disk' = disk
      BY <1>1, <2>6 DEF ReadGroup, ReadGroupFails, SqlDelete, Goto, AfterRead, RowSteps
    <3>2. \A g \in Groups : ReadFile(r, g)' = ReadFile(r, g) /\ After(p, g, r)' = After(p, g, r)
      BY <1>1, <1>2, <1>3, <3>1, SameFiles DEF After, Table!GroupAfter, Table!Base, Table!Merge
    <3>3. Groups' = Groups
      BY DEF Groups
    <3> QED BY <1>3, <2>1, <3>1, <3>2, <3>3 DEF WriteInv, RowSteps
  <2>7. CASE CreateDuckDBTable(p) \/ TruncateTable(p) \/ SelectRowIds(p) \/ SelectRowIdsFails(p) \/ ListRows(p)
             \/ PruneRow(p) \/ PruneDone(p) \/ NextRow(p) \/ BulkDone(p)
    BY <2>1, <2>7, <1>6 DEF CreateDuckDBTable, TruncateTable, SelectRowIds, SelectRowIdsFails, ListRows, PruneRow,
       PruneDone, NextRow, BulkDone, FlowOf, BulkKinds
  <2>8. CASE RejectUpdate(p) \/ RemoveRowDirFails(p) \/ SqlDrop(p) \/ SqlFails(p) \/ Cancel(p) \/ SqlInsert(p)
    BY <1>1, <1>6, <2>8 DEF RejectUpdate, RemoveRowDirFails, SqlDrop, SqlFails, Cancel, SqlInsert, Finish, Abort, Release
  <2> QED BY <2>2, <2>3, <2>4, <2>5, <2>6, <2>7, <2>8 DEF Step
<1> QED BY <1>5, <1>6

-----------------------------------------------------------------------------
(* Every step is one of RowTable's. *)

Quietly(p) == UNCHANGED <<req, solo, tainted>> /\ pc'[p] # "idle"
Misreads(p) ==
  \E S \in SUBSET Footprint(req[p]) :
    /\ "read" \in Faults /\ UNCHANGED req /\ pc'[p] # "idle"
    /\ solo' = [solo EXCEPT ![p] = @ \ S] /\ tainted' = tainted \cup S
Succeeds(p) == UNCHANGED disk /\ Finish(p) /\ (SqlDrop(p) \/ (SqlInsert(p) /\ Kind(p) \notin BulkKinds) \/ BulkDone(p))
Rejects(p) == UNCHANGED disk /\ RejectUpdate(p)
GivesUp(p) == UNCHANGED disk /\ Abort(p)

LEMMA StepKinds ==
  ASSUME TypeInv, NEW p \in Procs, Step(p) \/ Cancel(p)
  PROVE  p \in Active /\ (Quietly(p) \/ Misreads(p) \/ Succeeds(p) \/ Rejects(p) \/ GivesUp(p))
<1>0. /\ pc \in [Procs -> Label] /\ solo \in [Procs -> SUBSET Rows]
      /\ p \in Active
  BY HistoryStep DEF TypeInv, TypeOK, Active
<1> USE DEF Goto, History, AfterGroup
<1>1. CASE MakeRowDir(p)
  BY <1>0, <1>1 DEF MakeRowDir, Quietly
<1>2. CASE CheckRowExists(p)
  BY <1>0, <1>2 DEF CheckRowExists, Quietly
<1>3. CASE PrepareGroup(p)
  BY <1>0, <1>3 DEF PrepareGroup, Quietly
<1>4. CASE PrepareGroupUnread(p)
  BY <1>0, <1>4 DEF PrepareGroupUnread, Quietly
<1>5. CASE OpenFile(p)
  BY <1>0, <1>5 DEF OpenFile, Quietly
<1>6. CASE WriteFile(p)
  BY <1>0, <1>6 DEF WriteFile, Quietly
<1>7. CASE ListRowFiles(p)
  BY <1>0, <1>7 DEF ListRowFiles, Quietly
<1>8. CASE RemoveFile(p)
  BY <1>0, <1>8 DEF RemoveFile, Quietly
<1>9. CASE RemoveRowDir(p)
  BY <1>0, <1>9 DEF RemoveRowDir, Quietly
<1>10. CASE SqlDelete(p)
  BY <1>0, <1>10 DEF SqlDelete, Quietly
<1>11. CASE CreateDuckDBTable(p)
  BY <1>0, <1>11 DEF CreateDuckDBTable, Quietly
<1>12. CASE TruncateTable(p)
  BY <1>0, <1>12 DEF TruncateTable, Quietly
<1>13. CASE SelectRowIds(p)
  BY <1>0, <1>13 DEF SelectRowIds, Quietly
<1>14. CASE ListRows(p)
  BY <1>0, <1>14 DEF ListRows, Quietly
<1>15. CASE PruneRow(p)
  BY <1>0, <1>15 DEF PruneRow, Quietly
<1>16. CASE PruneDone(p)
  BY <1>0, <1>16 DEF PruneDone, Quietly
<1>17. CASE NextRow(p)
  BY <1>0, <1>17 DEF NextRow, Quietly
<1>20. CASE ReadGroup(p)
  BY <1>0, <1>20 DEF ReadGroup, AfterRead, Quietly
<1>21. CASE ReadGroupFails(p)
  <2>1. Row(p) \in Footprint(req[p])
    <3>1. Row(p) \in Rows
      BY <1>21, RowOfStep DEF ReadGroupFails
    <3>2. CASE Kind(p) \in BulkKinds
      <4>1. Row(p) \notin Hidden
        BY <1>21, <3>2 DEF ReadGroupFails, TypeInv, Cursor, CursorOf, RowSteps
      <4> QED BY <1>0, <3>1, <3>2, <4>1, ActiveRequest
    <3> QED BY <1>0, <3>1, <3>2, ActiveRequest
  <2>2. pc'[p] # "idle"
    BY <1>0, <1>21 DEF ReadGroupFails, AfterRead
  <2> QED BY <1>0, <1>21, <2>1, <2>2 DEF ReadGroupFails, Misreads
<1>22. CASE SelectRowIdsFails(p)
  <2>1. pc'[p] # "idle"
    BY <1>0, <1>22 DEF SelectRowIdsFails
  <2> QED BY <1>0, <1>22, <2>1 DEF SelectRowIdsFails, Misreads
<1>23. CASE SqlInsert(p)
  BY <1>0, <1>23 DEF SqlInsert, Quietly, Succeeds
<1>24. CASE SqlDrop(p) \/ BulkDone(p)
  BY <1>0, <1>24 DEF SqlDrop, BulkDone, Succeeds
<1>25. CASE RejectUpdate(p)
  BY <1>0, <1>25 DEF RejectUpdate, Rejects
<1>26. CASE RemoveRowDirFails(p) \/ SqlFails(p) \/ Cancel(p)
  BY <1>0, <1>26 DEF RemoveRowDirFails, SqlFails, Cancel, GivesUp
<1> QED
  BY <1>0, <1>1, <1>2, <1>3, <1>4, <1>5, <1>6, <1>7, <1>8, <1>9, <1>10, <1>11, <1>12, <1>13, <1>14, <1>15, <1>16, <1>17, <1>20, <1>21, <1>22, <1>23, <1>24, <1>25, <1>26 DEF Step

\* Only p's own step changes who is at work.
LEMMA ClaimedStep ==
  ASSUME TypeInv, NEW p \in Procs, Step(p) \/ Cancel(p)
  PROVE  /\ Quietly(p) \/ Misreads(p) => \A r : Claimed(r)' <=> Claimed(r)
         /\ Release(p) => \A r : Claimed(r)' <=> \E o \in Active \ {p} : r \in Footprint(req[o])
<1>1. \A o \in Procs \ {p} : pc'[o] = pc[o] /\ req'[o] = req[o]
  BY StepFrame
<1>2. p \in Active
  BY StepKinds
<1>3. \A q : Footprint(q)' = Footprint(q)
  BY DEF Footprint
<1>4. CASE Quietly(p) \/ Misreads(p)
  <2>1. Active' = Active /\ \A o \in Active : Footprint(req[o])' = Footprint(req[o])
    BY <1>1, <1>2, <1>4 DEF Active, Quietly, Misreads, Footprint
  <2> QED BY <2>1, <1>4 DEF Claimed, Quietly, Misreads, Release, TypeInv, TypeOK
<1>5. CASE Release(p)
  <2>1. Active' = Active \ {p} /\ \A o \in Active \ {p} : Footprint(req[o])' = Footprint(req[o])
    BY <1>1, <1>2, <1>5 DEF Active, Release, Footprint, TypeInv, TypeOK
  <2>2. pc'[p] = "idle"
    BY <1>5 DEF Release, TypeInv, TypeOK
  <2> QED BY <2>1, <2>2 DEF Claimed, Quietly, Misreads
<1> QED BY <1>4, <1>5

LEMMA HistoryTypes ==
  ASSUME HNext, TypeOK', before \in [Rows -> RowData \cup {NoRow}]
  PROVE  before' \in [Rows -> RowData \cup {NoRow}]
<1>1. ASSUME NEW r \in Rows PROVE View(r)' \in RowData \cup {NoRow}
  <2>1. \A g \in Groups : ReadFile(r, g)' \in GroupData
    BY EmptyDataType DEF TypeOK, ReadFile, FileState
  <2> QED BY <2>1 DEF View, RowOnDisk, RowData
<1> QED BY <1>1 DEF HNext

LEMMA HistoryInvStep ==
  ASSUME Known, HNext, NEW p \in Procs, Step(p) \/ Cancel(p)
  PROVE  HistoryInv'
<1> USE DEF Known
<1>0. Next
  BY DEF HNext
<1>1. TypeInv'
  BY <1>0, TypeNext
<1>2. before' \in [Rows -> RowData \cup {NoRow}]
  BY <1>1, HistoryTypes DEF TypeInv, HistoryInv
<1>3. \A o \in Procs : pc'[o] = "idle" <=> req'[o] = NoReq
  <2>1. \A o \in Procs : pc'[o] # "idle" => req'[o] # NoReq
    BY <1>1, TableAssumption DEF TypeInv, Flow, FlowOf
  <2>2. \A o \in Procs \ {p} : pc'[o] = pc[o] /\ req'[o] = req[o]
    BY StepFrame
  <2>3. pc'[p] = "idle" => req'[p] = NoReq
    BY HistoryStep DEF Release, TypeInv, TypeOK
  <2> QED BY <2>1, <2>2, <2>3 DEF HistoryInv
<1>4. Unclaimed'
  BY BeforeStep DEF Unclaimed
<1>5. Working'
  BY OwnWorking, OthersWorking DEF Working, Active
<1> QED BY <1>2, <1>3, <1>4, <1>5 DEF HistoryInv

LEMMA OutsideRows ==
  ASSUME Known, HNext, NEW p \in Procs, Step(p) \/ Cancel(p), NEW r \in Rows \ Footprint(req[p])
  PROVE  before'[r] = before[r]
<1> USE DEF Known
<1>1. p \in Active /\ pc[p] # "idle"
  BY StepKinds DEF Active
<1>2. View(r)' = View(r)
  BY <1>1, Touch, SameFiles
<1>3. (Quietly(p) \/ Misreads(p)) \/ Release(p)
  BY StepKinds DEF Succeeds, Rejects, GivesUp, RejectUpdate, Finish, Abort
<1>4. Claimed(r)' <=> Claimed(r)
  BY <1>1, <1>3, ClaimedStep DEF Claimed
<1> QED BY <1>2, <1>4, BeforeStep DEF HistoryInv, Unclaimed

\* While a request goes on its rows stay as they were before it.
LEMMA GoingOn ==
  ASSUME Known, HNext, NEW p \in Procs, Step(p) \/ Cancel(p), Quietly(p) \/ Misreads(p), NEW r \in Rows
  PROVE  before'[r] = before[r]
<1>1. CASE r \in Footprint(req[p])
  BY <1>1, StepKinds, ClaimedStep, BeforeStep DEF Known, Claimed
<1> QED BY <1>1, OutsideRows

\* When a request ends, the rows it had for itself are as the files show them.
LEMMA Ended ==
  ASSUME Known, HNext, NEW p \in Procs, Step(p) \/ Cancel(p), Release(p), UNCHANGED disk, NEW r \in solo[p]
  PROVE  before'[r] = View(r)
<1> USE DEF Known
<1>1. p \in Active
  BY StepKinds
<1>2. r \in Rows /\ ~Claimed(r)'
  BY <1>1, ClaimedStep DEF Safe, Sharing, TypeInv, TypeOK
<1> QED BY <1>2, BeforeStep, SameFiles

\* The rows of a request that gives up which it cannot have changed.
LEMMA Spared ==
  ASSUME Known, NEW p \in Active, NEW r \in solo[p], r \notin Exposed(p)
  PROVE  View(r) = before[r]
<1> USE DEF Known
<1>1. IF Kind(p) \in BulkKinds THEN View(r) = before[r] ELSE WriteInv(p, r)
  BY DEF HistoryInv, Working
<1>2. CASE Kind(p) \notin BulkKinds
  <2>1. r = req[p].row
    BY <1>2, ActiveRequest DEF Safe, Sharing
  <2>2. pc[p] \in {"mkdir", "exists", "rmlist"}
    BY <1>2, <2>1 DEF Exposed, BulkKinds
  <2> QED BY <1>1, <1>2, <2>2 DEF WriteInv
<1> QED BY <1>1, <1>2

\* What a request that succeeds leaves of a row it had for itself is what
\* RowTable makes of it.
LEMMA Achieved ==
  ASSUME Known, NEW p \in Active, Succeeds(p) \/ Rejects(p), NEW r \in solo[p]
  PROVE  View(r) \in Table!RowAfter(req[p], before[r])
<1> USE DEF Known
<1>1. /\ p \in Procs /\ FlowOf(p) /\ r \in Rows /\ TypeOK /\ Kind(p) \in RowKinds \cup BulkKinds
      /\ IF Kind(p) \in BulkKinds THEN View(r) = before[r] ELSE WriteInv(p, r)
  BY ActiveRequest DEF HistoryInv, Working, TypeInv, TypeOK, Flow
<1>2. CASE Kind(p) \in BulkKinds
  BY <1>1, <1>2, TableNames DEF Table!RowAfter, Kind, BulkKinds
<1>3. CASE Kind(p) \notin BulkKinds
  <2>1. r = Row(p) /\ RowProgress(p, r) /\ WriteInv(p, r) /\ Kind(p) \in RowKinds
    BY <1>1, <1>3, ActiveRequest DEF Safe, Progress, Sharing
  <2>2. ~BulkDone(p)
    BY <1>1, <1>3 DEF BulkDone, FlowOf
  <2>3. CASE SqlDrop(p)
    <3>1. Kind(p) = "delete" /\ View(r) = NoRow
      BY <1>1, <2>1, <2>3 DEF SqlDrop, FlowOf, RowProgress, View
    <3> QED BY <1>3, <3>1, TableNames DEF Table!RowAfter, Kind
  <2>4. CASE RejectUpdate(p)
    <3>1. Kind(p) = "update" /\ View(r) = NoRow /\ before[r] = NoRow
      BY <1>1, <2>1, <2>4 DEF RejectUpdate, FlowOf, WriteInv, View
    <3> QED BY <1>3, <3>1, TableNames DEF Table!RowAfter, Kind
  <2>5. CASE SqlInsert(p)
    <3>1. /\ Kind(p) \in WriteKinds /\ View(r) = RowOnDisk(r) /\ (Kind(p) = "update" => before[r] # NoRow)
          /\ \A g \in Groups : ReadFile(r, g) \in After(p, g, r)
      BY <1>1, <1>3, <2>1, <2>5 DEF SqlInsert, FlowOf, RowProgress, WriteInv, RowSteps, View
    <3>2. View(r) \in [Groups -> GroupData] /\ \A g \in Groups : View(r)[g] \in After(p, g, r)
      BY <1>1, <3>1, ReadFileType DEF RowOnDisk
    <3> HIDE DEF Known
    <3>3. Table!RowAfter(req[p], before[r]) =
            {new \in [Groups -> GroupData] : \A g \in Groups : new[g] \in Table!GroupAfter(req[p], g, before[r])}
      BY <1>3, <3>1, TableNames DEF Table!RowAfter, Kind, WriteKinds
    <3> QED BY <3>2, <3>3 DEF After
  <2> QED BY <2>2, <2>3, <2>4, <2>5 DEF Succeeds, Rejects
<1> QED BY <1>2, <1>3

LEMMA StepSimulates ==
  ASSUME Known, HNext, NEW p \in Procs, Step(p) \/ Cancel(p)
  PROVE  [Table!Next]_Table!vars
<1> USE DEF Known
<1>1. /\ p \in Active /\ req[p] # NoReq /\ solo[p] \subseteq Footprint(req[p]) /\ Footprint(req[p]) \in SUBSET Rows
      /\ Footprint(req[p]) \subseteq solo[p] \cup tainted /\ solo \in [Procs -> SUBSET Rows]
      /\ req \in [Procs -> Requests \cup {NoReq}] /\ tainted \in SUBSET Rows
  BY StepKinds, ActiveRequest, TableAssumption DEF Safe, Sharing, TypeInv, TypeOK
<1>2. CASE Quietly(p)
  <2>1. \A r \in Rows : before'[r] = before[r]
    BY <1>2, GoingOn
  <2>2. Store' = Store
    BY <1>2, <2>1 DEF Store, Quietly
  <2> QED BY <1>2, <2>2 DEF Table!vars, Quietly
<1>3. CASE Misreads(p)
  <2>1. PICK S \in SUBSET Footprint(req[p]) : /\ "read" \in Faults /\ UNCHANGED req
                                              /\ solo' = [solo EXCEPT ![p] = @ \ S] /\ tainted' = tainted \cup S
    BY <1>3 DEF Misreads
  <2>2. \A r \in Rows : before'[r] = before[r]
    BY <1>3, GoingOn
  <2>3. Table!Forget(S)
    BY <2>1, <2>2 DEF Table!Forget, Store
  <2>4. Table!Misread(p)
    BY <1>1, <2>1, <2>3, TableNames DEF Table!Misread
  <2> QED BY <2>4 DEF Table!Next
<1>4. CASE GivesUp(p)
  <2>1. /\ Release(p) /\ UNCHANGED disk /\ tainted' = tainted \cup Exposed(p) /\ Exposed(p) \subseteq Footprint(req[p])
    BY <1>1, <1>4, ExposedFootprint DEF GivesUp, Abort
  <2>2. Table!End(p)
    BY <2>1 DEF Release, Table!End
  <2>3. ASSUME NEW r \in Rows PROVE Store'[r] = IF r \in Exposed(p) THEN Unknown ELSE Store[r]
    <3>1. CASE r \in Exposed(p) \/ r \in tainted
      BY <2>1, <3>1 DEF Store
    <3>2. CASE r \notin Exposed(p) /\ r \notin tainted
      <4>1. before'[r] = before[r]
        <5>1. CASE r \in solo[p]
          BY <1>1, <2>1, <3>2, <5>1, Ended, Spared
        <5>2. CASE r \notin solo[p]
          BY <1>1, <3>2, <5>2, OutsideRows
        <5> QED BY <5>1, <5>2
      <4> QED BY <2>1, <3>2, <4>1 DEF Store
    <3> QED BY <3>1, <3>2
  <2>4. Table!Forget(Exposed(p))
    BY <2>3 DEF Table!Forget, Store
  <2>5. Table!Fail(p)
    BY <1>1, <2>1, <2>2, <2>4, TableNames DEF Table!Fail
  <2> QED BY <2>5 DEF Table!Next
<1>5. CASE Succeeds(p) \/ Rejects(p)
  <2>1. /\ Release(p) /\ UNCHANGED disk
        /\ \/ tainted' = tainted \ Synced(p)
           \/ tainted' = tainted /\ Kind(p) = "update"
        /\ Synced(p) \subseteq solo[p] /\ (Kind(p) # "incr" => Synced(p) = solo[p])
    <3>1. RejectUpdate(p) => Kind(p) = "update"
      BY DEF RejectUpdate, TypeInv, Flow, FlowOf
    <3> QED BY <1>5, <3>1 DEF Succeeds, Rejects, Finish, RejectUpdate, Synced
  <2>2. Table!End(p)
    BY <2>1 DEF Release, Table!End
  <2>3. ASSUME NEW r \in Rows PROVE Table!Becomes(p, r, Store'[r]) /\ Store'[r] \in Table!Contents \cup {Unknown}
    <3>1. r \in tainted' => Store'[r] = Unknown
      BY DEF Store
    <3>2. r \notin tainted' => Store'[r] = before'[r]
      BY DEF Store
    <3>3. Store[r] = IF r \in tainted THEN Unknown ELSE before[r]
      BY DEF Store
    <3>4. before[r] \in RowData \cup {NoRow} /\ View(r) \in RowData \cup {NoRow} /\ before[r] # Unknown
      BY ViewType, TableAssumption DEF HistoryInv, TypeInv
    <3>5. CASE r \notin Footprint(req[p])
      <4>1. before'[r] = before[r] /\ (r \in tainted' <=> r \in tainted)
        BY <1>1, <2>1, <3>5, OutsideRows
      <4>2. Store'[r] = Store[r] /\ Store[r] \in RowData \cup {NoRow, Unknown}
        BY <3>1, <3>2, <3>3, <3>4, <4>1
      <4> QED BY <3>5, <4>2, TableNames DEF Table!Becomes
    <3>6. CASE r \in Footprint(req[p]) \ solo[p]
      <4>1. r \in tainted'
        BY <1>1, <2>1, <3>6
      <4> QED BY <3>1, <3>6, <4>1, TableNames DEF Table!Becomes
    <3>7. CASE r \in solo[p]
      <4>1. before'[r] = View(r) /\ View(r) \in Table!RowAfter(req[p], before[r])
        BY <1>1, <1>5, <2>1, <3>7, Ended, Achieved
      <4>2. CASE r \in tainted'
        <5>1. r \in tainted /\ ~Table!RepairsAll(req[p])
          BY <2>1, <3>7, <4>2 DEF Table!RepairsAll, Kind
        <5> QED BY <1>1, <3>1, <3>3, <3>7, <4>2, <5>1, TableNames DEF Table!Becomes
      <4>3. CASE r \notin tainted'
        <5>1. Store'[r] = View(r)
          BY <3>2, <4>1, <4>3
        <5>2. CASE r \in tainted
          BY <1>1, <3>3, <3>4, <3>7, <4>1, <5>1, <5>2, TableNames DEF Table!Becomes
        <5>3. CASE r \notin tainted
          BY <1>1, <3>3, <3>4, <3>7, <4>1, <5>1, <5>3, TableNames DEF Table!Becomes
        <5> QED BY <5>2, <5>3
      <4> QED BY <4>2, <4>3
    <3> QED BY <1>1, <3>5, <3>6, <3>7
  <2>4. Store' \in [Rows -> Table!Contents \cup {Unknown}]
    BY <2>3 DEF Store
  <2>5. Table!Answer(p)
    BY <1>1, <2>2, <2>3, <2>4 DEF Table!Answer
  <2> QED BY <2>5 DEF Table!Next
<1> QED BY <1>2, <1>3, <1>4, <1>5, StepKinds

\* A handler calls the engine.
LEMMA StartSimulates ==
  ASSUME Known, HNext, NEW p \in Procs, NEW q \in Requests, Start(p, q)
  PROVE  Table!Begin(p, q) /\ HistoryInv'
<1> USE DEF Known
<1>1. /\ pc[p] = "idle" /\ q.kind # "exec" /\ pc'[p] # "idle" /\ req' = [req EXCEPT ![p] = q] /\ UNCHANGED disk
      /\ req \in [Procs -> Requests \cup {NoReq}] /\ pc \in [Procs -> Label] /\ q # NoReq /\ req'[p] = q
      /\ \A o \in Procs \ {p} : pc'[o] = pc[o] /\ req'[o] = req[o] /\ loc'[o] = loc[o] /\ solo'[o] \subseteq solo[o]
      /\ pc'[p] \in {"mkdir", "exists", "rmlist", "create"} /\ Footprint(q) \subseteq Rows
      /\ solo \in [Procs -> SUBSET Rows] /\ req[p] = NoReq
  BY TableAssumption, RequestsAssumption
     DEF Start, Goto, FirstStep, SetLoc, TypeInv, TypeOK, HistoryInv, Footprint, Request
<1>2. Active' = Active \cup {p} /\ p \notin Active /\ \A x : Footprint(x)' = Footprint(x)
  BY <1>1 DEF Active, Footprint
<1>3. ASSUME NEW r \in Rows PROVE before'[r] = before[r] /\ View(r)' = View(r)
  <2>1. View(r)' = View(r)
    BY <1>1, SameFiles
  <2>2. CASE Claimed(r)'
    BY <2>1, <2>2, BeforeStep
  <2>3. CASE ~Claimed(r)'
    <3>1. ~Claimed(r)
      BY <1>1, <1>2, <2>3 DEF Claimed, Active, Footprint
    <3> QED BY <2>1, <2>3, <3>1, BeforeStep DEF HistoryInv, Unclaimed
  <2> QED BY <2>2, <2>3
<1>4. Table!Busy = UNION {Footprint(req[o]) : o \in Active}
  <2>1. {o \in Procs : req[o] # NoReq} = Active
    BY DEF HistoryInv, Active
  <2> QED BY <2>1, TableNames DEF Table!Busy
<1>5. Table!Forget((Footprint(q) \cap Table!Busy) \cup Overlooked(q))
  BY <1>3, <1>4 DEF Table!Forget, Store, Start
<1>6. Table!Begin(p, q)
  <2>1. Overlooked(q) \in SUBSET Hidden
    BY DEF Overlooked
  <2>2. ASSUME q.kind \in {"load", "sync"}, NEW r \in Hidden \ Table!Busy, Store[r] # Unknown
        PROVE  r \in Overlooked(q) <=> Store[r] # NoRow
    <3>1. r \in Rows /\ ~Claimed(r)
      BY <1>4, HiddenAssumption DEF Claimed
    <3>2. Store[r] = before[r] /\ before[r] = View(r)
      BY <2>2, <3>1 DEF Store, HistoryInv, Unclaimed
    <3>3. View(r) # NoRow <=> disk[r] # NoRow
      BY <3>1, GroupsAssumption, Viewed DEF TypeInv, Groups
    <3> QED BY <2>2, <3>2, <3>3 DEF Overlooked
  <2>3. Table!Missed(q, Overlooked(q))
    BY <2>1, <2>2 DEF Table!Missed, Overlooked
  <2> QED BY <1>1, <1>4, <1>5, <2>1, <2>3, TableNames DEF Table!Begin, Start
<1>7. before' \in [Rows -> RowData \cup {NoRow}]
  BY <1>3 DEF HNext, HistoryInv
<1>8. Working'
  <2> SUFFICES ASSUME NEW o \in Procs, o \in Active', NEW r \in solo'[o]
               PROVE IF Kind(o)' \in BulkKinds THEN View(r)' = before'[r] ELSE WriteInv(o, r)'
    BY DEF Working, Active
  <2>1. CASE o = p
    <3>1. r \in Rows /\ ~Claimed(r)
      BY <1>1, <2>1 DEF Start, Claimed
    <3>2. View(r)' = before'[r]
      BY <1>3, <3>1 DEF HistoryInv, Unclaimed
    <3> QED BY <1>1, <2>1, <3>2 DEF WriteInv, RowSteps
  <2>2. CASE o # p
    <3>1. /\ o \in Active /\ r \in solo[o] /\ r \in Rows /\ pc'[o] = pc[o] /\ req'[o] = req[o] /\ loc'[o] = loc[o]
          /\ loc[o] \in LocType
      BY <1>1, <1>2, <2>2 DEF TypeInv, TypeOK
    <3>2. IF Kind(o) \in BulkKinds THEN View(r) = before[r] ELSE WriteInv(o, r)
      BY <3>1 DEF HistoryInv, Working
    <3>3. /\ \A g \in Groups : /\ After(o, g, r)' = After(o, g, r) /\ ReadFile(r, g)' = ReadFile(r, g)
                               /\ Table!Base(before[r], g)' = Table!Base(before[r], g)
          /\ Groups' = Groups
      BY <1>1, <1>3, <3>1, SameFiles DEF After, Table!GroupAfter, Table!Base, Table!Merge, Groups
    <3> QED BY <1>1, <1>3, <3>1, <3>2, <3>3 DEF WriteInv, Kind, NamedGroups, LocType
  <2> QED BY <2>1, <2>2
<1>9. Unclaimed'
  BY BeforeStep DEF Unclaimed
<1>10. \A o \in Procs : pc'[o] = "idle" <=> req'[o] = NoReq
  BY <1>1 DEF HistoryInv
<1> QED BY <1>6, <1>7, <1>8, <1>9, <1>10 DEF HistoryInv

LEMMA DMLSimulates ==
  ASSUME Known, HNext, NEW q \in Requests, DirectDML(q)
  PROVE  Table!Execute(q) /\ HistoryInv'
<1> USE DEF Known
<1>1. /\ UNCHANGED <<disk, pc, req, loc>> /\ tainted' = tainted \cup {q.row} /\ q.kind = "exec"
      /\ solo' = [p \in Procs |-> solo[p] \ {q.row}] /\ solo \in [Procs -> SUBSET Rows]
  BY DEF DirectDML, TypeInv, TypeOK
<1>2. Active' = Active /\ \A r : Claimed(r)' <=> Claimed(r)
  BY <1>1 DEF Active, Claimed, Footprint
<1>3. ASSUME NEW r \in Rows PROVE before'[r] = before[r] /\ View(r)' = View(r)
  BY <1>1, <1>2, BeforeStep, SameFiles DEF HistoryInv, Unclaimed
<1>4. Table!Forget({q.row})
  BY <1>1, <1>3 DEF Table!Forget, Store
<1>5. Table!Execute(q)
  BY <1>1, <1>4 DEF Table!Execute
<1>6. Working'
  <2> SUFFICES ASSUME NEW o \in Active, NEW r \in solo'[o]
               PROVE IF Kind(o)' \in BulkKinds THEN View(r)' = before'[r] ELSE WriteInv(o, r)'
    BY <1>2 DEF Working
  <2>1. /\ r \in solo[o] /\ r \in Rows /\ loc[o] \in LocType
    BY <1>1 DEF Active, TypeInv, TypeOK
  <2>2. IF Kind(o) \in BulkKinds THEN View(r) = before[r] ELSE WriteInv(o, r)
    BY <2>1 DEF HistoryInv, Working
  <2>3. /\ \A g \in Groups : /\ After(o, g, r)' = After(o, g, r) /\ ReadFile(r, g)' = ReadFile(r, g)
                             /\ Table!Base(before[r], g)' = Table!Base(before[r], g)
        /\ Groups' = Groups
    BY <1>1, <1>3, <2>1, SameFiles DEF After, Table!GroupAfter, Table!Base, Table!Merge, Groups
  <2> QED BY <1>1, <1>3, <2>1, <2>2, <2>3 DEF WriteInv, Kind, NamedGroups, LocType
<1>7. Unclaimed'
  BY BeforeStep DEF Unclaimed
<1>8. before' \in [Rows -> RowData \cup {NoRow}]
  BY <1>3 DEF HNext, HistoryInv
<1>9. \A o \in Procs : pc'[o] = "idle" <=> req'[o] = NoReq
  BY <1>1 DEF HistoryInv
<1> QED BY <1>5, <1>6, <1>7, <1>8, <1>9 DEF HistoryInv

LEMMA CrashSimulates ==
  ASSUME Known, HNext, Crash
  PROVE  Table!Crash /\ HistoryInv'
<1> USE DEF Known
<1>1. Active' = {} /\ tainted' = Rows
  BY DEF Crash, Active
<1>2. Table!Crash
  BY <1>1 DEF Crash, Table!Crash, Table!Forget, Store
<1>3. TypeOK'
  BY TypeNext DEF HNext, TypeInv
<1>4. before' \in [Rows -> RowData \cup {NoRow}]
  BY <1>3, HistoryTypes DEF HistoryInv
<1>5. Working' /\ Unclaimed'
  BY <1>1, BeforeStep DEF Working, Unclaimed
<1>6. \A o \in Procs : pc'[o] = "idle" <=> req'[o] = NoReq
  BY DEF Crash
<1> QED BY <1>2, <1>4, <1>5, <1>6 DEF HistoryInv

LEMMA HistoryInit == HInit => Known /\ Table!Init
<1> SUFFICES ASSUME HInit PROVE Known /\ Table!Init
  OBVIOUS
<1>1. TypeInv /\ Safe
  BY TypeInit, SafeInit DEF HInit
<1>2. Active = {} /\ tainted = {} /\ req = [p \in Procs |-> NoReq] /\ solo = [p \in Procs |-> {}]
  BY DEF HInit, Init, Active
<1>3. before \in [Rows -> RowData \cup {NoRow}]
  BY <1>1, ViewType DEF HInit, TypeInv
<1>4. HistoryInv
  BY <1>2, <1>3 DEF HistoryInv, Working, Unclaimed, HInit, Init
<1>5. Table!Init
  BY <1>2, <1>3, TableNames DEF Table!Init, Store
<1> QED BY <1>1, <1>4, <1>5 DEF Known

LEMMA HistoryNext ==
  ASSUME Known, [HNext]_hvars
  PROVE  Known' /\ [Table!Next]_Table!vars
<1>1. CASE UNCHANGED hvars
  <2>1. (TypeInv /\ Safe)'
    BY <1>1, TypeNext, SafeNext DEF hvars, Known
  <2>2. Unclaimed'
    BY <1>1 DEF hvars, vars, Known, HistoryInv, Unclaimed, Claimed, Active, Footprint, View, RowOnDisk, ReadFile
  <2>3. Working'
    <3> SUFFICES ASSUME NEW o \in Active, NEW r \in solo[o]
                 PROVE IF Kind(o)' \in BulkKinds THEN View(r)' = before'[r] ELSE WriteInv(o, r)'
      BY <1>1 DEF Working, Active, hvars, vars
    <3>1. /\ View(r)' = View(r) /\ Groups' = Groups
          /\ \A g : /\ After(o, g, r)' = After(o, g, r) /\ ReadFile(r, g)' = ReadFile(r, g)
                    /\ Table!Base(before[r], g)' = Table!Base(before[r], g)
      BY <1>1 DEF hvars, vars, View, RowOnDisk, ReadFile, After, Table!GroupAfter, Table!Base, Table!Merge, Groups
    <3>2. IF Kind(o) \in BulkKinds THEN View(r) = before[r] ELSE WriteInv(o, r)
      BY DEF Known, HistoryInv, Working
    <3> QED BY <1>1, <3>1, <3>2 DEF WriteInv, Kind, NamedGroups, hvars, vars
  <2>4. HistoryInv'
    BY <1>1, <2>2, <2>3 DEF hvars, vars, Known, HistoryInv
  <2>5. UNCHANGED Table!vars
    BY <1>1 DEF hvars, vars, Table!vars, Store
  <2> QED BY <2>1, <2>4, <2>5 DEF Known
<1>2. CASE HNext
  <2>1. Next /\ (TypeInv /\ Safe)'
    BY <1>2, TypeNext, SafeNext DEF HNext, Known
  <2>2. ASSUME NEW p \in Procs, NEW q \in Requests, Start(p, q) PROVE HistoryInv' /\ Table!Next
    BY <1>2, <2>2, StartSimulates DEF Table!Next
  <2>3. ASSUME NEW p \in Procs, Step(p) \/ Cancel(p) PROVE HistoryInv' /\ [Table!Next]_Table!vars
    BY <1>2, <2>3, HistoryInvStep, StepSimulates
  <2>4. ASSUME NEW q \in Requests, DirectDML(q) PROVE HistoryInv' /\ Table!Next
    BY <1>2, <2>4, DMLSimulates DEF Table!Next
  <2>5. ASSUME Crash PROVE HistoryInv' /\ Table!Next
    BY <1>2, <2>5, CrashSimulates DEF Table!Next
  <2> QED BY <2>1, <2>2, <2>3, <2>4, <2>5 DEF Next, Known
<1> QED BY <1>1, <1>2

\* Every run of the engine, with any number of goroutines and any faults, is one
\* of the table of rows in which a request takes effect in one step.
THEOREM EngineIsRowTable == HSpec => ImplementsRowTable
<1>1. HInit => Known /\ Table!Init
  BY HistoryInit
<1>2. Known /\ [HNext]_hvars => Known' /\ [Table!Next]_Table!vars
  BY HistoryNext
<1> QED BY <1>1, <1>2, PTL DEF HSpec, ImplementsRowTable, Table!Spec
=============================================================================
