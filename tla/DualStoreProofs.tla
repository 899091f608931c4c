--------------------------- MODULE DualStoreProofs ---------------------------
(* Safety of DualStore for any number of goroutines, rows, groups, columns   *)
(* and values, any set of requests and any faults.                           *)
EXTENDS DualStoreInv, TLAPS

LEMMA EmptyDataType == EmptyData \in GroupData
<1>1. EmptyData \in [{} -> Vals]
  BY DEF EmptyData
<1>2. {} \in SUBSET Cols
  OBVIOUS
<1> QED
  BY <1>1, <1>2 DEF GroupData

LEMMA MergeType ==
  ASSUME NEW a \in GroupData, NEW b \in GroupData
  PROVE  Merge(a, b) \in GroupData
<1>1. PICK S \in SUBSET Cols : a \in [S -> Vals]
  BY DEF GroupData
<1>2. PICK T \in SUBSET Cols : b \in [T -> Vals]
  BY DEF GroupData
<1>3. Merge(a, b) \in [S \cup T -> Vals]
  BY <1>1, <1>2 DEF Merge
<1>4. S \cup T \in SUBSET Cols
  OBVIOUS
<1> QED
  BY <1>3, <1>4 DEF GroupData

LEMMA NoDataType == NoData \in RowData
  BY EmptyDataType DEF NoData, RowData

LEMMA IdleLocType == IdleLoc \in LocType
  BY EmptyDataType, NoDataType DEF IdleLoc, LocType

LEMMA ReadFileType ==
  ASSUME TypeOK, NEW r \in Rows, NEW g \in Groups
  PROVE  ReadFile(r, g) \in GroupData
  BY EmptyDataType DEF TypeOK, ReadFile, FileState

TypeInv == TypeOK /\ Flow /\ Cursor

LEMMA TypeInit == Init => TypeInv
<1> SUFFICES ASSUME Init PROVE TypeInv
  OBVIOUS
<1> USE DEF Init
<1>1. TypeOK
  <2>1. disk \in [Rows -> [Groups -> FileState] \cup {NoRow}] /\ duck \in [Rows -> RowData \cup {NoRow}]
    BY SeedAssumption DEF RowData, FileState
  <2>2. loc \in [Procs -> LocType]
    BY IdleLocType
  <2>3. ever \in [Rows -> SUBSET (Groups \X GroupData)]
    BY SeedAssumption DEF RowData
  <2> QED
    BY <2>1, <2>2, <2>3 DEF TypeOK, Label
<1>2. Flow
  BY DEF Flow, FlowOf, RowSteps
<1>3. Cursor
  <2>1. pc = [p \in Procs |-> "idle"] /\ loc = [p \in Procs |-> IdleLoc]
    OBVIOUS
  <2>2. IdleLoc.left \cap Hidden = {}
    BY DEF IdleLoc
  <2> QED
    BY <2>1, <2>2 DEF Cursor, CursorOf, RowSteps
<1> QED
  BY <1>1, <1>2, <1>3 DEF TypeInv

LEMMA TypeStart ==
  ASSUME TypeInv, NEW p \in Procs, NEW q \in Requests, Start(p, q)
  PROVE  TypeInv'
<1> USE RequestsAssumption DEF TypeInv, Start, Goto
<1>0. q.row \in Rows /\ q.kind \in RowKinds \cup BulkKinds \cup {"exec"}
  BY DEF Request
<1>1. TypeOK'
  <2>1. loc' \in [Procs -> LocType]
    <3> DEFINE new == [IdleLoc EXCEPT !.row = IF q.kind \in BulkKinds THEN NoRow ELSE q.row]
    <3>1. new \in LocType
      BY <1>0, IdleLocType DEF LocType
    <3>2. SetLoc(p, new)
      OBVIOUS
    <3> QED
      BY <3>1, <3>2 DEF TypeOK, SetLoc
  <2>2. solo' \in [Procs -> SUBSET Rows] /\ tainted' \in SUBSET Rows
    BY <1>0, HiddenAssumption DEF TypeOK, Footprint, Overlooked
  <2>3. pc' \in [Procs -> Label] /\ req' \in [Procs -> Requests \cup {NoReq}]
    BY DEF TypeOK, Label, FirstStep
  <2> QED
    BY <2>1, <2>2, <2>3 DEF TypeOK
<1>2. Flow'
  BY <1>0, SMTT(30) DEF TypeOK, Flow, FlowOf, Kind, FirstStep, RowSteps, WriteKinds, BulkKinds, RowKinds, Footprint
<1>3. Cursor'
  BY <1>0, SMTT(30) DEF SetLoc, TypeOK, Cursor, CursorOf, Kind, Row, FirstStep, RowSteps, WriteKinds, BulkKinds, RowKinds, LocType, IdleLoc
<1> QED
  BY <1>1, <1>2, <1>3

LEMMA LocStep ==
  ASSUME TypeOK, NEW p \in Procs, NEW l \in LocType, SetLoc(p, l)
  PROVE  loc' \in [Procs -> LocType]
  BY DEF TypeOK, SetLoc

LEMMA ReleaseType ==
  ASSUME TypeInv, NEW p \in Procs, Release(p)
  PROVE  /\ pc' \in [Procs -> Label] /\ req' \in [Procs -> Requests \cup {NoReq}]
         /\ loc' \in [Procs -> LocType] /\ solo' \in [Procs -> SUBSET Rows]
  BY IdleLocType DEF TypeInv, TypeOK, Release, Label

LEMMA RowOfStep ==
  ASSUME TypeInv, NEW p \in Procs,
         pc[p] \notin {"idle", "create", "truncate", "select", "list", "prune", "next"}
  PROVE  Row(p) \in Rows /\ Kind(p) \in RowKinds \cup BulkKinds
<1> USE DEF TypeInv
<1>1. req[p] \in Requests /\ Kind(p) # "exec"
  BY DEF Flow, FlowOf
<1>2. req[p].row \in Rows /\ Kind(p) \in RowKinds \cup BulkKinds
  BY <1>1, RequestsAssumption DEF Request, Kind
<1>3. pc[p] \in Label /\ loc[p] \in LocType
  BY DEF TypeOK
<1>4. CASE Kind(p) \in RowKinds
  BY <1>2, <1>4 DEF Cursor, CursorOf
<1>5. CASE Kind(p) \in BulkKinds
  <2>1. pc[p] \in RowSteps
    BY <1>3, <1>5 DEF Flow, FlowOf, Label, RowSteps, BulkKinds, WriteKinds
  <2> QED
    BY <2>1, <1>3, <1>2, <1>5 DEF Cursor, CursorOf, LocType
<1> QED
  BY <1>2, <1>4, <1>5

LEMMA AfterGroupType ==
  ASSUME TypeInv, NEW p \in Procs, NEW rest \in SUBSET Groups, AfterGroup(p, rest)
  PROVE  pc' \in [Procs -> Label] /\ loc' \in [Procs -> LocType]
<1> DEFINE l == [loc[p] EXCEPT !.todo = IF rest = {} THEN Groups ELSE rest, !.cur = 0,
                               !.out = EmptyData, !.linked = FALSE]
<1>0. loc[p] \in LocType
  BY DEF TypeInv, TypeOK
<1>1. l \in LocType
  BY <1>0, EmptyDataType DEF LocType
<1>2. SetLoc(p, l)
  BY DEF AfterGroup
<1> QED
  BY <1>1, <1>2, LocStep DEF TypeInv, TypeOK, AfterGroup, Goto, Label

LEMMA WriteActionsType ==
  ASSUME TypeInv, NEW p \in Procs,
         \/ MakeRowDir(p) \/ CheckRowExists(p) \/ RejectUpdate(p)
         \/ PrepareGroup(p) \/ PrepareGroupUnread(p) \/ OpenFile(p) \/ WriteFile(p)
  PROVE  TypeOK'
<1> USE DEF TypeInv, History, Budget
<1>0. Row(p) \in Rows /\ req[p] \in Requests /\ req[p].groups \in SUBSET Groups
      /\ req[p].data \in RowData /\ loc[p] \in LocType
  BY RowOfStep, RequestsAssumption DEF TypeOK, Flow, FlowOf, Request, MakeRowDir, CheckRowExists,
     RejectUpdate, PrepareGroup, PrepareGroupUnread, OpenFile, WriteFile
<1>1. CASE MakeRowDir(p)
  <2>1. pc' \in [Procs -> Label] /\ loc' \in [Procs -> LocType]
    BY <1>0, <1>1, AfterGroupType DEF MakeRowDir
  <2>2. disk' \in [Rows -> [Groups -> FileState] \cup {NoRow}]
    BY <1>0, <1>1 DEF MakeRowDir, TypeOK, BareRow, FileState, Unreadable
  <2> QED
    BY <1>1, <2>1, <2>2 DEF MakeRowDir, TypeOK
<1>2. CASE CheckRowExists(p)
  <2>1. pc' \in [Procs -> Label] /\ loc' \in [Procs -> LocType]
    BY <1>0, <1>2, AfterGroupType DEF CheckRowExists
  <2> QED
    BY <1>2, <2>1 DEF CheckRowExists, TypeOK
<1>3. CASE RejectUpdate(p)
  BY <1>3, ReleaseType DEF RejectUpdate, TypeOK
<1>4. ASSUME NEW g \in Groups, NEW d \in GroupData, Goto(p, "open"),
             SetLoc(p, [loc[p] EXCEPT !.cur = g, !.out = d]),
             UNCHANGED <<disk, duck, table, req, History, ever, Budget>>
      PROVE  TypeOK'
  <2>1. [loc[p] EXCEPT !.cur = g, !.out = d] \in LocType
    BY <1>0 DEF LocType
  <2>2. loc' \in [Procs -> LocType]
    BY <1>4, <2>1, LocStep
  <2> QED
    BY <1>4, <2>2 DEF TypeOK, Goto, Label
<1>5. CASE PrepareGroup(p)
  <2> DEFINE d(g) == IF Kind(p) = "update" THEN Merge(ReadFile(Row(p), g), req[p].data[g])
                                           ELSE req[p].data[g]
  <2>1. PICK g \in Groups : SetLoc(p, [loc[p] EXCEPT !.cur = g, !.out = d(g)])
    BY <1>5 DEF PrepareGroup
  <2>2. d(g) \in GroupData
    BY <1>0, ReadFileType, MergeType DEF RowData
  <2>3. Goto(p, "open") /\ UNCHANGED <<disk, duck, table, req, History, ever, Budget>>
    BY <1>5 DEF PrepareGroup
  <2> HIDE DEF d
  <2> QED
    BY <1>4, <2>1, <2>2, <2>3
<1>6. CASE PrepareGroupUnread(p)
  <2>1. PICK g \in Groups : SetLoc(p, [loc[p] EXCEPT !.cur = g, !.out = req[p].data[g]])
    BY <1>0, <1>6 DEF PrepareGroupUnread, LocType
  <2>2. req[p].data[g] \in GroupData
    BY <1>0 DEF RowData
  <2>3. Goto(p, "open") /\ UNCHANGED <<disk, duck, table, req, History, ever, Budget>>
    BY <1>6 DEF PrepareGroupUnread
  <2> QED
    BY <1>4, <2>1, <2>2, <2>3
<1>7. CASE OpenFile(p)
  <2>1. loc' \in [Procs -> LocType]
    <3>1. [loc[p] EXCEPT !.linked = TRUE] \in LocType
      BY <1>0 DEF LocType
    <3> QED
      BY <1>7, <3>1, LocStep DEF OpenFile
  <2>2. disk' \in [Rows -> [Groups -> FileState] \cup {NoRow}]
    BY <1>0, <1>7 DEF OpenFile, TypeOK, BareRow, FileState, Unreadable
  <2> QED
    BY <1>7, <2>1, <2>2 DEF OpenFile, TypeOK, Goto, Label
<1>8. CASE WriteFile(p)
  <2>1. pc' \in [Procs -> Label] /\ loc' \in [Procs -> LocType]
    BY <1>0, <1>8, AfterGroupType DEF WriteFile, LocType
  <2>2. loc[p].cur \in Groups /\ loc[p].out \in GroupData
    BY <1>0, <1>8 DEF WriteFile, Cursor, CursorOf, LocType
  <2>3. disk' \in [Rows -> [Groups -> FileState] \cup {NoRow}]
    BY <1>0, <1>8, <2>2 DEF WriteFile, TypeOK, FileState, Unreadable, Cursor, CursorOf
  <2>4. ever' \in [Rows -> SUBSET (Groups \X GroupData)]
    BY <1>0, <1>8, <2>2 DEF WriteFile, TypeOK
  <2> QED
    BY <1>8, <2>1, <2>3, <2>4 DEF WriteFile, TypeOK
<1> QED
  BY <1>1, <1>2, <1>3, <1>5, <1>6, <1>7, <1>8

LEMMA DeleteActionsType ==
  ASSUME TypeInv, NEW p \in Procs,
         \/ ListRowFiles(p) \/ RemoveFile(p) \/ RemoveRowDir(p) \/ RemoveRowDirFails(p)
         \/ SqlDrop(p)
  PROVE  TypeOK'
<1> USE DEF TypeInv, History, Budget
<1>0. Row(p) \in Rows /\ loc[p] \in LocType /\ req[p].row \in Rows /\ Kind(p) = "delete"
  BY RowOfStep, RequestsAssumption DEF TypeOK, Flow, FlowOf, Request, ListRowFiles, RemoveFile,
     RemoveRowDir, RemoveRowDirFails, SqlDrop
<1>1. CASE ListRowFiles(p)
  <2>1. loc' \in [Procs -> LocType]
    <3>1. [loc[p] EXCEPT !.todo = {g \in Groups : disk[Row(p)][g] # Missing}] \in LocType
      BY <1>0 DEF LocType
    <3> QED
      BY <1>1, <3>1, LocStep DEF ListRowFiles, TypeOK
  <2> QED
    BY <1>1, <2>1 DEF ListRowFiles, TypeOK, Goto, Label
<1>2. CASE RemoveFile(p)
  <2>0. loc[p].todo \in SUBSET Groups
    BY <1>0 DEF LocType
  <2>1. PICK g \in loc[p].todo :
          /\ disk' = [disk EXCEPT ![Row(p)] = IF @ = NoRow THEN @ ELSE [@ EXCEPT ![g] = Missing]]
          /\ loc' = [o \in Procs |->
               IF o = p THEN [loc[p] EXCEPT !.todo = @ \ {g}]
               ELSE IF pc[o] = "write" /\ Row(o) = Row(p) /\ loc[o].cur = g
               THEN [loc[o] EXCEPT !.linked = FALSE] ELSE loc[o]]
    BY <1>2 DEF RemoveFile
  <2>2. [loc[p] EXCEPT !.todo = @ \ {g}] \in LocType
    BY <1>0 DEF LocType
  <2>3. \A o \in Procs : [loc[o] EXCEPT !.linked = FALSE] \in LocType
    <3> SUFFICES ASSUME NEW o \in Procs PROVE [loc[o] EXCEPT !.linked = FALSE] \in LocType
      OBVIOUS
    <3>1. loc[o] \in LocType
      BY DEF TypeOK
    <3> QED
      BY <3>1 DEF LocType
  <2>4. loc' \in [Procs -> LocType]
    <3>1. \A o \in Procs : loc[o] \in LocType
      BY DEF TypeOK
    <3> HIDE DEF TypeInv
    <3> QED
      BY <2>1, <2>2, <2>3, <3>1
  <2>5. disk' \in [Rows -> [Groups -> FileState] \cup {NoRow}]
    BY <1>0, <2>0, <2>1 DEF TypeOK, FileState, Unreadable
  <2> QED
    BY <1>2, <2>4, <2>5 DEF RemoveFile, TypeOK
<1>3. CASE RemoveRowDir(p)
  BY <1>0, <1>3 DEF RemoveRowDir, TypeOK, Goto, Label
<1>4. CASE RemoveRowDirFails(p)
  BY <1>0, <1>4, ReleaseType DEF RemoveRowDirFails, Abort, Exposed, TypeOK
<1>5. CASE SqlDrop(p)
  BY <1>0, <1>5, ReleaseType DEF SqlDrop, Finish, TypeOK
<1> QED
  BY <1>1, <1>2, <1>3, <1>4, <1>5

LEMMA ReadActionsType ==
  ASSUME TypeInv, NEW p \in Procs,
         ReadGroup(p) \/ ReadGroupFails(p) \/ SqlDelete(p) \/ SqlInsert(p) \/ SqlFails(p)
  PROVE  TypeOK'
<1> USE DEF TypeInv, History, Budget
<1>0. /\ Row(p) \in Rows /\ loc[p] \in LocType /\ req[p] \in Requests /\ req[p].row \in Rows
      /\ AfterRead(p) \in Label
  BY RowOfStep, RequestsAssumption DEF TypeOK, Flow, FlowOf, Request, ReadGroup, ReadGroupFails,
     SqlDelete, SqlInsert, SqlFails, AfterRead, Label
<1>1. CASE ReadGroup(p)
  <2>1. PICK g \in loc[p].todo :
          /\ SetLoc(p, [loc[p] EXCEPT !.todo = @ \ {g},
                       !.buf = [@ EXCEPT ![g] = ReadFile(Row(p), g)]])
          /\ Goto(p, IF loc[p].todo = {g} THEN AfterRead(p) ELSE "read")
    BY <1>1 DEF ReadGroup
  <2>2. g \in Groups
    BY <1>0 DEF LocType
  <2>3. [loc[p] EXCEPT !.todo = @ \ {g}, !.buf = [@ EXCEPT ![g] = ReadFile(Row(p), g)]] \in LocType
    <3>1. [loc[p].buf EXCEPT ![g] = ReadFile(Row(p), g)] \in RowData
      BY <1>0, <2>2, ReadFileType DEF LocType, RowData
    <3> QED
      BY <1>0, <2>2, <3>1 DEF LocType
  <2>4. loc' \in [Procs -> LocType]
    BY <2>1, <2>3, LocStep
  <2> QED
    BY <1>0, <1>1, <2>1, <2>4 DEF ReadGroup, TypeOK, Goto, Label
<1>2. CASE ReadGroupFails(p)
  <2>1. PICK g \in loc[p].todo :
          /\ SetLoc(p, [loc[p] EXCEPT !.todo = @ \ {g}])
          /\ Goto(p, IF loc[p].todo = {g} THEN AfterRead(p) ELSE "read")
    BY <1>2 DEF ReadGroupFails
  <2>2. [loc[p] EXCEPT !.todo = @ \ {g}] \in LocType
    BY <1>0 DEF LocType
  <2>3. loc' \in [Procs -> LocType]
    BY <2>1, <2>2, LocStep
  <2> QED
    BY <1>0, <1>2, <2>1, <2>3 DEF ReadGroupFails, TypeOK, Goto, Label
<1>3. CASE SqlDelete(p)
  BY <1>0, <1>3 DEF SqlDelete, TypeOK, Goto, Label
<1>4. CASE SqlInsert(p)
  <2>1. duck' \in [Rows -> RowData \cup {NoRow}]
    BY <1>0, <1>4 DEF SqlInsert, TypeOK, LocType
  <2>2. CASE Kind(p) \in BulkKinds
    <3>1. [loc[p] EXCEPT !.row = NoRow, !.buf = NoData, !.left = @ \ {Row(p)}] \in LocType
      BY <1>0, NoDataType DEF LocType
    <3>2. loc' \in [Procs -> LocType]
      BY <1>4, <2>2, <3>1, LocStep DEF SqlInsert
    <3> QED
      BY <1>4, <2>1, <2>2, <3>2 DEF SqlInsert, TypeOK, Goto, Label
  <2>3. CASE Kind(p) \notin BulkKinds
    BY <1>4, <2>1, <2>3, ReleaseType DEF SqlInsert, TypeOK, Finish
  <2> QED
    BY <2>2, <2>3
<1>5. CASE SqlFails(p)
  <2>1. Exposed(p) \in SUBSET Rows
    BY <1>0 DEF Exposed, LocType
  <2> QED
    BY <1>5, <2>1, ReleaseType DEF SqlFails, Abort, TypeOK
<1> QED
  BY <1>1, <1>2, <1>3, <1>4, <1>5

LEMMA BulkActionsType ==
  ASSUME TypeInv, NEW p \in Procs,
         \/ CreateDuckDBTable(p) \/ TruncateTable(p) \/ SelectRowIds(p) \/ SelectRowIdsFails(p)
         \/ ListRows(p) \/ PruneRow(p) \/ PruneDone(p) \/ NextRow(p) \/ BulkDone(p)
  PROVE  TypeOK'
<1> USE DEF TypeInv, History, Budget
<1>0. loc[p] \in LocType
  BY DEF TypeOK
<1>1. CASE CreateDuckDBTable(p) \/ TruncateTable(p) \/ PruneDone(p)
  BY <1>1 DEF CreateDuckDBTable, TruncateTable, PruneDone, TypeOK, Goto, Label
<1>12. CASE SelectRowIdsFails(p)
  <2>1. req[p] \in Requests /\ Kind(p) \in BulkKinds
    BY <1>12 DEF SelectRowIdsFails, Flow, FlowOf, BulkKinds
  <2>2. Footprint(req[p]) \in SUBSET Rows
    BY <2>1 DEF Footprint, Kind, BulkKinds
  <2>3. solo' \in [Procs -> SUBSET Rows] /\ tainted' \in SUBSET Rows
    BY <1>12, <2>2 DEF SelectRowIdsFails, TypeOK
  <2>4. pc' \in [Procs -> Label]
    BY <1>12 DEF SelectRowIdsFails, TypeOK, Goto, Label
  <2> QED
    BY <1>12, <2>3, <2>4 DEF SelectRowIdsFails, TypeOK
<1>2. CASE SelectRowIds(p)
  <2>1. [loc[p] EXCEPT !.seen = InDuck] \in LocType
    BY <1>0 DEF LocType, InDuck
  <2>2. loc' \in [Procs -> LocType]
    BY <1>2, <2>1, LocStep DEF SelectRowIds
  <2> QED
    BY <1>2, <2>2 DEF SelectRowIds, TypeOK, Goto, Label
<1>3. CASE ListRows(p)
  <2> DEFINE rest == IF Kind(p) = "incr" THEN Listed \ loc[p].seen ELSE Listed
  <2>1. rest \in SUBSET Rows
    BY DEF Listed
  <2>2. [loc[p] EXCEPT !.left = rest] \in LocType
    BY <1>0, <2>1 DEF LocType
  <2>3. SetLoc(p, [loc[p] EXCEPT !.left = rest])
    BY <1>3 DEF ListRows
  <2> HIDE DEF rest
  <2>4. loc' \in [Procs -> LocType]
    BY <2>2, <2>3, LocStep
  <2> QED
    BY <1>3, <2>4 DEF ListRows, TypeOK, Goto, Label
<1>4. CASE PruneRow(p)
  <2>1. PICK r \in loc[p].seen \ loc[p].left :
          /\ duck' = [duck EXCEPT ![r] = NoRow]
          /\ SetLoc(p, [loc[p] EXCEPT !.seen = @ \ {r}])
    BY <1>4 DEF PruneRow
  <2>2. [loc[p] EXCEPT !.seen = @ \ {r}] \in LocType
    BY <1>0 DEF LocType
  <2>3. loc' \in [Procs -> LocType]
    BY <2>1, <2>2, LocStep
  <2> QED
    BY <1>4, <2>1, <2>3 DEF PruneRow, TypeOK
<1>5. CASE NextRow(p)
  <2>1. PICK r \in loc[p].left :
          SetLoc(p, [loc[p] EXCEPT !.row = r, !.todo = Groups, !.buf = NoData])
    BY <1>5 DEF NextRow
  <2>2. [loc[p] EXCEPT !.row = r, !.todo = Groups, !.buf = NoData] \in LocType
    BY <1>0, NoDataType DEF LocType
  <2>3. loc' \in [Procs -> LocType]
    BY <2>1, <2>2, LocStep
  <2> QED
    BY <1>5, <2>3 DEF NextRow, TypeOK, Goto, Label
<1>6. CASE BulkDone(p)
  BY <1>6, ReleaseType DEF BulkDone, Finish, TypeOK
<1> QED
  BY <1>1, <1>12, <1>2, <1>3, <1>4, <1>5, <1>6

LEMMA TypeOKNext ==
  ASSUME TypeInv, [Next]_vars
  PROVE  TypeOK'
<1> USE DEF TypeInv
<1>1. ASSUME NEW p \in Procs, NEW q \in Requests, Start(p, q) PROVE TypeOK'
  BY <1>1, TypeStart
<1>2. ASSUME NEW p \in Procs, Step(p) PROVE TypeOK'
  BY <1>2, WriteActionsType, DeleteActionsType, ReadActionsType, BulkActionsType DEF Step
<1>3. ASSUME NEW p \in Procs, Cancel(p) PROVE TypeOK'
  <2>1. req[p] \in Requests /\ loc[p] \in LocType
    BY <1>3 DEF Cancel, Active, Flow, FlowOf, TypeOK
  <2>2. Exposed(p) \in SUBSET Rows
    <3>1. Kind(p) \in BulkKinds \/ Row(p) = req[p].row
      BY <1>3, <2>1, RequestsAssumption DEF Cancel, Active, Flow, FlowOf, Cursor, CursorOf, Request, Kind
    <3>2. pc[p] = "sqlins" => Row(p) \in Rows
      BY RowOfStep
    <3> QED
      BY <2>1, <3>1, <3>2, RequestsAssumption DEF Exposed, Request, LocType
  <2> QED
    BY <1>3, <2>2, ReleaseType DEF Cancel, Abort, TypeOK, Budget
<1>4. ASSUME NEW q \in Requests, DirectDML(q) PROVE TypeOK'
  <2>0. q.row \in Rows /\ q.data \in RowData
    BY RequestsAssumption DEF Request
  <2>1. duck[q.row] \in RowData => [g \in Groups |-> Merge(duck[q.row][g], q.data[g])] \in RowData
    BY <2>0, MergeType DEF RowData
  <2>2. duck' \in [Rows -> RowData \cup {NoRow}]
    BY <1>4, <2>0, <2>1 DEF DirectDML, TypeOK
  <2>3. ever' \in [Rows -> SUBSET (Groups \X GroupData)]
    <3>1. ASSUME NEW d \in RowData PROVE {<<g, d[g]>> : g \in Groups} \in SUBSET (Groups \X GroupData)
      BY DEF RowData
    <3>2. \E new \in SUBSET (Groups \X GroupData) :
            ever' = [ever EXCEPT ![q.row] = @ \cup new]
      <4>1. CASE ever' = [ever EXCEPT ![q.row] = @ \cup {<<g, q.data[g]>> : g \in Groups}]
        BY <2>0, <3>1, <4>1
      <4>2. CASE UNCHANGED ever
        <5>1. ever' = [ever EXCEPT ![q.row] = @ \cup {}]
          BY <4>2 DEF TypeOK
        <5> QED
          BY <5>1
      <4> DEFINE new == [g \in Groups |-> Merge(duck[q.row][g], q.data[g])]
      <4>3. CASE /\ duck[q.row] # NoRow
                 /\ ever' = [ever EXCEPT ![q.row] = @ \cup {<<g, new[g]>> : g \in Groups}]
        <5>1. new \in RowData
          BY <2>0, <2>1, <4>3 DEF TypeOK
        <5> HIDE DEF new
        <5> QED
          BY <5>1, <3>1, <4>3
      <4> QED
        BY <1>4, <4>1, <4>2, <4>3 DEF DirectDML
    <3> QED
      BY <2>0, <3>2 DEF TypeOK
  <2> QED
    BY <1>4, <2>0, <2>2, <2>3 DEF DirectDML, TypeOK
<1>5. CASE Crash
  <2>1. loc' \in [Procs -> LocType]
    BY <1>5, IdleLocType DEF Crash
  <2>2. pc' \in [Procs -> Label] /\ req' \in [Procs -> Requests \cup {NoReq}]
    BY <1>5 DEF Crash, Label
  <2>3. solo' \in [Procs -> SUBSET Rows] /\ tainted' \in SUBSET Rows
    BY <1>5 DEF Crash
  <2>4. duck' \in [Rows -> RowData \cup {NoRow}] /\ table' \in BOOLEAN
    BY <1>5 DEF Crash
  <2>5. ops' \in Nat /\ crashes' \in Nat
    BY <1>5 DEF Crash, TypeOK
  <2>6. UNCHANGED <<disk, ever>>
    BY <1>5 DEF Crash
  <2> QED
    BY <2>1, <2>2, <2>3, <2>4, <2>5, <2>6 DEF TypeOK
<1>6. CASE UNCHANGED vars
  BY <1>6 DEF vars, TypeOK
<1> QED
  BY <1>1, <1>2, <1>3, <1>4, <1>5, <1>6 DEF Next

\* A step of p leaves the other goroutines where they are.
LEMMA StepFrame ==
  ASSUME TypeInv, NEW p \in Procs, Step(p) \/ Cancel(p), NEW o \in Procs \ {p}
  PROVE  /\ pc'[o] = pc[o] /\ req'[o] = req[o] /\ solo'[o] = solo[o]
         /\ loc'[o] = loc[o] \/ (RemoveFile(p) /\ loc'[o] = [loc[o] EXCEPT !.linked = FALSE])
<1> USE DEF TypeInv, TypeOK, Goto, SetLoc, History, Release, Finish, Abort, AfterGroup
<1>1. CASE MakeRowDir(p)
  BY <1>1 DEF MakeRowDir
<1>2. CASE CheckRowExists(p)
  BY <1>2 DEF CheckRowExists
<1>3. CASE RejectUpdate(p)
  BY <1>3 DEF RejectUpdate
<1>4. CASE PrepareGroup(p)
  BY <1>4 DEF PrepareGroup
<1>5. CASE PrepareGroupUnread(p)
  BY <1>5 DEF PrepareGroupUnread
<1>6. CASE OpenFile(p)
  BY <1>6 DEF OpenFile
<1>7. CASE WriteFile(p)
  BY <1>7 DEF WriteFile
<1>8. CASE ListRowFiles(p)
  BY <1>8 DEF ListRowFiles
<1>9. CASE RemoveFile(p)
  BY <1>9 DEF RemoveFile
<1>10. CASE RemoveRowDir(p)
  BY <1>10 DEF RemoveRowDir
<1>11. CASE RemoveRowDirFails(p)
  BY <1>11 DEF RemoveRowDirFails
<1>12. CASE SqlDrop(p)
  BY <1>12 DEF SqlDrop
<1>13. CASE ReadGroup(p)
  BY <1>13 DEF ReadGroup
<1>14. CASE ReadGroupFails(p)
  BY <1>14 DEF ReadGroupFails
<1>15. CASE SqlDelete(p)
  BY <1>15 DEF SqlDelete
<1>16. CASE SqlInsert(p)
  BY <1>16 DEF SqlInsert
<1>17. CASE SqlFails(p)
  BY <1>17 DEF SqlFails
<1>18. CASE CreateDuckDBTable(p)
  BY <1>18 DEF CreateDuckDBTable
<1>19. CASE TruncateTable(p)
  BY <1>19 DEF TruncateTable
<1>20. CASE SelectRowIds(p)
  BY <1>20 DEF SelectRowIds
<1>21. CASE SelectRowIdsFails(p)
  BY <1>21 DEF SelectRowIdsFails
<1>22. CASE ListRows(p)
  BY <1>22 DEF ListRows
<1>23. CASE PruneRow(p)
  BY <1>23 DEF PruneRow
<1>24. CASE PruneDone(p)
  BY <1>24 DEF PruneDone
<1>25. CASE NextRow(p)
  BY <1>25 DEF NextRow
<1>26. CASE BulkDone(p)
  BY <1>26 DEF BulkDone
<1>27. CASE Cancel(p)
  BY <1>27 DEF Cancel
<1> QED
  BY <1>1, <1>2, <1>3, <1>4, <1>5, <1>6, <1>7, <1>8, <1>9, <1>10, <1>11, <1>12, <1>13, <1>14, <1>15, <1>16, <1>17, <1>18, <1>19, <1>20, <1>21, <1>22, <1>23, <1>24, <1>25, <1>26, <1>27 DEF Step

LEMMA FlowStep ==
  ASSUME TypeInv, NEW p \in Procs, Step(p) \/ Cancel(p)
  PROVE  Flow'
<1>1. ASSUME NEW o \in Procs \ {p} PROVE FlowOf(o)'
  <2>1. FlowOf(o)
    BY DEF TypeInv, Flow
  <2>2. pc'[o] = pc[o] /\ req'[o] = req[o] /\ solo'[o] = solo[o]
    BY StepFrame
  <2> QED
    BY <2>1, <2>2 DEF FlowOf, Kind
<1>2. FlowOf(p)'
  <2>0. FlowOf(p) /\ pc[p] \in Label /\ pc \in [Procs -> Label] /\ req \in [Procs -> Requests \cup {NoReq}]
        /\ solo \in [Procs -> SUBSET Rows]
    BY DEF TypeInv, Flow, TypeOK
  <2> USE DEF FlowOf, Kind, Goto, History, RowSteps, WriteKinds, BulkKinds
  <2>98. ASSUME Release(p) PROVE FlowOf(p)'
    BY <2>0, <2>98 DEF Release
  <2>1. CASE MakeRowDir(p)
    BY <2>0, <2>98, <2>1 DEF MakeRowDir, Finish, Abort, AfterGroup, AfterRead
  <2>2. CASE CheckRowExists(p)
    BY <2>0, <2>98, <2>2 DEF CheckRowExists, Finish, Abort, AfterGroup, AfterRead
  <2>3. CASE RejectUpdate(p)
    BY <2>0, <2>98, <2>3 DEF RejectUpdate, Finish, Abort, AfterGroup, AfterRead
  <2>4. CASE PrepareGroup(p)
    BY <2>0, <2>98, <2>4 DEF PrepareGroup, Finish, Abort, AfterGroup, AfterRead
  <2>5. CASE PrepareGroupUnread(p)
    BY <2>0, <2>98, <2>5 DEF PrepareGroupUnread, Finish, Abort, AfterGroup, AfterRead
  <2>6. CASE OpenFile(p)
    BY <2>0, <2>98, <2>6 DEF OpenFile, Finish, Abort, AfterGroup, AfterRead
  <2>7. CASE WriteFile(p)
    BY <2>0, <2>98, <2>7 DEF WriteFile, Finish, Abort, AfterGroup, AfterRead
  <2>8. CASE ListRowFiles(p)
    BY <2>0, <2>98, <2>8 DEF ListRowFiles, Finish, Abort, AfterGroup, AfterRead
  <2>9. CASE RemoveFile(p)
    BY <2>0, <2>98, <2>9 DEF RemoveFile, Finish, Abort, AfterGroup, AfterRead
  <2>10. CASE RemoveRowDir(p)
    BY <2>0, <2>98, <2>10 DEF RemoveRowDir, Finish, Abort, AfterGroup, AfterRead
  <2>11. CASE RemoveRowDirFails(p)
    BY <2>0, <2>98, <2>11 DEF RemoveRowDirFails, Finish, Abort, AfterGroup, AfterRead
  <2>12. CASE SqlDrop(p)
    BY <2>0, <2>98, <2>12 DEF SqlDrop, Finish, Abort, AfterGroup, AfterRead
  <2>13. CASE ReadGroup(p)
    BY <2>0, <2>98, <2>13 DEF ReadGroup, Finish, Abort, AfterGroup, AfterRead
  <2>14. CASE ReadGroupFails(p)
    BY <2>0, <2>98, <2>14 DEF ReadGroupFails, Finish, Abort, AfterGroup, AfterRead
  <2>15. CASE SqlDelete(p)
    BY <2>0, <2>98, <2>15 DEF SqlDelete, Finish, Abort, AfterGroup, AfterRead
  <2>16. CASE SqlInsert(p)
    BY <2>0, <2>98, <2>16 DEF SqlInsert, Finish, Abort, AfterGroup, AfterRead
  <2>17. CASE SqlFails(p)
    BY <2>0, <2>98, <2>17 DEF SqlFails, Finish, Abort, AfterGroup, AfterRead
  <2>18. CASE CreateDuckDBTable(p)
    BY <2>0, <2>98, <2>18 DEF CreateDuckDBTable, Finish, Abort, AfterGroup, AfterRead
  <2>19. CASE TruncateTable(p)
    BY <2>0, <2>98, <2>19 DEF TruncateTable, Finish, Abort, AfterGroup, AfterRead
  <2>20. CASE SelectRowIds(p)
    BY <2>0, <2>98, <2>20 DEF SelectRowIds, Finish, Abort, AfterGroup, AfterRead
  <2>21. CASE SelectRowIdsFails(p)
    BY <2>0, <2>98, <2>21 DEF SelectRowIdsFails, Finish, Abort, AfterGroup, AfterRead
  <2>22. CASE ListRows(p)
    BY <2>0, <2>98, <2>22 DEF ListRows, Finish, Abort, AfterGroup, AfterRead
  <2>23. CASE PruneRow(p)
    BY <2>0, <2>98, <2>23 DEF PruneRow, Finish, Abort, AfterGroup, AfterRead
  <2>24. CASE PruneDone(p)
    BY <2>0, <2>98, <2>24 DEF PruneDone, Finish, Abort, AfterGroup, AfterRead
  <2>25. CASE NextRow(p)
    BY <2>0, <2>98, <2>25 DEF NextRow, Finish, Abort, AfterGroup, AfterRead
  <2>26. CASE BulkDone(p)
    BY <2>0, <2>98, <2>26 DEF BulkDone, Finish, Abort, AfterGroup, AfterRead
  <2>27. CASE Cancel(p)
    BY <2>98, <2>27 DEF Cancel, Abort
  <2> QED
    BY <2>1, <2>2, <2>3, <2>4, <2>5, <2>6, <2>7, <2>8, <2>9, <2>10, <2>11, <2>12, <2>13, <2>14, <2>15, <2>16, <2>17, <2>18, <2>19, <2>20, <2>21, <2>22, <2>23, <2>24, <2>25, <2>26, <2>27 DEF Step
<1> QED
  BY <1>1, <1>2 DEF Flow

\* A file that exists outlives every step but the one that unlinks it, and the
\* unlinking detaches those who have it open.
LEMMA FileStep ==
  ASSUME TypeInv, NEW p \in Procs, Step(p) \/ Cancel(p), NEW o \in Procs \ {p},
         pc[o] = "write", loc[o].linked, loc'[o].linked,
         Row(o) \in Rows, loc[o].cur \in Groups,
         disk[Row(o)] # NoRow, disk[Row(o)][loc[o].cur] # Missing
  PROVE  disk'[Row(o)] # NoRow /\ disk'[Row(o)][loc[o].cur] # Missing
<1> USE DEF TypeInv
<1> DEFINE r == Row(o)  g == loc[o].cur
<1>0. r \in Rows /\ g \in Groups /\ disk[r] # NoRow /\ disk[r][g] # Missing /\ disk[r] \in [Groups -> FileState]
      /\ disk \in [Rows -> [Groups -> FileState] \cup {NoRow}]
  BY DEF TypeOK
<1>1. CASE UNCHANGED disk
  BY <1>0, <1>1
<1>2. CASE MakeRowDir(p)
  BY <1>0, <1>2 DEF MakeRowDir
<1>3. CASE OpenFile(p)
  <2>1. loc[p].cur \in Groups
    BY <1>3 DEF OpenFile, Cursor, CursorOf
  <2>2. [disk[r] EXCEPT ![loc[p].cur] = Torn] \in [Groups -> FileState]
    BY <1>0 DEF FileState, Unreadable
  <2> QED
    BY <1>0, <1>3, <2>1, <2>2, NullsAssumption DEF OpenFile
<1>4. CASE WriteFile(p)
  <2>1. loc[p].out \in GroupData /\ loc[p].cur \in Groups
    BY <1>4 DEF WriteFile, TypeOK, LocType, Cursor, CursorOf
  <2>2. loc[p].out # Missing
    BY <2>1, NullsAssumption DEF Unreadable
  <2>3. \A x \in FileState : [disk[r] EXCEPT ![loc[p].cur] = x] \in [Groups -> FileState]
    BY <1>0
  <2> QED
    BY <1>0, <1>4, <2>1, <2>2, <2>3, NullsAssumption DEF WriteFile, FileState, Unreadable
<1>5. CASE RemoveFile(p)
  <2>1. PICK h \in loc[p].todo :
          /\ disk' = [disk EXCEPT ![Row(p)] = IF @ = NoRow THEN @ ELSE [@ EXCEPT ![h] = Missing]]
          /\ loc' = [q \in Procs |->
               IF q = p THEN [loc[p] EXCEPT !.todo = @ \ {h}]
               ELSE IF pc[q] = "write" /\ Row(q) = Row(p) /\ loc[q].cur = h
               THEN [loc[q] EXCEPT !.linked = FALSE] ELSE loc[q]]
    BY <1>5 DEF RemoveFile
  <2>2. loc[o] \in LocType
    BY DEF TypeOK
  <2>3. ~(Row(o) = Row(p) /\ g = h)
    BY <2>1, <2>2 DEF LocType
  <2>4. [disk[r] EXCEPT ![h] = Missing] \in [Groups -> FileState]
    BY <1>0 DEF FileState, Unreadable
  <2> QED
    BY <1>0, <2>1, <2>3, <2>4, NullsAssumption
<1>6. CASE RemoveRowDir(p)
  BY <1>0, <1>6 DEF RemoveRowDir, BareRow
<1>7. UNCHANGED disk \/ MakeRowDir(p) \/ OpenFile(p) \/ WriteFile(p) \/ RemoveFile(p) \/ RemoveRowDir(p)
  BY DEF Step, CheckRowExists, RejectUpdate, PrepareGroup, PrepareGroupUnread, ListRowFiles, RemoveRowDirFails, SqlDrop, ReadGroup, ReadGroupFails, SqlDelete, SqlInsert, SqlFails, CreateDuckDBTable, TruncateTable, SelectRowIds, SelectRowIdsFails, ListRows, PruneRow, PruneDone, NextRow, BulkDone, Cancel
<1> QED
  BY <1>1, <1>2, <1>3, <1>4, <1>5, <1>6, <1>7

LEMMA CursorStep ==
  ASSUME TypeInv, NEW p \in Procs, Step(p) \/ Cancel(p)
  PROVE  Cursor'
<1> USE DEF TypeInv
<1>1. ASSUME NEW o \in Procs \ {p} PROVE CursorOf(o)'
  <2>1. CursorOf(o) /\ FlowOf(o) /\ loc[o] \in LocType
    BY DEF Cursor, Flow, TypeOK
  <2>2. /\ pc'[o] = pc[o] /\ req'[o] = req[o]
        /\ loc'[o] = loc[o] \/ loc'[o] = [loc[o] EXCEPT !.linked = FALSE]
    BY StepFrame
  <2>3. loc'[o].row = loc[o].row /\ loc'[o].left = loc[o].left /\ loc'[o].cur = loc[o].cur
        /\ loc'[o].seen = loc[o].seen
        /\ (loc'[o].linked => loc[o].linked)
    BY <2>1, <2>2 DEF LocType
  <2>4. pc[o] = "write" => Row(o) \in Rows
    BY RowOfStep
  <2>5. pc[o] = "write" /\ loc'[o].linked =>
          disk'[Row(o)] # NoRow /\ disk'[Row(o)][loc[o].cur] # Missing
    BY <2>1, <2>3, <2>4, FileStep DEF CursorOf
  <2> QED
    BY <2>1, <2>2, <2>3, <2>5 DEF CursorOf, Kind, Row
<1>2. CursorOf(p)'
  <2>0. CursorOf(p) /\ FlowOf(p) /\ pc[p] \in Label /\ pc \in [Procs -> Label] /\ req \in [Procs -> Requests \cup {NoReq}]
        /\ loc \in [Procs -> LocType] /\ loc[p] \in LocType
    BY DEF Cursor, Flow, TypeOK
  <2> HIDE DEF TypeInv
  <2> USE DEF CursorOf, FlowOf, Kind, Row, Goto, SetLoc, RowSteps, WriteKinds, BulkKinds, RowKinds
  <2>98. ASSUME Release(p) PROVE CursorOf(p)'
    BY <2>0, <2>98 DEF Release, IdleLoc
  <2>1. CASE MakeRowDir(p)
    BY <2>0, <2>98, <2>1 DEF MakeRowDir, Finish, Abort, AfterGroup, AfterRead, LocType
  <2>2. CASE CheckRowExists(p)
    BY <2>0, <2>98, <2>2 DEF CheckRowExists, Finish, Abort, AfterGroup, AfterRead, LocType
  <2>3. CASE RejectUpdate(p)
    BY <2>0, <2>98, <2>3 DEF RejectUpdate, Finish, Abort, AfterGroup, AfterRead, LocType
  <2>4. CASE PrepareGroup(p)
    BY <2>0, <2>98, <2>4 DEF PrepareGroup, Finish, Abort, AfterGroup, AfterRead, LocType
  <2>5. CASE PrepareGroupUnread(p)
    BY <2>0, <2>98, <2>5 DEF PrepareGroupUnread, Finish, Abort, AfterGroup, AfterRead, LocType
  <2>6. CASE OpenFile(p)
    <3>1. Row(p) \in Rows /\ disk \in [Rows -> [Groups -> FileState] \cup {NoRow}]
      BY <2>6, RowOfStep DEF OpenFile, TypeInv, TypeOK
    <3> DEFINE file == [(IF disk[Row(p)] = NoRow THEN BareRow ELSE disk[Row(p)])
                           EXCEPT ![loc[p].cur] = Torn]
    <3>2. file \in [Groups -> FileState] /\ file[loc[p].cur] # Missing
      BY <2>0, <2>6, <3>1, NullsAssumption DEF OpenFile, BareRow, FileState, Unreadable
    <3>3. disk'[Row(p)] = file
      BY <2>6, <3>1 DEF OpenFile
    <3> HIDE DEF file
    <3>4. disk'[Row(p)] # NoRow /\ disk'[Row(p)][loc[p].cur] # Missing
      BY <3>2, <3>3, NullsAssumption
    <3> QED
      BY <2>0, <2>6, <3>4 DEF OpenFile, LocType
  <2>7. CASE WriteFile(p)
    BY <2>0, <2>98, <2>7 DEF WriteFile, Finish, Abort, AfterGroup, AfterRead, LocType
  <2>8. CASE ListRowFiles(p)
    BY <2>0, <2>98, <2>8 DEF ListRowFiles, Finish, Abort, AfterGroup, AfterRead, LocType
  <2>9. CASE RemoveFile(p)
    <3>1. loc'[p] = [loc[p] EXCEPT !.todo = loc'[p].todo] /\ pc' = pc /\ req' = req /\ pc[p] = "rmfile"
      BY <2>0, <2>9 DEF RemoveFile, LocType
    <3> QED
      BY <2>0, <3>1 DEF LocType
  <2>10. CASE RemoveRowDir(p)
    BY <2>0, <2>98, <2>10 DEF RemoveRowDir, Finish, Abort, AfterGroup, AfterRead, LocType
  <2>11. CASE RemoveRowDirFails(p)
    BY <2>0, <2>98, <2>11 DEF RemoveRowDirFails, Finish, Abort, AfterGroup, AfterRead, LocType
  <2>12. CASE SqlDrop(p)
    BY <2>0, <2>98, <2>12 DEF SqlDrop, Finish, Abort, AfterGroup, AfterRead, LocType
  <2>13. CASE ReadGroup(p)
    BY <2>0, <2>98, <2>13 DEF ReadGroup, Finish, Abort, AfterGroup, AfterRead, LocType
  <2>14. CASE ReadGroupFails(p)
    BY <2>0, <2>98, <2>14 DEF ReadGroupFails, Finish, Abort, AfterGroup, AfterRead, LocType
  <2>15. CASE SqlDelete(p)
    BY <2>0, <2>98, <2>15 DEF SqlDelete, Finish, Abort, AfterGroup, AfterRead, LocType
  <2>16. CASE SqlInsert(p)
    <3>1. CASE Kind(p) \in BulkKinds
      <4>1. loc'[p] = [loc[p] EXCEPT !.row = NoRow, !.buf = NoData, !.left = @ \ {Row(p)}]
        BY <2>0, <2>16, <3>1 DEF SqlInsert
      <4>2. loc'[p].seen = loc[p].seen /\ loc'[p].left \subseteq loc[p].left
        BY <2>0, <4>1 DEF LocType
      <4> QED
        BY <2>0, <2>16, <3>1, <4>2 DEF SqlInsert
    <3>2. CASE Kind(p) \notin BulkKinds
      BY <2>98, <2>16, <3>2 DEF SqlInsert, Finish
    <3> QED
      BY <3>1, <3>2
  <2>17. CASE SqlFails(p)
    BY <2>0, <2>98, <2>17 DEF SqlFails, Finish, Abort, AfterGroup, AfterRead, LocType
  <2>18. CASE CreateDuckDBTable(p)
    BY <2>0, <2>98, <2>18 DEF CreateDuckDBTable, Finish, Abort, AfterGroup, AfterRead, LocType
  <2>19. CASE TruncateTable(p)
    BY <2>0, <2>98, <2>19 DEF TruncateTable, Finish, Abort, AfterGroup, AfterRead, LocType
  <2>20. CASE SelectRowIds(p)
    BY <2>0, <2>98, <2>20 DEF SelectRowIds, Finish, Abort, AfterGroup, AfterRead, LocType
  <2>21. CASE SelectRowIdsFails(p)
    BY <2>0, <2>98, <2>21 DEF SelectRowIdsFails, Finish, Abort, AfterGroup, AfterRead, LocType
  <2>22. CASE ListRows(p)
    <3> DEFINE l == IF Kind(p) = "incr" THEN Listed \ loc[p].seen ELSE Listed
    <3>1. loc'[p] = [loc[p] EXCEPT !.left = l]
      BY <2>0, <2>22 DEF ListRows
    <3>2. l \cap Hidden = {}
      BY DEF Listed
    <3> HIDE DEF l
    <3>3. loc'[p].left = l /\ loc'[p].row = loc[p].row /\ loc'[p].seen = loc[p].seen
      BY <2>0, <3>1 DEF LocType
    <3> QED
      BY <2>0, <2>22, <3>2, <3>3 DEF ListRows
  <2>23. CASE PruneRow(p)
    BY <2>0, <2>98, <2>23 DEF PruneRow, Finish, Abort, AfterGroup, AfterRead, LocType
  <2>24. CASE PruneDone(p)
    BY <2>0, <2>98, <2>24 DEF PruneDone, Finish, Abort, AfterGroup, AfterRead, LocType
  <2>25. CASE NextRow(p)
    BY <2>0, <2>98, <2>25 DEF NextRow, Finish, Abort, AfterGroup, AfterRead, LocType
  <2>26. CASE BulkDone(p)
    BY <2>0, <2>98, <2>26 DEF BulkDone, Finish, Abort, AfterGroup, AfterRead, LocType
  <2>27. CASE Cancel(p)
    BY <2>98, <2>27 DEF Cancel, Abort
  <2> QED
    BY <2>1, <2>2, <2>3, <2>4, <2>5, <2>6, <2>7, <2>8, <2>9, <2>10, <2>11, <2>12, <2>13, <2>14, <2>15, <2>16, <2>17, <2>18, <2>19, <2>20, <2>21, <2>22, <2>23, <2>24, <2>25, <2>26, <2>27 DEF Step
<1> QED
  BY <1>1, <1>2 DEF Cursor

LEMMA TypeNext ==
  ASSUME TypeInv, [Next]_vars
  PROVE  TypeInv'
<1>1. TypeOK'
  BY TypeOKNext
<1>2. ASSUME NEW p \in Procs, NEW q \in Requests, Start(p, q) PROVE TypeInv'
  BY <1>2, TypeStart
<1>3. ASSUME NEW p \in Procs, Step(p) \/ Cancel(p) PROVE TypeInv'
  BY <1>1, <1>3, FlowStep, CursorStep DEF TypeInv
<1>4. ASSUME NEW q \in Requests, DirectDML(q) PROVE TypeInv'
  <2>1. UNCHANGED <<disk, pc, req, loc>> /\ solo' = [p \in Procs |-> solo[p] \ {q.row}]
    BY <1>4 DEF DirectDML
  <2>2. Flow'
    BY <2>1 DEF TypeInv, Flow, FlowOf, Kind
  <2>3. Cursor'
    BY <2>1 DEF TypeInv, Cursor, CursorOf, Kind, Row
  <2> QED
    BY <1>1, <2>2, <2>3 DEF TypeInv
<1>5. CASE Crash
  <2>1. pc' = [p \in Procs |-> "idle"] /\ solo' = [p \in Procs |-> {}] /\ loc' = [p \in Procs |-> IdleLoc]
    BY <1>5 DEF Crash
  <2>2. Flow' /\ Cursor'
    BY <2>1 DEF Flow, FlowOf, Cursor, CursorOf, RowSteps, IdleLoc
  <2> QED
    BY <1>1, <2>2 DEF TypeInv
<1>6. CASE UNCHANGED vars
  BY <1>1, <1>6 DEF vars, TypeInv, Flow, FlowOf, Cursor, CursorOf, Kind, Row
<1> QED
  BY <1>2, <1>3, <1>4, <1>5, <1>6 DEF Next

\* The state of the store, of the goroutines and of the history has its type in
\* every reachable state: what the handlers write to files and to DuckDB is row
\* data, and a goroutine never writes through a handle to a file that is gone.
THEOREM TypeCorrect == Spec => []TypeOK
<1>1. Init => TypeInv
  BY TypeInit
<1>2. TypeInv /\ [Next]_vars => TypeInv'
  BY TypeNext
<1>3. TypeInv => TypeOK
  BY DEF TypeInv
<1> QED
  BY <1>1, <1>2, <1>3, PTL DEF Spec

-----------------------------------------------------------------------------
(* ReadCommitted: what a file holds has been written to it, what a goroutine  *)
(* has read was in a file, and what DuckDB holds a goroutine had read.        *)

Provenance == Sources /\ OnDiskEver /\ ReadCommitted

LEMMA EverStep ==
  ASSUME TypeInv, [Next]_vars, NEW r \in Rows
  PROVE  ever[r] \subseteq ever'[r]
<1> USE DEF TypeInv, TypeOK
<1>1. ASSUME NEW p \in Procs, NEW q \in Requests, Start(p, q) PROVE ever' = ever
  BY <1>1 DEF Start
<1>2. ASSUME NEW p \in Procs, Step(p), ~WriteFile(p) PROVE ever' = ever
  BY <1>2 DEF Step, MakeRowDir, CheckRowExists, RejectUpdate, PrepareGroup, PrepareGroupUnread, OpenFile, ListRowFiles, RemoveFile, RemoveRowDir, RemoveRowDirFails, SqlDrop, ReadGroup, ReadGroupFails, SqlDelete, SqlInsert, SqlFails, CreateDuckDBTable, TruncateTable, SelectRowIds, SelectRowIdsFails, ListRows, PruneRow, PruneDone, NextRow, BulkDone
<1>3. ASSUME NEW p \in Procs, WriteFile(p) PROVE ever[r] \subseteq ever'[r]
  BY <1>3 DEF WriteFile
<1>4. ASSUME NEW p \in Procs, Cancel(p) PROVE ever' = ever
  BY <1>4 DEF Cancel
<1>5. ASSUME NEW q \in Requests, DirectDML(q) PROVE ever[r] \subseteq ever'[r]
  BY <1>5 DEF DirectDML
<1>6. Crash \/ UNCHANGED vars => ever' = ever
  BY DEF Crash, vars
<1> QED
  BY <1>1, <1>2, <1>3, <1>4, <1>5, <1>6 DEF Next

LEMMA OnDiskStep ==
  ASSUME TypeInv, OnDiskEver, [Next]_vars
  PROVE  OnDiskEver'
<1> SUFFICES ASSUME NEW r \in Rows, NEW g \in Groups,
                    disk'[r] # NoRow, disk'[r][g] \notin Unreadable
             PROVE  <<g, disk'[r][g]>> \in ever'[r]
  BY DEF OnDiskEver
<1> USE DEF TypeInv
<1>0. /\ ever[r] \subseteq ever'[r]
      /\ disk[r] # NoRow /\ disk[r][g] \notin Unreadable => <<g, disk[r][g]>> \in ever[r]
      /\ disk \in [Rows -> [Groups -> FileState] \cup {NoRow}]
  BY EverStep DEF OnDiskEver, TypeOK
<1>1. CASE UNCHANGED disk
  BY <1>0, <1>1
<1>2. ASSUME NEW p \in Procs, MakeRowDir(p) PROVE <<g, disk'[r][g]>> \in ever'[r]
  BY <1>0, <1>2 DEF MakeRowDir, BareRow, Unreadable
<1>3. ASSUME NEW p \in Procs, OpenFile(p) PROVE <<g, disk'[r][g]>> \in ever'[r]
  BY <1>0, <1>3 DEF OpenFile, BareRow, Unreadable
<1>4. ASSUME NEW p \in Procs, WriteFile(p) PROVE <<g, disk'[r][g]>> \in ever'[r]
  <2>1. loc[p].linked => disk[Row(p)] # NoRow /\ loc[p].cur \in Groups
    BY <1>4 DEF WriteFile, Cursor, CursorOf
  <2>2. ever \in [Rows -> SUBSET (Groups \X GroupData)]
    BY DEF TypeOK
  <2> QED
    BY <1>0, <1>4, <2>1, <2>2 DEF WriteFile, Unreadable
<1>5. ASSUME NEW p \in Procs, RemoveFile(p) PROVE <<g, disk'[r][g]>> \in ever'[r]
  BY <1>0, <1>5 DEF RemoveFile, Unreadable
<1>6. ASSUME NEW p \in Procs, RemoveRowDir(p) PROVE <<g, disk'[r][g]>> \in ever'[r]
  BY <1>0, <1>6 DEF RemoveRowDir
<1>7. UNCHANGED disk \/ \E p \in Procs : \/ MakeRowDir(p) \/ OpenFile(p) \/ WriteFile(p)
                                         \/ RemoveFile(p) \/ RemoveRowDir(p)
  BY DEF Next, vars, Start, Cancel, DirectDML, Crash, Step, CheckRowExists, RejectUpdate, PrepareGroup, PrepareGroupUnread, ListRowFiles, RemoveRowDirFails, SqlDrop, ReadGroup, ReadGroupFails, SqlDelete, SqlInsert, SqlFails, CreateDuckDBTable, TruncateTable, SelectRowIds, SelectRowIdsFails, ListRows, PruneRow, PruneDone, NextRow, BulkDone
<1> QED
  BY <1>1, <1>2, <1>3, <1>4, <1>5, <1>6, <1>7

\* A goroutine's buffer changes only when it reads a group or drops the row.
LEMMA BufferStep ==
  ASSUME TypeInv, NEW p \in Procs, Step(p), pc'[p] # "idle"
  PROVE  \/ loc'[p].row = loc[p].row /\ loc'[p].buf = loc[p].buf
         \/ loc'[p].buf = NoData
         \/ \E g \in Groups : /\ loc'[p].row = loc[p].row /\ Row(p) \in Rows
                              /\ loc'[p].buf = [loc[p].buf EXCEPT ![g] = ReadFile(Row(p), g)]
<1>0. loc \in [Procs -> LocType] /\ loc[p] \in LocType /\ pc \in [Procs -> Label]
  BY DEF TypeInv, TypeOK
<1> USE DEF Goto, SetLoc
<1>1. CASE ReadGroup(p)
  <2>1. Row(p) \in Rows
    BY <1>1, RowOfStep DEF ReadGroup
  <2>2. PICK g \in loc[p].todo : SetLoc(p, [loc[p] EXCEPT !.todo = @ \ {g},
                                   !.buf = [@ EXCEPT ![g] = ReadFile(Row(p), g)]])
    BY <1>1 DEF ReadGroup
  <2>3. g \in Groups
    BY <1>0 DEF LocType
  <2>4. loc'[p] = [loc[p] EXCEPT !.todo = @ \ {g}, !.buf = [@ EXCEPT ![g] = ReadFile(Row(p), g)]]
    BY <1>0, <2>2
  <2>5. loc'[p].row = loc[p].row /\ loc'[p].buf = [loc[p].buf EXCEPT ![g] = ReadFile(Row(p), g)]
    BY <1>0, <2>4 DEF LocType
  <2> QED
    BY <2>1, <2>3, <2>5
<1>2. CASE RejectUpdate(p) \/ RemoveRowDirFails(p) \/ SqlDrop(p) \/ SqlFails(p) \/ BulkDone(p)
  BY <1>0, <1>2 DEF RejectUpdate, RemoveRowDirFails, SqlDrop, SqlFails, BulkDone, Release, Finish, Abort
<1>3. CASE SqlInsert(p)
  <2>1. CASE Kind(p) \in BulkKinds
    <3>1. loc'[p] = [loc[p] EXCEPT !.row = NoRow, !.buf = NoData, !.left = @ \ {Row(p)}]
      BY <1>0, <1>3, <2>1 DEF SqlInsert
    <3> QED
      BY <1>0, <3>1 DEF LocType
  <2>2. CASE Kind(p) \notin BulkKinds
    BY <1>0, <1>3, <2>2 DEF SqlInsert, Finish, Release
  <2> QED
    BY <2>1, <2>2
<1>9. CASE NextRow(p)
  <2>1. PICK r \in loc[p].left : loc'[p] = [loc[p] EXCEPT !.row = r, !.todo = Groups, !.buf = NoData]
    BY <1>0, <1>9 DEF NextRow
  <2> QED
    BY <1>0, <2>1 DEF LocType
<1>4. CASE MakeRowDir(p) \/ CheckRowExists(p) \/ WriteFile(p)
  <2>1. PICK rest : AfterGroup(p, rest)
    BY <1>4 DEF MakeRowDir, CheckRowExists, WriteFile
  <2>2. loc'[p] = [loc[p] EXCEPT !.todo = IF rest = {} THEN Groups ELSE rest, !.cur = 0,
                                 !.out = EmptyData, !.linked = FALSE]
    BY <1>0, <2>1 DEF AfterGroup
  <2> QED
    BY <1>0, <2>2 DEF LocType
<1>5. CASE PrepareGroup(p) \/ PrepareGroupUnread(p)
  <2>0. \E g, d : SetLoc(p, [loc[p] EXCEPT !.cur = g, !.out = d])
    BY <1>5, Zenon DEF PrepareGroup, PrepareGroupUnread
  <2>1. PICK g, d : loc'[p] = [loc[p] EXCEPT !.cur = g, !.out = d]
    BY <1>0, <2>0
  <2> QED
    BY <1>0, <2>1 DEF LocType
<1>10. CASE OpenFile(p)
  BY <1>0, <1>10 DEF OpenFile, LocType
<1> USE DEF LocType
<1>6. CASE ListRowFiles(p) \/ RemoveFile(p) \/ RemoveRowDir(p)
  BY <1>0, <1>6 DEF ListRowFiles, RemoveFile, RemoveRowDir
<1>7. CASE ReadGroupFails(p) \/ SqlDelete(p) \/ CreateDuckDBTable(p) \/ TruncateTable(p)
  BY <1>0, <1>7 DEF ReadGroupFails, SqlDelete, CreateDuckDBTable, TruncateTable
<1>8. CASE SelectRowIds(p) \/ SelectRowIdsFails(p) \/ ListRows(p) \/ PruneRow(p) \/ PruneDone(p)
  BY <1>0, <1>8 DEF SelectRowIds, SelectRowIdsFails, ListRows, PruneRow, PruneDone
<1> QED
  BY <1>1, <1>2, <1>3, <1>4, <1>5, <1>6, <1>7, <1>8, <1>9, <1>10 DEF Step

LEMMA SourcesStep ==
  ASSUME TypeInv, Sources, OnDiskEver, [Next]_vars
  PROVE  Sources'
<1> SUFFICES ASSUME NEW o \in Procs, pc'[o] # "idle", NEW h \in Groups
             PROVE  \/ loc'[o].buf[h] = EmptyData
                    \/ Row(o)' \in Rows /\ <<h, loc'[o].buf[h]>> \in ever'[Row(o)']
  BY DEF Sources, Active
<1> DEFINE Good == \/ loc'[o].buf[h] = EmptyData
                   \/ Row(o)' \in Rows /\ <<h, loc'[o].buf[h]>> \in ever'[Row(o)']
<1>0. loc \in [Procs -> LocType] /\ loc[o] \in LocType /\ pc \in [Procs -> Label]
  BY DEF TypeInv, TypeOK
<1>1. \A r \in Rows : ever[r] \subseteq ever'[r]
  BY EverStep
<1>2. ASSUME pc[o] # "idle", loc'[o].row = loc[o].row, loc'[o].buf = loc[o].buf PROVE Good
  BY <1>1, <1>2 DEF Sources, Active, Row
<1>3. ASSUME loc'[o].buf = NoData PROVE Good
  BY <1>3 DEF NoData
<1>4. ASSUME NEW p \in Procs, NEW q \in Requests, Start(p, q) PROVE Good
  <2>1. CASE o = p
    <3>1. loc'[o].buf = NoData
      BY <1>0, <1>4, <2>1 DEF Start, SetLoc, IdleLoc
    <3> QED
      BY <1>3, <3>1
  <2>2. CASE o # p
    BY <1>0, <1>2, <1>4, <2>2 DEF Start, SetLoc, Goto
  <2> QED
    BY <2>1, <2>2
<1>5. ASSUME NEW p \in Procs, Step(p) \/ Cancel(p), o # p PROVE Good
  <2>1. /\ pc'[o] = pc[o]
        /\ loc'[o] = loc[o] \/ loc'[o] = [loc[o] EXCEPT !.linked = FALSE]
    BY <1>5, StepFrame
  <2>2. loc'[o].row = loc[o].row /\ loc'[o].buf = loc[o].buf
    BY <1>0, <2>1 DEF LocType
  <2> QED
    BY <1>2, <2>1, <2>2
<1>6. ASSUME Step(o) PROVE Good
  <2>1. pc[o] # "idle"
    BY <1>6 DEF Step, MakeRowDir, CheckRowExists, RejectUpdate, PrepareGroup, PrepareGroupUnread, OpenFile, WriteFile, ListRowFiles, RemoveFile, RemoveRowDir, RemoveRowDirFails, SqlDrop, ReadGroup, ReadGroupFails, SqlDelete, SqlInsert, SqlFails, CreateDuckDBTable, TruncateTable, SelectRowIds, SelectRowIdsFails, ListRows, PruneRow, PruneDone, NextRow, BulkDone
  <2>2. ASSUME NEW g \in Groups, loc'[o].row = loc[o].row, Row(o) \in Rows,
               loc'[o].buf = [loc[o].buf EXCEPT ![g] = ReadFile(Row(o), g)]
        PROVE  Good
    <3>1. \/ loc[o].buf[h] = EmptyData
          \/ Row(o) \in Rows /\ <<h, loc[o].buf[h]>> \in ever[Row(o)]
      BY <2>1 DEF Sources, Active
    <3>2. ReadFile(Row(o), g) = EmptyData \/ <<g, ReadFile(Row(o), g)>> \in ever[Row(o)]
      BY <2>2 DEF OnDiskEver, ReadFile
    <3>3. loc[o].buf \in [Groups -> GroupData]
      BY <1>0 DEF LocType, RowData
    <3>4. loc'[o].buf[h] = IF h = g THEN ReadFile(Row(o), g) ELSE loc[o].buf[h]
      BY <2>2, <3>3
    <3>5. Row(o)' = Row(o)
      BY <2>2 DEF Row
    <3> QED
      BY <1>1, <2>2, <3>1, <3>2, <3>4, <3>5
  <2> QED
    BY <1>2, <1>3, <1>6, <2>1, <2>2, BufferStep
<1>7. ~Cancel(o)
  BY <1>0 DEF Cancel, Abort, Release
<1>8. ASSUME NEW q \in Requests, DirectDML(q) PROVE Good
  BY <1>2, <1>8 DEF DirectDML
<1>9. ~Crash
  BY DEF Crash
<1>10. CASE UNCHANGED vars
  BY <1>2, <1>10 DEF vars
<1> QED
  BY <1>4, <1>5, <1>6, <1>7, <1>8, <1>9, <1>10 DEF Next

LEMMA ReadCommittedStep ==
  ASSUME TypeInv, Sources, ReadCommitted, [Next]_vars
  PROVE  ReadCommitted'
<1> SUFFICES ASSUME NEW r \in Rows, duck'[r] # NoRow, NEW g \in Groups
             PROVE  duck'[r][g] = EmptyData \/ <<g, duck'[r][g]>> \in ever'[r]
  BY DEF ReadCommitted, InDuck
<1> DEFINE Good == duck'[r][g] = EmptyData \/ <<g, duck'[r][g]>> \in ever'[r]
<1>0. ever[r] \subseteq ever'[r] /\ duck \in [Rows -> RowData \cup {NoRow}]
  BY EverStep DEF TypeInv, TypeOK
<1>1. ASSUME duck'[r] = duck[r] PROVE Good
  BY <1>0, <1>1 DEF ReadCommitted, InDuck
<1>2. ASSUME NEW p \in Procs, SqlInsert(p) PROVE Good
  <2>1. Row(p) \in Rows /\ pc[p] # "idle" /\ ever' = ever
    BY <1>2, RowOfStep DEF SqlInsert
  <2>2. duck' = [duck EXCEPT ![Row(p)] = loc[p].buf]
    BY <1>2 DEF SqlInsert
  <2> QED
    BY <1>0, <1>1, <2>1, <2>2 DEF Sources, Active
<1>3. ASSUME NEW p \in Procs, SqlDrop(p) \/ SqlDelete(p) \/ TruncateTable(p) \/ PruneRow(p)
      PROVE  Good
  BY <1>0, <1>1, <1>3 DEF SqlDrop, SqlDelete, TruncateTable, PruneRow
<1>4. ASSUME NEW q \in Requests, DirectDML(q) PROVE Good
  <2>1. q.row \in Rows /\ ever \in [Rows -> SUBSET (Groups \X GroupData)]
    BY RequestsAssumption DEF Request, TypeInv, TypeOK
  <2>2. CASE r # q.row
    BY <1>0, <1>1, <1>4, <2>1, <2>2 DEF DirectDML
  <2>3. CASE r = q.row
    <3>1. CASE /\ duck' = [duck EXCEPT ![r] = q.data]
               /\ ever' = [ever EXCEPT ![r] = @ \cup {<<i, q.data[i]>> : i \in Groups}]
      BY <1>0, <2>1, <3>1
    <3> DEFINE new == [i \in Groups |-> Merge(duck[r][i], q.data[i])]
    <3>2. CASE /\ duck' = [duck EXCEPT ![r] = new]
               /\ ever' = [ever EXCEPT ![r] = @ \cup {<<i, new[i]>> : i \in Groups}]
      <4> HIDE DEF new
      <4> QED
        BY <1>0, <2>1, <3>2
    <3>3. CASE duck' = [duck EXCEPT ![r] = NoRow]
      BY <1>0, <3>3
    <3> QED
      BY <1>4, <2>3, <3>1, <3>2, <3>3 DEF DirectDML
  <2> QED
    BY <2>2, <2>3
<1>5. CASE Crash
  BY <1>5 DEF Crash
<1>6. \/ duck' = duck \/ Crash \/ \E q \in Requests : DirectDML(q)
      \/ \E p \in Procs : SqlInsert(p) \/ SqlDrop(p) \/ SqlDelete(p) \/ TruncateTable(p) \/ PruneRow(p)
  BY DEF Next, vars, Start, Cancel, Step, MakeRowDir, CheckRowExists, RejectUpdate, PrepareGroup, PrepareGroupUnread, OpenFile, WriteFile, ListRowFiles, RemoveFile, RemoveRowDir, RemoveRowDirFails, ReadGroup, ReadGroupFails, SqlFails, CreateDuckDBTable, SelectRowIds, SelectRowIdsFails, ListRows, PruneDone, NextRow, BulkDone
<1> QED
  BY <1>1, <1>2, <1>3, <1>4, <1>5, <1>6

\* Whatever the requests, their interleaving and the faults, each column group
\* DuckDB shows of a row is one complete version of that row's file (or what a
\* DML statement left): RefreshRow and the loads never mix versions of a group,
\* rows or groups.
THEOREM DuckDBReadsCommitted == Spec => []ReadCommitted
<1>1. Init => TypeInv /\ Provenance
  <2> SUFFICES ASSUME Init PROVE Provenance
    BY TypeInit
  <2>1. Sources
    BY DEF Init, Sources, Active
  <2>2. OnDiskEver /\ ReadCommitted
    BY DEF Init, OnDiskEver, ReadCommitted, InDuck
  <2> QED
    BY <2>1, <2>2 DEF Provenance
<1>2. TypeInv /\ Provenance /\ [Next]_vars => (TypeInv /\ Provenance)'
  BY TypeNext, SourcesStep, OnDiskStep, ReadCommittedStep DEF Provenance
<1>3. Provenance => ReadCommitted
  BY DEF Provenance
<1> QED
  BY <1>1, <1>2, <1>3, PTL DEF Spec

-----------------------------------------------------------------------------
(* Agreement: a row that is not excused belongs to at most one request, which *)
(* has it for itself, so nobody else's step disturbs what that request has    *)
(* established about the row.                                                 *)

LEMMA ActiveRequest ==
  ASSUME TypeInv, NEW p \in Active
  PROVE  /\ p \in Procs /\ req[p] \in Requests /\ Kind(p) \in RowKinds \cup BulkKinds
         /\ Footprint(req[p]) \in SUBSET Rows
         /\ Kind(p) \in BulkKinds => Footprint(req[p]) = IF Kind(p) = "incr" THEN Rows \ Hidden ELSE Rows
         /\ Kind(p) \in RowKinds => Footprint(req[p]) = {Row(p)} /\ Row(p) = req[p].row
<1>1. p \in Procs /\ req[p] \in Requests /\ Kind(p) # "exec"
  BY DEF Active, TypeInv, Flow, FlowOf
<1>2. req[p].row \in Rows /\ Kind(p) \in RowKinds \cup BulkKinds
  BY <1>1, RequestsAssumption DEF Request, Kind
<1>3. Kind(p) \in RowKinds => Row(p) = req[p].row /\ Kind(p) \notin BulkKinds
  BY <1>1 DEF Active, TypeInv, Cursor, CursorOf, RowKinds, BulkKinds
<1> QED
  BY <1>1, <1>2, <1>3 DEF Footprint, Kind, BulkKinds, RowKinds

LEMMA ExposedFootprint ==
  ASSUME TypeInv, NEW p \in Active
  PROVE  Exposed(p) \subseteq Footprint(req[p])
<1>1. loc[p] \in LocType /\ (pc[p] = "sqlins" => Row(p) \in Rows)
  BY ActiveRequest, RowOfStep DEF TypeInv, TypeOK
<1> QED
  BY <1>1, ActiveRequest DEF Exposed, Footprint, Kind, LocType, BulkKinds, RowKinds

\* A step touches no row outside its request.
LEMMA Touch ==
  ASSUME TypeInv, NEW p \in Procs, Step(p) \/ Cancel(p), pc[p] # "idle",
         NEW r \in Rows \ Footprint(req[p])
  PROVE  disk'[r] = disk[r] /\ duck'[r] = duck[r]
<1>1. p \in Active /\ disk \in [Rows -> [Groups -> FileState] \cup {NoRow}]
      /\ duck \in [Rows -> RowData \cup {NoRow}]
  BY DEF Active, TypeInv, TypeOK
<1>2. r # Row(p) \/ pc[p] \notin RowSteps
  <2>1. CASE Kind(p) \in RowKinds
    BY <1>1, <2>1, ActiveRequest
  <2>2. CASE Kind(p) \in BulkKinds
    <3>1. CursorOf(p) /\ Kind(p) = "incr" /\ r \in Hidden
      BY <1>1, <2>2, ActiveRequest DEF TypeInv, Cursor
    <3> QED
      BY <2>2, <3>1 DEF CursorOf
  <2> QED
    BY <1>1, <2>1, <2>2, ActiveRequest
<1>3. FlowOf(p) /\ ((Kind(p) \in RowKinds /\ r # Row(p)) \/ Kind(p) = "incr")
  BY <1>1, ActiveRequest DEF TypeInv, Flow, BulkKinds, RowKinds
<1> USE DEF Budget, History
<1>10. CASE MakeRowDir(p)
  BY <1>1, <1>2, <1>3, <1>10 DEF MakeRowDir, FlowOf, RowKinds, BulkKinds, WriteKinds, RowSteps
<1>11. CASE CheckRowExists(p)
  BY <1>1, <1>2, <1>3, <1>11 DEF CheckRowExists, FlowOf, RowKinds, BulkKinds, WriteKinds, RowSteps
<1>12. CASE RejectUpdate(p)
  BY <1>1, <1>2, <1>3, <1>12 DEF RejectUpdate, FlowOf, RowKinds, BulkKinds, WriteKinds, RowSteps
<1>13. CASE PrepareGroup(p)
  BY <1>1, <1>2, <1>3, <1>13 DEF PrepareGroup, FlowOf, RowKinds, BulkKinds, WriteKinds, RowSteps
<1>14. CASE PrepareGroupUnread(p)
  BY <1>1, <1>2, <1>3, <1>14 DEF PrepareGroupUnread, FlowOf, RowKinds, BulkKinds, WriteKinds, RowSteps
<1>15. CASE OpenFile(p)
  BY <1>1, <1>2, <1>3, <1>15 DEF OpenFile, FlowOf, RowKinds, BulkKinds, WriteKinds, RowSteps
<1>16. CASE WriteFile(p)
  BY <1>1, <1>2, <1>3, <1>16 DEF WriteFile, FlowOf, RowKinds, BulkKinds, WriteKinds, RowSteps
<1>17. CASE ListRowFiles(p)
  BY <1>1, <1>2, <1>3, <1>17 DEF ListRowFiles, FlowOf, RowKinds, BulkKinds, WriteKinds, RowSteps
<1>18. CASE RemoveFile(p)
  BY <1>1, <1>2, <1>3, <1>18 DEF RemoveFile, FlowOf, RowKinds, BulkKinds, WriteKinds, RowSteps
<1>19. CASE RemoveRowDir(p)
  BY <1>1, <1>2, <1>3, <1>19 DEF RemoveRowDir, FlowOf, RowKinds, BulkKinds, WriteKinds, RowSteps
<1>20. CASE RemoveRowDirFails(p)
  BY <1>1, <1>2, <1>3, <1>20 DEF RemoveRowDirFails, FlowOf, RowKinds, BulkKinds, WriteKinds, RowSteps
<1>21. CASE SqlDrop(p)
  BY <1>1, <1>2, <1>3, <1>21 DEF SqlDrop, FlowOf, RowKinds, BulkKinds, WriteKinds, RowSteps
<1>22. CASE ReadGroup(p)
  BY <1>1, <1>2, <1>3, <1>22 DEF ReadGroup, FlowOf, RowKinds, BulkKinds, WriteKinds, RowSteps
<1>23. CASE ReadGroupFails(p)
  BY <1>1, <1>2, <1>3, <1>23 DEF ReadGroupFails, FlowOf, RowKinds, BulkKinds, WriteKinds, RowSteps
<1>24. CASE SqlDelete(p)
  BY <1>1, <1>2, <1>3, <1>24 DEF SqlDelete, FlowOf, RowKinds, BulkKinds, WriteKinds, RowSteps
<1>25. CASE SqlInsert(p)
  BY <1>1, <1>2, <1>3, <1>25 DEF SqlInsert, FlowOf, RowKinds, BulkKinds, WriteKinds, RowSteps
<1>26. CASE SqlFails(p)
  BY <1>1, <1>2, <1>3, <1>26 DEF SqlFails, FlowOf, RowKinds, BulkKinds, WriteKinds, RowSteps
<1>27. CASE CreateDuckDBTable(p)
  BY <1>1, <1>2, <1>3, <1>27 DEF CreateDuckDBTable, FlowOf, RowKinds, BulkKinds, WriteKinds, RowSteps
<1>28. CASE TruncateTable(p)
  BY <1>1, <1>2, <1>3, <1>28 DEF TruncateTable, FlowOf, RowKinds, BulkKinds, WriteKinds, RowSteps
<1>29. CASE SelectRowIds(p)
  BY <1>1, <1>2, <1>3, <1>29 DEF SelectRowIds, FlowOf, RowKinds, BulkKinds, WriteKinds, RowSteps
<1>30. CASE SelectRowIdsFails(p)
  BY <1>1, <1>2, <1>3, <1>30 DEF SelectRowIdsFails, FlowOf, RowKinds, BulkKinds, WriteKinds, RowSteps
<1>31. CASE ListRows(p)
  BY <1>1, <1>2, <1>3, <1>31 DEF ListRows, FlowOf, RowKinds, BulkKinds, WriteKinds, RowSteps
<1>32. CASE PruneRow(p)
  BY <1>1, <1>2, <1>3, <1>32 DEF PruneRow, FlowOf, RowKinds, BulkKinds, WriteKinds, RowSteps
<1>33. CASE PruneDone(p)
  BY <1>1, <1>2, <1>3, <1>33 DEF PruneDone, FlowOf, RowKinds, BulkKinds, WriteKinds, RowSteps
<1>34. CASE NextRow(p)
  BY <1>1, <1>2, <1>3, <1>34 DEF NextRow, FlowOf, RowKinds, BulkKinds, WriteKinds, RowSteps
<1>35. CASE BulkDone(p)
  BY <1>1, <1>2, <1>3, <1>35 DEF BulkDone, FlowOf, RowKinds, BulkKinds, WriteKinds, RowSteps
<1>99. CASE Cancel(p)
  BY <1>99 DEF Cancel
<1> QED
  BY <1>10, <1>11, <1>12, <1>13, <1>14, <1>15, <1>16, <1>17, <1>18, <1>19, <1>20, <1>21, <1>22, <1>23, <1>24, <1>25, <1>26, <1>27, <1>28, <1>29, <1>30, <1>31, <1>32, <1>33, <1>34, <1>35, <1>99 DEF Step

\* What a step does to the bookkeeping: nothing, or it answers the request, or it
\* excuses the rows of a read that failed.
LEMMA HistoryStep ==
  ASSUME TypeInv, NEW p \in Procs, Step(p) \/ Cancel(p)
  PROVE  /\ pc[p] # "idle"
         /\ \/ UNCHANGED <<req, solo, tainted>> /\ pc'[p] # "idle"
            \/ Release(p) /\ tainted \ solo[p] \subseteq tainted'
            \/ \E S \in SUBSET Rows : /\ UNCHANGED req /\ pc'[p] # "idle"
                                      /\ solo' = [solo EXCEPT ![p] = @ \ S]
                                      /\ tainted' = tainted \cup S
<1>0. pc \in [Procs -> Label] /\ solo \in [Procs -> SUBSET Rows] /\ Synced(p) \subseteq solo[p]
  BY DEF TypeInv, TypeOK, Synced
<1> USE DEF Goto, History, AfterGroup
<1>10. CASE MakeRowDir(p)
  BY <1>0, <1>10 DEF MakeRowDir, Finish, Abort
<1>11. CASE CheckRowExists(p)
  BY <1>0, <1>11 DEF CheckRowExists, Finish, Abort
<1>12. CASE RejectUpdate(p)
  BY <1>0, <1>12 DEF RejectUpdate, Finish, Abort
<1>13. CASE PrepareGroup(p)
  BY <1>0, <1>13 DEF PrepareGroup, Finish, Abort
<1>14. CASE PrepareGroupUnread(p)
  BY <1>0, <1>14 DEF PrepareGroupUnread, Finish, Abort
<1>15. CASE OpenFile(p)
  BY <1>0, <1>15 DEF OpenFile, Finish, Abort
<1>16. CASE WriteFile(p)
  BY <1>0, <1>16 DEF WriteFile, Finish, Abort
<1>17. CASE ListRowFiles(p)
  BY <1>0, <1>17 DEF ListRowFiles, Finish, Abort
<1>18. CASE RemoveFile(p)
  BY <1>0, <1>18 DEF RemoveFile, Finish, Abort
<1>19. CASE RemoveRowDir(p)
  BY <1>0, <1>19 DEF RemoveRowDir, Finish, Abort
<1>20. CASE RemoveRowDirFails(p)
  BY <1>0, <1>20 DEF RemoveRowDirFails, Finish, Abort
<1>21. CASE SqlDrop(p)
  BY <1>0, <1>21 DEF SqlDrop, Finish, Abort
<1>22. CASE SqlDelete(p)
  BY <1>0, <1>22 DEF SqlDelete, Finish, Abort
<1>23. CASE SqlInsert(p)
  BY <1>0, <1>23 DEF SqlInsert, Finish, Abort
<1>24. CASE SqlFails(p)
  BY <1>0, <1>24 DEF SqlFails, Finish, Abort
<1>25. CASE CreateDuckDBTable(p)
  BY <1>0, <1>25 DEF CreateDuckDBTable, Finish, Abort
<1>26. CASE TruncateTable(p)
  BY <1>0, <1>26 DEF TruncateTable, Finish, Abort
<1>27. CASE SelectRowIds(p)
  BY <1>0, <1>27 DEF SelectRowIds, Finish, Abort
<1>28. CASE ListRows(p)
  BY <1>0, <1>28 DEF ListRows, Finish, Abort
<1>29. CASE PruneRow(p)
  BY <1>0, <1>29 DEF PruneRow, Finish, Abort
<1>30. CASE PruneDone(p)
  BY <1>0, <1>30 DEF PruneDone, Finish, Abort
<1>31. CASE NextRow(p)
  BY <1>0, <1>31 DEF NextRow, Finish, Abort
<1>32. CASE BulkDone(p)
  BY <1>0, <1>32 DEF BulkDone, Finish, Abort
<1>95. CASE ReadGroup(p)
  <2>1. AfterRead(p) # "idle"
    BY DEF AfterRead
  <2> QED
    BY <1>0, <1>95, <2>1 DEF ReadGroup
<1>96. CASE ReadGroupFails(p)
  <2>1. AfterRead(p) # "idle"
    BY DEF AfterRead
  <2>2. Row(p) \in Rows
    BY <1>96, RowOfStep DEF ReadGroupFails
  <2>3. pc[p] # "idle" /\ UNCHANGED req /\ pc'[p] # "idle"
        /\ solo' = [solo EXCEPT ![p] = @ \ {Row(p)}] /\ tainted' = tainted \cup {Row(p)}
    BY <1>0, <1>96, <2>1 DEF ReadGroupFails
  <2> QED
    BY <2>2, <2>3
<1>97. CASE SelectRowIdsFails(p)
  <2>1. pc[p] # "idle" /\ UNCHANGED req /\ pc'[p] # "idle"
        /\ solo' = [solo EXCEPT ![p] = @ \ Footprint(req[p])]
        /\ tainted' = tainted \cup Footprint(req[p])
    BY <1>0, <1>97 DEF SelectRowIdsFails
  <2>2. Footprint(req[p]) \in SUBSET Rows
    BY <2>1, ActiveRequest DEF Active
  <2> QED
    BY <2>1, <2>2
<1>99. CASE Cancel(p)
  BY <1>0, <1>99 DEF Cancel, Active, Abort
<1> QED
  BY <1>10, <1>11, <1>12, <1>13, <1>14, <1>15, <1>16, <1>17, <1>18, <1>19, <1>20, <1>21, <1>22, <1>23, <1>24, <1>25, <1>26, <1>27, <1>28, <1>29, <1>30, <1>31, <1>32, <1>95, <1>96, <1>97, <1>99 DEF Step

LEMMA SharingStep ==
  ASSUME TypeInv, Sharing, NEW p \in Procs, Step(p) \/ Cancel(p)
  PROVE  Sharing'
<1>0. /\ pc \in [Procs -> Label] /\ solo \in [Procs -> SUBSET Rows] /\ req \in [Procs -> Requests \cup {NoReq}]
      /\ p \in Active
  BY HistoryStep DEF TypeInv, TypeOK, Active
<1>1. \A q \in Procs \ {p} : pc'[q] = pc[q] /\ req'[q] = req[q] /\ solo'[q] = solo[q]
  BY StepFrame
<1>2. CASE UNCHANGED <<req, solo, tainted>> /\ pc'[p] # "idle"
  BY <1>0, <1>1, <1>2 DEF Sharing, Active
<1>3. CASE Release(p) /\ tainted \ solo[p] \subseteq tainted'
  <2>1. Active' = Active \ {p}
    BY <1>0, <1>1, <1>3 DEF Release, Active
  <2>2. ASSUME NEW q \in Active \ {p} PROVE Footprint(req[q]) \subseteq solo[q] \cup tainted'
    BY <1>0, <1>3, <2>2 DEF Sharing
  <2> QED
    BY <1>1, <2>1, <2>2 DEF Sharing, Active
<1>4. CASE \E S \in SUBSET Rows : /\ UNCHANGED req /\ pc'[p] # "idle"
                                  /\ solo' = [solo EXCEPT ![p] = @ \ S]
                                  /\ tainted' = tainted \cup S
  <2>1. PICK S \in SUBSET Rows : solo' = [solo EXCEPT ![p] = @ \ S] /\ tainted' = tainted \cup S
    BY <1>4
  <2>2. Active' = Active /\ solo'[p] = solo[p] \ S
    BY <1>0, <1>1, <1>4, <2>1 DEF Active
  <2>3. ASSUME NEW q \in Active PROVE /\ solo'[q] \subseteq solo[q]
                                      /\ solo[q] \cup tainted \subseteq solo'[q] \cup tainted'
    BY <1>1, <2>1, <2>2 DEF Active
  <2> QED
    BY <1>4, <2>2, <2>3 DEF Sharing
<1> QED
  BY <1>2, <1>3, <1>4, HistoryStep

ProgressOf(p, r) ==
  /\ ReadProgress(p, r)
  /\ IF Kind(p) \in BulkKinds THEN BulkProgress(p, r) ELSE RowProgress(p, r)

\* p's own step keeps what p has established about a row it has for itself.
LEMMA OwnProgress ==
  ASSUME TypeInv, Sharing, Progress, NEW p \in Procs, Step(p) \/ Cancel(p), pc'[p] # "idle",
         NEW r \in solo'[p]
  PROVE  ProgressOf(p, r)'
<1>0. /\ p \in Active /\ r \in Rows /\ r \in solo[p]
      /\ pc \in [Procs -> Label] /\ solo \in [Procs -> SUBSET Rows]
      /\ loc \in [Procs -> LocType] /\ loc[p] \in LocType /\ loc[p].todo \subseteq Groups
      /\ disk \in [Rows -> [Groups -> FileState] \cup {NoRow}]
      /\ duck \in [Rows -> RowData \cup {NoRow}]
  <2>1. pc \in [Procs -> Label] /\ solo \in [Procs -> SUBSET Rows] /\ solo' \in [Procs -> SUBSET Rows]
    BY TypeNext DEF TypeInv, TypeOK, Next
  <2>2. solo'[p] \subseteq solo[p] /\ p \in Active
    BY <2>1, HistoryStep DEF Active, Release
  <2> QED
    BY <2>1, <2>2 DEF TypeInv, TypeOK, LocType
<1>1. ReadProgress(p, r) /\ IF Kind(p) \in BulkKinds THEN BulkProgress(p, r) ELSE RowProgress(p, r)
  BY <1>0 DEF Progress
<1>2. FlowOf(p) /\ CursorOf(p)
  BY DEF TypeInv, Flow, Cursor
<1>3. Kind(p) \in RowKinds => r = Row(p)
  BY <1>0, ActiveRequest DEF Sharing
<1>4. Kind(p)' = Kind(p) /\ ~Release(p) /\ ~Cancel(p)
  BY <1>0, HistoryStep DEF Kind, Release, Cancel, Abort
<1> USE DEF ProgressOf, ReadProgress, BulkProgress, RowProgress, FlowOf, CursorOf, Goto, SetLoc,
            RowSteps, RowKinds, BulkKinds, WriteKinds, Budget, History
<1>5. CASE MakeRowDir(p) \/ CheckRowExists(p) \/ WriteFile(p)
  <2>1. PICK rest : /\ loc'[p] = [loc[p] EXCEPT !.todo = IF rest = {} THEN Groups ELSE rest,
                                       !.cur = 0, !.out = EmptyData, !.linked = FALSE]
                    /\ pc'[p] = IF rest = {} THEN "read" ELSE "prepare"
    BY <1>0, <1>5 DEF MakeRowDir, CheckRowExists, WriteFile, AfterGroup
  <2>2. Kind(p) \in WriteKinds /\ loc'[p].row = loc[p].row /\ loc'[p].todo = IF rest = {} THEN Groups ELSE rest
    BY <1>0, <1>2, <1>5, <2>1 DEF MakeRowDir, CheckRowExists, WriteFile, LocType
  <2>3. disk'[r] # NoRow
    <3>1. CASE MakeRowDir(p)
      BY <1>0, <1>3, <2>2, <3>1, NullsAssumption DEF MakeRowDir, BareRow, FileState, Unreadable
    <3>2. CASE CheckRowExists(p)
      BY <1>0, <1>3, <2>2, <3>2 DEF CheckRowExists
    <3>3. CASE WriteFile(p)
      <4>1. disk[r] # NoRow /\ loc[p].cur \in Groups /\ loc[p].out \in GroupData
        BY <1>0, <1>1, <1>2, <2>2, <3>3 DEF WriteFile, LocType
      <4>2. \A x \in FileState : [disk[r] EXCEPT ![loc[p].cur] = x] \in [Groups -> FileState]
        BY <1>0, <4>1
      <4> QED
        BY <1>0, <1>3, <2>2, <3>3, <4>1, <4>2, NullsAssumption DEF WriteFile, FileState, Unreadable
    <3> QED
      BY <1>5, <3>1, <3>2, <3>3
  <2> QED
    BY <1>4, <2>1, <2>2, <2>3
<1>6. CASE PrepareGroup(p) \/ PrepareGroupUnread(p)
  <2>1. pc'[p] = "open" /\ disk' = disk /\ pc[p] = "prepare" /\ Kind(p) \in WriteKinds
    BY <1>0, <1>2, <1>6 DEF PrepareGroup, PrepareGroupUnread
  <2> QED
    BY <1>1, <1>4, <2>1
<1>7. CASE OpenFile(p)
  <2>1. pc'[p] = "write" /\ pc[p] = "open" /\ Kind(p) \in WriteKinds /\ disk[r] # NoRow /\ r = Row(p)
    BY <1>0, <1>1, <1>2, <1>3, <1>7 DEF OpenFile
  <2>2. disk'[r] \in [Groups -> FileState]
    BY <1>0, <1>2, <1>7, <2>1 DEF OpenFile, FileState, Unreadable
  <2> QED
    BY <1>4, <2>1, <2>2, NullsAssumption
<1>8. CASE ListRowFiles(p)
  <2>1. Kind(p) = "delete" /\ r = Row(p) /\ disk' = disk
    BY <1>2, <1>3, <1>8 DEF ListRowFiles
  <2>2. CASE disk[r] = NoRow
    BY <1>0, <1>4, <1>8, <2>1, <2>2 DEF ListRowFiles
  <2>3. CASE disk[r] # NoRow
    <3>1. pc'[p] = "rmfile" /\ loc'[p].todo = {g \in Groups : disk[r][g] # Missing}
      BY <1>0, <1>8, <2>1, <2>3 DEF ListRowFiles, LocType
    <3> QED
      BY <1>4, <2>1, <3>1
  <2> QED
    BY <2>2, <2>3
<1>9. CASE RemoveFile(p)
  <2>1. Kind(p) = "delete" /\ r = Row(p) /\ pc'[p] = "rmfile" /\ pc[p] = "rmfile"
    BY <1>2, <1>3, <1>9 DEF RemoveFile
  <2>2. PICK g \in loc[p].todo :
          /\ disk' = [disk EXCEPT ![Row(p)] = IF @ = NoRow THEN @ ELSE [@ EXCEPT ![g] = Missing]]
          /\ loc'[p] = [loc[p] EXCEPT !.todo = @ \ {g}]
    BY <1>9 DEF RemoveFile
  <2>3. loc'[p].todo = loc[p].todo \ {g} /\ g \in Groups
    BY <1>0, <2>2 DEF LocType
  <2>4. disk[r] = NoRow => disk'[r] = NoRow
    BY <1>0, <2>1, <2>2
  <2>5. disk[r] # NoRow => \A h \in Groups \ loc'[p].todo : disk'[r][h] = Missing
    BY <1>0, <1>1, <2>1, <2>2, <2>3
  <2> QED
    BY <1>4, <2>1, <2>4, <2>5
<1>10. CASE RemoveRowDir(p)
  BY <1>0, <1>2, <1>3, <1>4, <1>10 DEF RemoveRowDir
<1>11. CASE ReadGroup(p)
  <2>1. PICK g \in loc[p].todo :
          /\ \A h \in loc[p].todo : g =< h
          /\ SetLoc(p, [loc[p] EXCEPT !.todo = @ \ {g}, !.buf = [@ EXCEPT ![g] = ReadFile(Row(p), g)]])
          /\ Goto(p, IF loc[p].todo = {g} THEN AfterRead(p) ELSE "read")
    BY <1>11 DEF ReadGroup
  <2>2. loc'[p] = [loc[p] EXCEPT !.todo = @ \ {g}, !.buf = [@ EXCEPT ![g] = ReadFile(Row(p), g)]]
    BY <1>0, <2>1
  <2>3. /\ loc'[p].row = loc[p].row /\ loc'[p].todo = loc[p].todo \ {g}
        /\ loc'[p].buf = [loc[p].buf EXCEPT ![g] = ReadFile(Row(p), g)]
        /\ loc'[p].left = loc[p].left /\ loc'[p].seen = loc[p].seen
    BY <1>0, <2>2 DEF LocType
  <2>4. disk' = disk /\ duck' = duck /\ pc[p] = "read" /\ pc'[p] = IF loc[p].todo = {g} THEN AfterRead(p) ELSE "read"
    BY <1>0, <1>11, <2>1 DEF ReadGroup
  <2>5. ReadProgress(p, r)'
    <3> SUFFICES ASSUME r = Row(p)
                 PROVE  /\ pc'[p] = "read" => \A h \in Groups \ loc'[p].todo : loc'[p].buf[h] = ReadFile(r, h)'
                        /\ pc'[p] \in {"sqldel", "sqlins"} => loc'[p].buf = RowOnDisk(r)'
      BY <2>3 DEF Row
    <3>1. loc[p].buf \in [Groups -> GroupData] /\ g \in Groups
      BY <1>0 DEF LocType, RowData
    <3>2. \A h \in Groups \ loc[p].todo : loc[p].buf[h] = ReadFile(r, h)
      BY <1>1, <2>4
    <3>3. \A h \in Groups \ loc'[p].todo : loc'[p].buf[h] = ReadFile(r, h)
      BY <2>3, <3>1, <3>2
    <3>4. \A h \in Groups : ReadFile(r, h)' = ReadFile(r, h)
      BY <2>4 DEF ReadFile
    <3>5. RowOnDisk(r)' = RowOnDisk(r)
      BY <3>4 DEF RowOnDisk
    <3>6. ASSUME loc[p].todo = {g} PROVE loc'[p].buf = RowOnDisk(r)
      <4>1. \A h \in Groups : loc'[p].buf[h] = ReadFile(r, h)
        BY <2>3, <3>3, <3>6
      <4>2. loc'[p].buf \in [Groups -> GroupData]
        BY <2>3, <3>1, ReadFileType, <1>0 DEF TypeInv
      <4> QED
        BY <4>1, <4>2 DEF RowOnDisk
    <3> QED
      BY <2>4, <3>3, <3>4, <3>5, <3>6
  <2>6. AfterRead(p) \in {"sqlins", "sqldel"}
    BY DEF AfterRead
  <2>7. View(r)' = View(r)
    BY <2>4 DEF View, RowOnDisk, ReadFile
  <2>8. IF Kind(p) \in BulkKinds THEN BulkProgress(p, r)' ELSE RowProgress(p, r)'
    BY <1>1, <1>4, <2>3, <2>4, <2>6, <2>7
  <2> QED
    BY <1>4, <2>5, <2>8
<1>12. CASE ReadGroupFails(p)
  <2>1. r # Row(p) /\ Kind(p) \in BulkKinds
    BY <1>0, <1>2, <1>3, <1>12 DEF ReadGroupFails
  <2>2. PICK g \in loc[p].todo :
          /\ SetLoc(p, [loc[p] EXCEPT !.todo = @ \ {g}])
          /\ Goto(p, IF loc[p].todo = {g} THEN AfterRead(p) ELSE "read")
    BY <1>12 DEF ReadGroupFails
  <2>3. loc'[p] = [loc[p] EXCEPT !.todo = @ \ {g}]
    BY <1>0, <2>2
  <2>4. loc'[p].row = loc[p].row /\ loc'[p].left = loc[p].left /\ loc'[p].seen = loc[p].seen
    BY <1>0, <2>3 DEF LocType
  <2>5. disk' = disk /\ duck' = duck /\ pc[p] = "read" /\ pc'[p] = IF loc[p].todo = {g} THEN AfterRead(p) ELSE "read"
    BY <1>0, <1>12, <2>2 DEF ReadGroupFails
  <2>6. AfterRead(p) \in {"sqlins", "sqldel"}
    BY DEF AfterRead
  <2>7. View(r)' = View(r)
    BY <2>5 DEF View, RowOnDisk, ReadFile
  <2> QED
    BY <1>1, <1>4, <2>1, <2>4, <2>5, <2>6, <2>7 DEF Row
<1>13. CASE SqlDelete(p)
  <2>1. disk' = disk /\ loc' = loc /\ pc[p] = "sqldel" /\ pc'[p] = "sqlins" /\ Row(p)' = Row(p)
    BY <1>0, <1>13 DEF SqlDelete, Row
  <2>2. View(r)' = View(r) /\ RowOnDisk(r)' = RowOnDisk(r)
    BY <2>1 DEF View, RowOnDisk, ReadFile
  <2>3. r # Row(p) => duck'[r] = duck[r]
    BY <1>0, <1>13 DEF SqlDelete
  <2> QED
    BY <1>1, <1>2, <1>3, <1>4, <2>1, <2>2, <2>3
<1>14. CASE SqlInsert(p)
  <2>1. Kind(p) \in BulkKinds
    BY <1>4, <1>14 DEF SqlInsert, Finish
  <2>2. loc'[p] = [loc[p] EXCEPT !.row = NoRow, !.buf = NoData, !.left = @ \ {Row(p)}]
    BY <1>0, <1>14, <2>1 DEF SqlInsert
  <2>3. loc'[p].left = loc[p].left \ {Row(p)} /\ loc'[p].seen = loc[p].seen
    BY <1>0, <2>2 DEF LocType
  <2>4. disk' = disk /\ pc[p] = "sqlins" /\ pc'[p] = "next" /\ duck' = [duck EXCEPT ![Row(p)] = loc[p].buf]
    BY <1>0, <1>14, <2>1 DEF SqlInsert
  <2>5. View(r)' = View(r)
    BY <2>4 DEF View, RowOnDisk, ReadFile
  <2>6. r = Row(p) => duck'[r] = View(r)
    BY <1>0, <1>1, <1>2, <2>1, <2>4 DEF View
  <2>7. r # Row(p) => duck'[r] = duck[r]
    BY <1>0, <2>4
  <2> QED
    BY <1>1, <1>4, <2>1, <2>3, <2>4, <2>5, <2>6, <2>7
<1>15. CASE CreateDuckDBTable(p)
  BY <1>0, <1>1, <1>2, <1>4, <1>15 DEF CreateDuckDBTable
<1>16. CASE TruncateTable(p)
  BY <1>0, <1>1, <1>2, <1>4, <1>16 DEF TruncateTable
<1>17. CASE SelectRowIds(p)
  <2>1. pc'[p] = "list" /\ duck' = duck /\ loc'[p] = [loc[p] EXCEPT !.seen = InDuck]
    BY <1>0, <1>17 DEF SelectRowIds
  <2>2. loc'[p].seen = InDuck
    BY <1>0, <2>1 DEF LocType
  <2> QED
    BY <1>0, <1>1, <1>2, <1>4, <1>17, <2>1, <2>2 DEF SelectRowIds, InDuck
<1>18. CASE SelectRowIdsFails(p)
  BY <1>0, <1>18 DEF SelectRowIdsFails, Sharing
<1>19. CASE ListRows(p)
  <2>1. /\ pc[p] = "list" /\ disk' = disk /\ duck' = duck /\ Kind(p) \in BulkKinds
        /\ loc'[p] = [loc[p] EXCEPT !.left = IF Kind(p) = "incr" THEN Listed \ loc[p].seen ELSE Listed]
        /\ pc'[p] = IF Kind(p) = "sync" THEN "prune" ELSE "next"
    BY <1>0, <1>2, <1>19 DEF ListRows
  <2>2. /\ loc'[p].left = IF Kind(p) = "incr" THEN Listed \ loc[p].seen ELSE Listed
        /\ loc'[p].seen = loc[p].seen
    BY <1>0, <2>1 DEF LocType
  <2>3. View(r)' = View(r) /\ (disk[r] = NoRow => View(r) = NoRow) /\ (r \in Listed <=> disk[r] # NoRow)
    BY <1>0, <1>1, <2>1 DEF View, RowOnDisk, ReadFile, Listed
  <2>4. Kind(p) = "load" => loc[p].seen = {}
    BY <1>2, <2>1
  <2> QED
    BY <1>1, <1>4, <2>1, <2>2, <2>3, <2>4
<1>20. CASE PruneRow(p)
  <2>1. PICK x \in loc[p].seen \ loc[p].left :
          /\ duck' = [duck EXCEPT ![x] = NoRow]
          /\ SetLoc(p, [loc[p] EXCEPT !.seen = @ \ {x}])
    BY <1>20 DEF PruneRow
  <2>2. loc'[p] = [loc[p] EXCEPT !.seen = @ \ {x}]
    BY <1>0, <2>1
  <2>3. loc'[p].seen = loc[p].seen \ {x} /\ loc'[p].left = loc[p].left
    BY <1>0, <2>2 DEF LocType
  <2>4. pc[p] = "prune" /\ pc'[p] = "prune" /\ disk' = disk /\ Kind(p) = "sync"
    BY <1>2, <1>20 DEF PruneRow
  <2>5. duck'[r] = NoRow \/ (r # x /\ duck'[r] = duck[r])
    BY <1>0, <2>1
  <2> QED
    BY <1>1, <1>4, <2>3, <2>4, <2>5
<1>21. CASE PruneDone(p)
  <2>1. pc[p] = "prune" /\ pc'[p] = "next" /\ disk' = disk /\ duck' = duck /\ loc' = loc
        /\ loc[p].seen \subseteq loc[p].left /\ Kind(p) = "sync"
    BY <1>0, <1>2, <1>21 DEF PruneDone
  <2>2. View(r)' = View(r) /\ (disk[r] = NoRow => View(r) = NoRow)
    BY <2>1 DEF View, RowOnDisk, ReadFile
  <2> QED
    BY <1>1, <1>4, <2>1, <2>2
<1>22. CASE NextRow(p)
  <2>1. PICK x \in loc[p].left : loc'[p] = [loc[p] EXCEPT !.row = x, !.todo = Groups, !.buf = NoData]
    BY <1>0, <1>22 DEF NextRow
  <2>2. loc'[p].todo = Groups /\ loc'[p].left = loc[p].left /\ loc'[p].seen = loc[p].seen
    BY <1>0, <2>1 DEF LocType
  <2>3. pc[p] = "next" /\ pc'[p] = "read" /\ disk' = disk /\ duck' = duck /\ Kind(p) \in BulkKinds
    BY <1>0, <1>2, <1>22 DEF NextRow
  <2>4. View(r)' = View(r)
    BY <2>3 DEF View, RowOnDisk, ReadFile
  <2> QED
    BY <1>1, <1>4, <2>2, <2>3, <2>4
<1>23. ~RejectUpdate(p) /\ ~RemoveRowDirFails(p) /\ ~SqlDrop(p) /\ ~SqlFails(p) /\ ~BulkDone(p)
  BY <1>4 DEF RejectUpdate, RemoveRowDirFails, SqlDrop, SqlFails, BulkDone, Finish, Abort
<1> QED
  BY <1>4, <1>5, <1>6, <1>7, <1>8, <1>9, <1>10, <1>11, <1>12, <1>13, <1>14, <1>15, <1>16, <1>17,
     <1>18, <1>19, <1>20, <1>21, <1>22, <1>23 DEF Step

\* Nor does a step of another request: it does not touch the row.
LEMMA ProgressStep ==
  ASSUME TypeInv, Sharing, Progress, NEW p \in Procs, Step(p) \/ Cancel(p)
  PROVE  Progress'
<1> SUFFICES ASSUME NEW o \in Procs, o \in Active', NEW r \in solo'[o]
             PROVE  ProgressOf(o, r)'
  BY DEF Progress, ProgressOf, Active
<1>1. CASE o = p
  BY <1>1, OwnProgress DEF Active
<1>2. CASE o # p
  <2>1. /\ pc'[o] = pc[o] /\ req'[o] = req[o] /\ solo'[o] = solo[o]
        /\ loc'[o] = loc[o] \/ loc'[o] = [loc[o] EXCEPT !.linked = FALSE]
    BY <1>2, StepFrame
  <2>2. o \in Active /\ r \in solo[o] /\ p \in Active /\ r \in Rows /\ loc[o] \in LocType
    BY <2>1, HistoryStep DEF Active, TypeInv, TypeOK
  <2>3. r \notin Footprint(req[p])
    BY <1>2, <2>2 DEF Sharing
  <2>4. disk'[r] = disk[r] /\ duck'[r] = duck[r]
    BY <2>2, <2>3, Touch DEF Active
  <2>5. /\ loc'[o].row = loc[o].row /\ loc'[o].todo = loc[o].todo /\ loc'[o].buf = loc[o].buf
        /\ loc'[o].seen = loc[o].seen /\ loc'[o].left = loc[o].left
    BY <2>1, <2>2 DEF LocType
  <2>6. ProgressOf(o, r)
    BY <2>2 DEF Progress, ProgressOf
  <2>7. View(r)' = View(r) /\ RowOnDisk(r)' = RowOnDisk(r) /\ \A g \in Groups : ReadFile(r, g)' = ReadFile(r, g)
    BY <2>4 DEF View, RowOnDisk, ReadFile
  <2>8. Kind(o)' = Kind(o) /\ Row(o)' = Row(o)
    BY <2>1, <2>5 DEF Kind, Row
  <2> QED
    BY <2>1, <2>4, <2>5, <2>6, <2>7, <2>8 DEF ProgressOf, ReadProgress, BulkProgress, RowProgress
<1> QED
  BY <1>1, <1>2

\* A request that has taken its first step exposes its row until it is answered.
LEMMA RowRequestExposes ==
  ASSUME TypeInv, NEW p \in Procs, Step(p) \/ Cancel(p), pc'[p] # "idle", Kind(p) \in RowKinds
  PROVE  Exposed(p)' = {req[p].row}
<1>1. pc \in [Procs -> Label] /\ req'[p] = req[p] /\ FlowOf(p)
  BY HistoryStep DEF TypeInv, TypeOK, Flow, Release
<1>2. pc'[p] \notin {"mkdir", "exists", "rmlist"}
  <2> USE DEF Goto, AfterGroup
  <2>1. CASE MakeRowDir(p) \/ CheckRowExists(p) \/ PrepareGroup(p) \/ PrepareGroupUnread(p)
              \/ OpenFile(p) \/ WriteFile(p)
    BY <1>1, <2>1 DEF MakeRowDir, CheckRowExists, PrepareGroup, PrepareGroupUnread, OpenFile, WriteFile
  <2>2. CASE ListRowFiles(p) \/ RemoveFile(p) \/ RemoveRowDir(p) \/ SqlDelete(p)
    BY <1>1, <2>2 DEF ListRowFiles, RemoveFile, RemoveRowDir, SqlDelete
  <2>3. CASE ReadGroup(p) \/ ReadGroupFails(p)
    <3>1. AfterRead(p) \in {"sqldel", "sqlins"}
      BY DEF AfterRead
    <3> QED
      BY <1>1, <2>3, <3>1 DEF ReadGroup, ReadGroupFails
  <2>4. CASE SqlInsert(p)
    BY <1>1, <2>4 DEF SqlInsert, Finish, Release
  <2>5. CASE CreateDuckDBTable(p) \/ TruncateTable(p) \/ SelectRowIds(p) \/ SelectRowIdsFails(p)
             \/ ListRows(p) \/ PruneRow(p) \/ PruneDone(p) \/ NextRow(p)
    BY <1>1, <2>5 DEF CreateDuckDBTable, TruncateTable, SelectRowIds, SelectRowIdsFails, ListRows,
       PruneRow, PruneDone, NextRow
  <2>6. CASE RejectUpdate(p) \/ RemoveRowDirFails(p) \/ SqlDrop(p) \/ SqlFails(p) \/ BulkDone(p) \/ Cancel(p)
    BY <1>1, <2>6 DEF RejectUpdate, RemoveRowDirFails, SqlDrop, SqlFails, BulkDone, Cancel, Finish, Abort, Release
  <2> QED
    BY <2>1, <2>2, <2>3, <2>4, <2>5, <2>6 DEF Step
<1> QED
  BY <1>1, <1>2 DEF Exposed, Kind, RowKinds

LEMMA AgreementStep ==
  ASSUME TypeInv, Sharing, Progress, Agreement, NEW p \in Procs, Step(p) \/ Cancel(p)
  PROVE  Agreement'
<1> SUFFICES ASSUME NEW r \in Rows, r \notin tainted', \A q \in Active' : r \notin Exposed(q)'
             PROVE  duck'[r] = View(r)'
  BY DEF Agreement
<1>0. /\ p \in Active /\ pc \in [Procs -> Label] /\ solo \in [Procs -> SUBSET Rows]
      /\ loc \in [Procs -> LocType] /\ loc[p] \in LocType
      /\ duck \in [Rows -> RowData \cup {NoRow}]
  BY HistoryStep DEF Active, TypeInv, TypeOK
<1>1. ASSUME NEW q \in Active \ {p} PROVE q \in Active' /\ Exposed(q)' = Exposed(q)
  <2>1. /\ pc'[q] = pc[q] /\ req'[q] = req[q]
        /\ loc'[q] = loc[q] \/ loc'[q] = [loc[q] EXCEPT !.linked = FALSE]
    BY <1>1, StepFrame DEF Active
  <2>2. loc[q] \in LocType
    BY <1>0 DEF Active
  <2>3. loc'[q].row = loc[q].row /\ loc'[q].left = loc[q].left
    BY <2>1, <2>2 DEF LocType
  <2> QED
    BY <2>1, <2>3 DEF Active, Exposed, Kind, Row
<1>2. \A q \in Active \ {p} : r \notin Exposed(q)
  BY <1>1
<1>3. ASSUME r \notin tainted, r \notin Exposed(p), disk'[r] = disk[r], duck'[r] = duck[r]
      PROVE  duck'[r] = View(r)'
  <2>1. duck[r] = View(r)
    BY <1>2, <1>3 DEF Agreement
  <2>2. View(r)' = View(r)
    BY <1>3 DEF View, RowOnDisk, ReadFile
  <2> QED
    BY <1>3, <2>1, <2>2
<1>4. CASE r \notin Footprint(req[p])
  <2>1. disk'[r] = disk[r] /\ duck'[r] = duck[r] /\ r \notin Exposed(p)
    BY <1>0, <1>4, Touch, ExposedFootprint DEF Active
  <2>2. r \notin tainted
    <3>1. solo[p] \subseteq Footprint(req[p])
      BY <1>0 DEF Sharing
    <3> QED
      BY <1>0, <1>4, <3>1, HistoryStep
  <2> QED
    BY <1>3, <2>1, <2>2
<1>5. r \in Footprint(req[p]) => r \in solo[p] \cup tainted
  BY <1>0 DEF Sharing
<1>6. \A x \in solo[p] : ProgressOf(p, x)
  BY <1>0 DEF Progress, ProgressOf
<1>7. FlowOf(p) /\ CursorOf(p)
  BY DEF TypeInv, Flow, Cursor
<1>8. CASE r \in Footprint(req[p]) /\ pc'[p] = "idle"
  <2>1. CASE RejectUpdate(p)
    BY <1>0, <1>3, <1>7, <2>1 DEF RejectUpdate, Exposed, FlowOf
  <2>2. CASE RemoveRowDirFails(p) \/ SqlFails(p) \/ Cancel(p)
    BY <1>3, <2>2 DEF RemoveRowDirFails, SqlFails, Cancel, Abort
  <2>3. CASE SqlDrop(p)
    <3>1. Kind(p) = "delete" /\ r = Row(p) /\ Synced(p) = solo[p]
      BY <1>0, <1>7, <1>8, <2>3, ActiveRequest DEF SqlDrop, FlowOf, Synced, RowKinds
    <3>2. r \in solo[p]
      BY <1>5, <1>8, <2>3 DEF SqlDrop, Finish, Synced
    <3>3. disk[r] = NoRow
      BY <1>6, <2>3, <3>1, <3>2 DEF ProgressOf, RowProgress, SqlDrop, BulkKinds
    <3> QED
      BY <1>0, <2>3, <3>1, <3>3 DEF SqlDrop, View
  <2>4. CASE SqlInsert(p)
    <3>1. Kind(p) \in WriteKinds /\ Finish(p)
      BY <1>0, <1>7, <1>8, <2>4 DEF SqlInsert, FlowOf, Goto, RowSteps
    <3>2. r = Row(p) /\ Kind(p) \notin BulkKinds /\ Synced(p) = solo[p]
      BY <1>0, <1>8, <3>1, ActiveRequest DEF RowKinds, WriteKinds, BulkKinds, Synced
    <3>3. r \in solo[p]
      BY <1>5, <1>8, <3>1 DEF Finish, Synced
    <3>4. disk[r] # NoRow /\ loc[p].buf = RowOnDisk(r)
      BY <1>6, <2>4, <3>2, <3>3 DEF ProgressOf, ReadProgress, RowProgress, SqlInsert, RowSteps
    <3>5. View(r)' = RowOnDisk(r)
      BY <2>4, <3>4 DEF SqlInsert, View, RowOnDisk, ReadFile
    <3> QED
      BY <1>0, <2>4, <3>2, <3>4, <3>5 DEF SqlInsert
  <2>5. CASE BulkDone(p)
    <3>1. Kind(p) \in BulkKinds /\ loc[p].left = {} /\ pc[p] = "next" /\ disk' = disk /\ duck' = duck
      BY <1>7, <2>5 DEF BulkDone, FlowOf
    <3>2. r \in solo[p]
      BY <1>5, <1>8, <2>5 DEF BulkDone, Finish, Synced
    <3>3. (Kind(p) = "incr" /\ r \in loc[p].seen) \/ duck[r] = View(r)
      BY <1>6, <3>1, <3>2 DEF ProgressOf, BulkProgress
    <3>4. CASE duck[r] = View(r)
      BY <3>1, <3>4 DEF View, RowOnDisk, ReadFile
    <3>5. CASE Kind(p) = "incr" /\ r \in loc[p].seen
      BY <1>3, <2>5, <3>1, <3>5 DEF Exposed, Synced, BulkDone, Finish
    <3> QED
      BY <3>3, <3>4, <3>5
  <2>6. \/ RejectUpdate(p) \/ RemoveRowDirFails(p) \/ SqlFails(p) \/ Cancel(p) \/ SqlDrop(p)
        \/ SqlInsert(p) \/ BulkDone(p)
    <3>1. AfterRead(p) # "idle"
      BY DEF AfterRead
    <3> QED
      BY <1>0, <1>8, <3>1 DEF Step, Goto, AfterGroup, Active, MakeRowDir, CheckRowExists, PrepareGroup,
         PrepareGroupUnread, OpenFile, WriteFile, ListRowFiles, RemoveFile, RemoveRowDir, ReadGroup,
         ReadGroupFails, SqlDelete, CreateDuckDBTable, TruncateTable, SelectRowIds,
         SelectRowIdsFails, ListRows, PruneRow, PruneDone, NextRow
  <2> QED
    BY <2>1, <2>2, <2>3, <2>4, <2>5, <2>6
<1>9. CASE r \in Footprint(req[p]) /\ pc'[p] # "idle"
  <2>0. p \in Active'
    BY <1>9 DEF Active
  <2>1. r \notin Exposed(p)' /\ r \notin tainted /\ r \in solo[p] /\ r \in solo'[p] /\ Kind(p)' = Kind(p)
        /\ ~Release(p)
    BY <1>0, <1>5, <1>9, <2>0, HistoryStep DEF Release, Kind
  <2>2. ProgressOf(p, r)'
    BY <1>9, <2>1, OwnProgress
  <2>3. Kind(p) \in BulkKinds
    <3>1. Kind(p) \in RowKinds => Exposed(p)' = {req[p].row} /\ r = req[p].row
      BY <1>0, <1>9, RowRequestExposes, ActiveRequest
    <3> QED
      BY <1>0, <2>1, <3>1, ActiveRequest
  <2> USE DEF Goto, BulkKinds, FlowOf, RowKinds, WriteKinds, RowSteps
  <2>4. CASE CreateDuckDBTable(p) \/ SelectRowIds(p) \/ SelectRowIdsFails(p) \/ PruneDone(p)
    <3>1. disk' = disk /\ duck' = duck /\ r \notin Exposed(p)
      BY <1>0, <1>7, <2>4 DEF CreateDuckDBTable, SelectRowIds, SelectRowIdsFails, PruneDone, Exposed, CursorOf
    <3> QED
      BY <1>3, <2>1, <3>1
  <2>5. CASE ReadGroup(p) \/ ReadGroupFails(p) \/ NextRow(p)
    <3>1. \E g, b, x : loc'[p] = [loc[p] EXCEPT !.todo = g, !.buf = b, !.row = x]
      <4>1. CASE NextRow(p)
        <5>1. PICK x \in loc[p].left : loc'[p] = [loc[p] EXCEPT !.row = x, !.todo = Groups, !.buf = NoData]
          BY <1>0, <4>1 DEF NextRow, SetLoc
        <5>2. loc'[p] = [loc[p] EXCEPT !.todo = Groups, !.buf = NoData, !.row = x]
          BY <1>0, <5>1 DEF LocType
        <5> QED
          BY <5>2
      <4>2. CASE ReadGroup(p)
        <5>1. PICK g \in loc[p].todo : loc'[p] = [loc[p] EXCEPT !.todo = @ \ {g},
                !.buf = [@ EXCEPT ![g] = ReadFile(Row(p), g)]]
          BY <1>0, <4>2 DEF ReadGroup, SetLoc
        <5>2. loc'[p] = [loc[p] EXCEPT !.todo = loc[p].todo \ {g},
                !.buf = [loc[p].buf EXCEPT ![g] = ReadFile(Row(p), g)], !.row = loc[p].row]
          BY <1>0, <5>1 DEF LocType
        <5> QED
          BY <5>2
      <4>3. CASE ReadGroupFails(p)
        <5>1. PICK g \in loc[p].todo : loc'[p] = [loc[p] EXCEPT !.todo = @ \ {g}]
          BY <1>0, <4>3 DEF ReadGroupFails, SetLoc
        <5>2. loc'[p] = [loc[p] EXCEPT !.todo = loc[p].todo \ {g}, !.buf = loc[p].buf, !.row = loc[p].row]
          BY <1>0, <5>1 DEF LocType
        <5> QED
          BY <5>2
      <4> QED
        BY <2>5, <4>1, <4>2, <4>3
    <3>2. loc'[p].left = loc[p].left
      BY <1>0, <3>1 DEF LocType
    <3>3. disk' = disk /\ duck' = duck /\ pc[p] \in {"read", "next"} /\ pc'[p] \in {"read", "sqldel", "sqlins"}
      <4>1. AfterRead(p) \in {"sqldel", "sqlins"}
        BY DEF AfterRead
      <4> QED
        BY <1>0, <2>5, <4>1 DEF ReadGroup, ReadGroupFails, NextRow
    <3>4. r \notin Exposed(p)
      BY <2>1, <2>3, <3>2, <3>3 DEF Exposed
    <3> QED
      BY <1>3, <2>1, <3>3, <3>4
  <2>6. CASE TruncateTable(p)
    BY <1>0, <1>7, <2>1, <2>6 DEF TruncateTable, Exposed
  <2>7. CASE ListRows(p)
    <3>1. disk' = disk /\ duck' = duck /\ pc[p] = "list" /\ pc'[p] = IF Kind(p) = "sync" THEN "prune" ELSE "next"
      BY <1>0, <2>7 DEF ListRows
    <3>2. CASE Kind(p) = "load"
      <4>1. r \notin loc'[p].left
        BY <2>1, <3>1, <3>2 DEF Exposed
      <4> QED
        BY <2>1, <2>2, <3>1, <3>2, <4>1 DEF ProgressOf, BulkProgress
    <3>3. CASE Kind(p) # "load"
      <4>1. r \notin Exposed(p)
        BY <2>3, <3>1, <3>3 DEF Exposed
      <4> QED
        BY <1>3, <2>1, <3>1, <4>1
    <3> QED
      BY <3>2, <3>3
  <2>8. CASE PruneRow(p)
    <3>1. PICK x \in loc[p].seen \ loc[p].left :
            duck' = [duck EXCEPT ![x] = NoRow] /\ SetLoc(p, [loc[p] EXCEPT !.seen = @ \ {x}])
      BY <2>8 DEF PruneRow
    <3>2. pc[p] = "prune" /\ pc' = pc /\ disk' = disk /\ Kind(p) = "sync"
      BY <1>7, <2>8 DEF PruneRow
    <3>3. CASE r = x
      <4>1. loc'[p] = [loc[p] EXCEPT !.seen = @ \ {x}]
        BY <1>0, <3>1 DEF SetLoc
      <4>2. r \notin loc'[p].left
        BY <1>0, <3>1, <3>3, <4>1 DEF LocType
      <4>3. disk'[r] = NoRow
        BY <2>1, <2>2, <3>2, <4>2 DEF ProgressOf, BulkProgress
      <4> QED
        BY <1>0, <3>1, <3>3, <4>3 DEF View
    <3>4. CASE r # x
      <4>1. r \notin Exposed(p) /\ duck'[r] = duck[r]
        BY <1>0, <3>1, <3>2, <3>4 DEF Exposed
      <4> QED
        BY <1>3, <2>1, <3>2, <4>1
    <3> QED
      BY <3>3, <3>4
  <2>9. CASE SqlDelete(p)
    <3>1. Kind(p) = "sync" /\ pc[p] = "sqldel" /\ pc'[p] = "sqlins" /\ loc' = loc /\ disk' = disk
          /\ duck' = [duck EXCEPT ![Row(p)] = NoRow]
      BY <1>0, <1>7, <2>3, <2>9 DEF SqlDelete, CursorOf
    <3>2. r # Row(p) /\ r \notin Exposed(p)
      BY <2>1, <3>1 DEF Exposed, Row
    <3> QED
      BY <1>0, <1>3, <2>1, <3>1, <3>2
  <2>10. CASE SqlInsert(p)
    <3>1. disk' = disk /\ pc[p] = "sqlins" /\ pc'[p] = "next" /\ duck' = [duck EXCEPT ![Row(p)] = loc[p].buf]
          /\ loc'[p] = [loc[p] EXCEPT !.row = NoRow, !.buf = NoData, !.left = @ \ {Row(p)}]
      BY <1>0, <2>3, <2>10 DEF SqlInsert, SetLoc
    <3>2. loc'[p].left = loc[p].left \ {Row(p)}
      BY <1>0, <3>1 DEF LocType
    <3>3. CASE r = Row(p)
      <4>1. ProgressOf(p, r) /\ r \in loc[p].left
        BY <1>6, <1>7, <2>1, <2>3, <3>1, <3>3 DEF CursorOf
      <4>2. disk[r] # NoRow /\ loc[p].buf = RowOnDisk(r)
        BY <2>3, <3>1, <3>3, <4>1 DEF ProgressOf, ReadProgress, BulkProgress
      <4>3. View(r)' = RowOnDisk(r)
        BY <3>1, <4>2 DEF View, RowOnDisk, ReadFile
      <4> QED
        BY <1>0, <3>1, <3>3, <4>2, <4>3
    <3>4. CASE r # Row(p)
      <4>1. r \notin Exposed(p)
        BY <2>1, <2>3, <3>1, <3>2, <3>4 DEF Exposed
      <4> QED
        BY <1>0, <1>3, <2>1, <3>1, <3>4, <4>1
    <3> QED
      BY <3>3, <3>4
  <2>11. \/ CreateDuckDBTable(p) \/ SelectRowIds(p) \/ SelectRowIdsFails(p) \/ PruneDone(p)
         \/ ReadGroup(p) \/ ReadGroupFails(p) \/ NextRow(p) \/ TruncateTable(p) \/ ListRows(p)
         \/ PruneRow(p) \/ SqlDelete(p) \/ SqlInsert(p)
    <3>1. pc[p] \notin {"mkdir", "exists", "prepare", "open", "write", "rmlist", "rmfile", "sqldrop"}
      BY <1>7, <2>3
    <3>2. ~BulkDone(p) /\ ~SqlFails(p) /\ ~Cancel(p)
      BY <2>1 DEF BulkDone, SqlFails, Cancel, Finish, Abort
    <3> QED
      BY <3>1, <3>2 DEF Step, MakeRowDir, CheckRowExists, RejectUpdate, PrepareGroup, PrepareGroupUnread,
         OpenFile, WriteFile, ListRowFiles, RemoveFile, RemoveRowDir, RemoveRowDirFails, SqlDrop
  <2> QED
    BY <2>4, <2>5, <2>6, <2>7, <2>8, <2>9, <2>10, <2>11
<1> QED
  BY <1>4, <1>8, <1>9

Safe == Sharing /\ Progress /\ Agreement

LEMMA SafeInit == Init => Safe
<1> SUFFICES ASSUME Init PROVE Safe
  OBVIOUS
<1>1. Sharing /\ Progress
  BY DEF Init, Sharing, Progress, Active
<1>2. Agreement
  <2>1. ASSUME NEW r \in Rows PROVE duck[r] = View(r)
    <3>1. PICK S \in SUBSET Rows : /\ disk = [x \in Rows |-> IF x \in S THEN Seed ELSE NoRow]
                                   /\ duck = [x \in Rows |-> IF x \in S THEN Seed ELSE NoRow]
      BY DEF Init
    <3>2. CASE r \notin S
      BY <3>1, <3>2 DEF View
    <3>3. CASE r \in S
      <4>1. disk[r] = Seed /\ duck[r] = Seed /\ Seed # NoRow
        BY <3>1, <3>3, SeedAssumption, NullsAssumption DEF RowData, FileState
      <4>2. \A g \in Groups : Seed[g] \in GroupData /\ Seed[g] \notin Unreadable
        BY SeedAssumption, NullsAssumption DEF RowData
      <4>3. RowOnDisk(r) = Seed
        BY <4>1, <4>2, SeedAssumption DEF RowOnDisk, ReadFile, RowData
      <4> QED
        BY <4>1, <4>3 DEF View
    <3> QED
      BY <3>2, <3>3
  <2> QED
    BY <2>1 DEF Agreement
<1> QED
  BY <1>1, <1>2 DEF Safe

\* A request that begins shares its rows with nobody, or the rows are excused.
LEMMA SafeStart ==
  ASSUME TypeInv, Safe, NEW p \in Procs, NEW q \in Requests, Start(p, q)
  PROVE  Safe'
<1> DEFINE busy == UNION {Footprint(req[o]) : o \in Active}
           F == Footprint(q)
           lost == Overlooked(q)
<1>0. /\ pc \in [Procs -> Label] /\ solo \in [Procs -> SUBSET Rows] /\ loc \in [Procs -> LocType]
      /\ req \in [Procs -> Requests \cup {NoReq}]
      /\ pc[p] = "idle" /\ q.kind # "exec" /\ disk' = disk /\ duck' = duck
  BY DEF TypeInv, TypeOK, Start
<1>1. /\ pc'[p] = FirstStep(q.kind) /\ req'[p] = q /\ loc'[p].left = {}
      /\ solo'[p] = F \ (busy \cup lost) /\ tainted' = tainted \cup (F \cap busy) \cup lost
  BY <1>0, IdleLocType DEF Start, Goto, SetLoc, IdleLoc, LocType
<1>2. \A o \in Procs \ {p} : /\ pc'[o] = pc[o] /\ req'[o] = req[o] /\ loc'[o] = loc[o]
                             /\ solo'[o] = solo[o] \ F
  BY <1>0 DEF Start, Goto, SetLoc
<1>3. FirstStep(q.kind) \in {"mkdir", "exists", "rmlist", "create"}
  BY DEF FirstStep
<1>4. Active' = Active \cup {p} /\ p \notin Active
  BY <1>0, <1>1, <1>2, <1>3 DEF Active
<1>5. \A o \in Active : o \in Procs \ {p} /\ Footprint(req[o]) \subseteq busy
  BY <1>4 DEF Active
<1>6. Sharing'
  <2>1. ASSUME NEW o \in Active
        PROVE  /\ solo'[o] \subseteq Footprint(req'[o])
               /\ Footprint(req'[o]) \subseteq solo'[o] \cup tainted'
               /\ solo'[o] \cap F = {}
               /\ solo'[p] \cap Footprint(req'[o]) = {}
               /\ \A x \in Active \ {o} : solo'[o] \cap Footprint(req'[x]) = {}
    <3>1. solo[o] \subseteq Footprint(req[o]) /\ Footprint(req[o]) \subseteq solo[o] \cup tainted
          /\ \A x \in Active \ {o} : solo[o] \cap Footprint(req[x]) = {}
      BY DEF Safe, Sharing
    <3>2. Footprint(req[o]) \cap F \subseteq tainted'
      BY <1>1, <1>5
    <3> QED
      BY <1>1, <1>2, <1>5, <3>1, <3>2
  <2>2. F \subseteq solo'[p] \cup tainted' /\ solo'[p] \subseteq F
    BY <1>1
  <2>3. Footprint(req'[p]) = F
    BY <1>1
  <2> QED
    BY <1>4, <2>1, <2>2, <2>3 DEF Sharing, Footprint
<1>7. Progress'
  <2> SUFFICES ASSUME NEW o \in Procs, o \in Active', NEW r \in solo'[o]
               PROVE  (ReadProgress(o, r) /\ IF Kind(o) \in BulkKinds THEN BulkProgress(o, r)
                                                                      ELSE RowProgress(o, r))'
    BY DEF Progress, Active
  <2>1. CASE o = p
    <3>1. q.kind \in {"load", "sync"} => (r \in Hidden => disk'[r] = NoRow)
      BY <1>0, <1>1, <2>1 DEF Overlooked
    <3>2. q.kind = "incr" => r \notin Hidden
      BY <1>1, <2>1 DEF Footprint
    <3> QED
      BY <1>1, <1>3, <2>1, <3>1, <3>2 DEF ReadProgress, BulkProgress, RowProgress, RowSteps, BulkKinds, Kind
  <2>2. CASE o # p
    <3>1. o \in Active /\ r \in solo[o] /\ pc'[o] = pc[o] /\ req'[o] = req[o] /\ loc'[o] = loc[o]
      BY <1>2, <1>4, <2>2
    <3>2. ReadProgress(o, r) /\ IF Kind(o) \in BulkKinds THEN BulkProgress(o, r) ELSE RowProgress(o, r)
      BY <3>1 DEF Safe, Progress
    <3> QED
      BY <1>0, <3>1, <3>2 DEF ReadProgress, BulkProgress, RowProgress, Row, Kind, ReadFile, RowOnDisk, View
  <2> QED
    BY <2>1, <2>2
<1>8. Agreement'
  <2> SUFFICES ASSUME NEW r \in Rows, r \notin tainted', \A o \in Active' : r \notin Exposed(o)'
               PROVE  duck'[r] = View(r)'
    BY DEF Agreement
  <2>1. ASSUME NEW o \in Active PROVE r \notin Exposed(o)
    <3>1. o \in Active' /\ pc'[o] = pc[o] /\ req'[o] = req[o] /\ loc'[o] = loc[o]
      BY <1>2, <1>4, <1>5
    <3> QED
      BY <3>1 DEF Exposed, Kind, Row
  <2>2. duck[r] = View(r)
    BY <1>1, <2>1 DEF Safe, Agreement
  <2> QED
    BY <1>0, <2>2 DEF View, RowOnDisk, ReadFile
<1> QED
  BY <1>6, <1>7, <1>8 DEF Safe

\* A statement that goes straight to DuckDB excuses its row.
LEMMA SafeDML ==
  ASSUME TypeInv, Safe, NEW q \in Requests, DirectDML(q)
  PROVE  Safe'
<1> DEFINE x == q.row
<1>0. /\ solo \in [Procs -> SUBSET Rows] /\ duck \in [Rows -> RowData \cup {NoRow}]
      /\ UNCHANGED <<disk, pc, req, loc>> /\ tainted' = tainted \cup {x}
      /\ solo' = [p \in Procs |-> solo[p] \ {x}]
  BY DEF TypeInv, TypeOK, DirectDML
<1>1. \A r \in Rows : r # x => duck'[r] = duck[r]
  BY <1>0 DEF DirectDML
<1>2. Active' = Active /\ \A p \in Active : p \in Procs /\ solo'[p] = solo[p] \ {x}
  BY <1>0 DEF Active
<1>3. Sharing'
  BY <1>0, <1>2 DEF Safe, Sharing
<1>4. Progress'
  <2> SUFFICES ASSUME NEW o \in Active, NEW r \in solo'[o]
               PROVE  (ReadProgress(o, r) /\ IF Kind(o) \in BulkKinds THEN BulkProgress(o, r)
                                                                      ELSE RowProgress(o, r))'
    BY <1>2 DEF Progress
  <2>1. r \in solo[o] /\ r # x /\ r \in Rows /\ duck'[r] = duck[r]
    BY <1>0, <1>1, <1>2
  <2>2. ReadProgress(o, r) /\ IF Kind(o) \in BulkKinds THEN BulkProgress(o, r) ELSE RowProgress(o, r)
    BY <2>1 DEF Safe, Progress
  <2> QED
    BY <1>0, <2>1, <2>2 DEF ReadProgress, BulkProgress, RowProgress, Row, Kind, ReadFile, RowOnDisk, View
<1>5. Agreement'
  <2> SUFFICES ASSUME NEW r \in Rows, r \notin tainted', \A o \in Active' : r \notin Exposed(o)'
               PROVE  duck'[r] = View(r)'
    BY DEF Agreement
  <2>1. \A o \in Active : r \notin Exposed(o)
    BY <1>0, <1>2 DEF Exposed, Kind, Row
  <2>2. duck[r] = View(r)
    BY <1>0, <2>1 DEF Safe, Agreement
  <2> QED
    BY <1>0, <1>1, <2>2 DEF View, RowOnDisk, ReadFile
<1> QED
  BY <1>3, <1>4, <1>5 DEF Safe

LEMMA SafeNext ==
  ASSUME TypeInv, Safe, [Next]_vars
  PROVE  Safe'
<1>1. ASSUME NEW p \in Procs, NEW q \in Requests, Start(p, q) PROVE Safe'
  BY <1>1, SafeStart
<1>2. ASSUME NEW p \in Procs, Step(p) \/ Cancel(p) PROVE Safe'
  BY <1>2, SharingStep, ProgressStep, AgreementStep DEF Safe
<1>3. ASSUME NEW q \in Requests, DirectDML(q) PROVE Safe'
  BY <1>3, SafeDML
<1>4. CASE Crash
  <2>1. Active' = {} /\ tainted' = Rows
    BY <1>4 DEF Crash, Active
  <2> QED
    BY <2>1 DEF Safe, Sharing, Progress, Agreement
<1>5. CASE UNCHANGED vars
  <2>1. Sharing'
    BY <1>5 DEF vars, Safe, Sharing, Active, Footprint
  <2>2. Progress'
    BY <1>5 DEF vars, Safe, Progress, Active, ReadProgress, BulkProgress, RowProgress, Row, Kind,
       ReadFile, RowOnDisk, View
  <2>3. Agreement'
    BY <1>5 DEF vars, Safe, Agreement, Active, Exposed, Kind, Row, View, RowOnDisk, ReadFile
  <2> QED
    BY <2>1, <2>2, <2>3 DEF Safe
<1> QED
  BY <1>1, <1>2, <1>3, <1>4, <1>5 DEF Next

\* Whatever the requests, their interleaving and the faults, JSON and DuckDB
\* agree on every row that no unfinished request has touched and that is not
\* excused: RefreshRow after each write, and LoadTable and SyncTable as the
\* repair of what failed, keep the derived copy right.
THEOREM CopiesAgree == Spec => []Agreement
<1>1. Init => TypeInv /\ Safe
  BY TypeInit, SafeInit
<1>2. TypeInv /\ Safe /\ [Next]_vars => (TypeInv /\ Safe)'
  BY TypeNext, SafeNext
<1>3. Safe => Agreement
  BY DEF Safe
<1> QED
  BY <1>1, <1>2, <1>3, PTL DEF Spec
=============================================================================
