---------------------------- MODULE DualStoreInv ----------------------------
(* The inductive invariant behind the safety properties of DualStore.        *)
EXTENDS DualStore

WriteKinds == {"insert", "update", "group"}
RowSteps == {"read", "sqldel", "sqlins"}

\* Which steps belong to which requests.
FlowOf(p) ==
  /\ pc[p] # "idle" => req[p] \in Requests /\ Kind(p) # "exec"
  /\ pc[p] = "idle" => solo[p] = {}
  /\ pc[p] = "mkdir" => Kind(p) \in {"insert", "group"}
  /\ pc[p] = "exists" => Kind(p) = "update"
  /\ pc[p] \in {"prepare", "open", "write"} => Kind(p) \in WriteKinds
  /\ pc[p] \in {"rmlist", "rmfile", "sqldrop"} => Kind(p) = "delete"
  /\ pc[p] = "truncate" => Kind(p) = "load"
  /\ pc[p] = "select" => Kind(p) \in {"sync", "incr"}
  /\ pc[p] \in {"create", "list", "next"} => Kind(p) \in BulkKinds
  /\ pc[p] = "prune" => Kind(p) = "sync"
  /\ pc[p] \in RowSteps => Kind(p) \in WriteKinds \cup BulkKinds
  /\ pc[p] = "sqldel" => Kind(p) \notin {"load", "incr"}

Flow == \A p \in Procs : FlowOf(p)

\* The row and the group a goroutine works on.
CursorOf(p) ==
  /\ pc[p] # "idle" /\ Kind(p) \in RowKinds => Row(p) = req[p].row
  /\ pc[p] \in RowSteps /\ Kind(p) \in BulkKinds => Row(p) \in loc[p].left
  /\ pc[p] \in {"create", "truncate", "select"} => loc[p].left = {}
  /\ loc[p].left \cap Hidden = {}
  /\ pc[p] # "idle" /\ Kind(p) = "load" => loc[p].seen = {}
  /\ pc[p] \in {"open", "write"} => loc[p].cur \in Groups
  /\ pc[p] = "write" /\ loc[p].linked =>
        disk[Row(p)] # NoRow /\ disk[Row(p)][loc[p].cur] # Missing

Cursor == \A p \in Procs : CursorOf(p)

\* Requests that share a row are never both alone on it, and the row is excused.
Sharing ==
  \A p \in Active :
    /\ solo[p] \subseteq Footprint(req[p])
    /\ Footprint(req[p]) \subseteq solo[p] \cup tainted
    /\ \A q \in Active \ {p} : solo[p] \cap Footprint(req[q]) = {}

\* What a goroutine that has row r for itself has achieved on it so far.
ReadProgress(p, r) ==
  r = Row(p) =>
    /\ pc[p] = "read" => \A g \in Groups \ loc[p].todo : loc[p].buf[g] = ReadFile(r, g)
    /\ pc[p] \in {"sqldel", "sqlins"} => loc[p].buf = RowOnDisk(r)

RowProgress(p, r) ==
  /\ pc[p] \in {"prepare", "open", "write"} \cup RowSteps => disk[r] # NoRow
  /\ pc[p] = "rmfile" /\ disk[r] # NoRow =>
       \A g \in Groups \ loc[p].todo : disk[r][g] = Missing
  /\ pc[p] = "sqldrop" => disk[r] = NoRow

BulkProgress(p, r) ==
  /\ r \in Hidden => disk[r] = NoRow
  /\ pc[p] = "list" => r \in loc[p].seen \/ duck[r] = NoRow
  /\ pc[p] = "prune" =>
       /\ r \in loc[p].seen \/ duck[r] = NoRow
       /\ r \in loc[p].left <=> disk[r] # NoRow
  /\ pc[p] \in {"next"} \cup RowSteps =>
       IF r \in loc[p].left THEN disk[r] # NoRow
       ELSE (Kind(p) = "incr" /\ r \in loc[p].seen) \/ duck[r] = View(r)

Progress ==
  \A p \in Active : \A r \in solo[p] :
    /\ ReadProgress(p, r)
    /\ IF Kind(p) \in BulkKinds THEN BulkProgress(p, r) ELSE RowProgress(p, r)

\* Where the contents a goroutine has read from a row come from.
Sources ==
  \A p \in Active, g \in Groups :
    \/ loc[p].buf[g] = EmptyData
    \/ Row(p) \in Rows /\ <<g, loc[p].buf[g]>> \in ever[Row(p)]

OnDiskEver ==
  \A r \in Rows, g \in Groups :
    \/ disk[r] = NoRow
    \/ disk[r][g] \in Unreadable
    \/ <<g, disk[r][g]>> \in ever[r]
=============================================================================
