------------------------------ MODULE IndexerInv ------------------------------
(***************************************************************************)
(* The inductive invariant behind LoadedIsCurrent: what is known of a      *)
(* program's copy at each step of a load, and what the saved metadata say  *)
(* about it when no load is under way; and the one behind OnlyIfNecessary. *)
(***************************************************************************)
EXTENDS Indexer

Same(e, r) == duck[e][r] = OnDisk(r)
Recorded == {r \in Rows : meta.data[r] # None}

\* No hash holds a time that is still to come.
HashesPast(m) == m # None => \A r \in Rows : m.data[r] # None => m.data[r] =< clock

\* A row operation's row is there, unless others or the operation removed it.
TargetInv(e) ==
  target[e] # None /\ target[e] \notin late[e] => (disk[target[e]] = None <=> pc[e] = "delete")

TableInv(e) ==
  /\ pc[e] \in {"list", "rows", "open", "save"} \/ InUse(e) => table[e] # None
  /\ e \notin Persistent /\ pc[e] \in {"down", "meta", "schema", "data", "verify"} => table[e] = None
  /\ result[e] = "kept" => e \in Persistent

\* A load that is under way: rows nobody changes meanwhile are copied right.
LoadInv(e) ==
  /\ pc[e] = "rows" => \A r \in Rows \ late[e] :
                         IF r \in todo[e] THEN disk[r] # None ELSE Same(e, r)
  /\ pc[e] \in {"open", "save"} => \A r \in Rows \ late[e] :
                                     Same(e, r) /\ read[e].data[r] = ComputeDataHash[r]

\* A check that is under way works with the metadata in the file.
CheckInv(e) ==
  e \in Persistent /\ pc[e] \in {"schema", "data", "verify"} /\ askew[e] # "yes" =>
    IF meta = None THEN late[e] = Rows
    ELSE /\ pc[e] # "verify" => meta = read[e]
         /\ pc[e] = "verify" =>
              /\ \A r \in Rows \ late[e] : meta.data[r] = ComputeDataHash[r]
              /\ askew[e] = "no" => Recorded \subseteq Loaded(e)

\* The metadata describe a finished load: recorded rows whose time is still the
\* recorded one are in the copy.
DescribesInv(e) ==
  e \in Persistent /\ meta # None /\ askew[e] = "no" =>
    /\ meta.rows = Cardinality(Recorded)
    /\ \A r \in Recorded : meta.data[r] = ComputeDataHash[r] =>
         duck[e][r] # None /\ (r \notin inplace[e] => Same(e, r))

\* A load was interrupted, with the files as they are recorded: the copy holds
\* nothing that is not recorded.
PartialInv(e) ==
  e \in Persistent /\ meta # None /\ askew[e] = "partial" =>
    /\ meta.rows = Cardinality(Recorded)
    /\ \A r \in Rows : meta.data[r] = ComputeDataHash[r]
    /\ todo[e] \cup Loaded(e) \subseteq Recorded
    /\ \A r \in Loaded(e) \ inplace[e] : Same(e, r)
    /\ pc[e] \notin {"write", "delete"}
    /\ pc[e] = "refresh" => target[e] \in Recorded

\* A row the program is deleting is not as it is recorded.
DeletingInv(e) ==
  e \in Persistent /\ meta # None /\ askew[e] = "no" /\ pc[e] = "delete" =>
    target[e] \notin Recorded \/ meta.data[target[e]] # ComputeDataHash[target[e]]

UseInv(e) ==
  InUse(e) => \A r \in Rows \ (late[e] \cup {target[e]}) :
    \/ Same(e, r)
    \/ e \in Persistent /\ result[e] = "kept" /\ (r \in inplace[e] \/ askew[e] = "yes")

EngineInv(e) ==
  /\ HashesPast(read[e]) /\ TargetInv(e) /\ TableInv(e) /\ LoadInv(e) /\ CheckInv(e)
  /\ DescribesInv(e) /\ PartialInv(e) /\ DeletingInv(e) /\ UseInv(e)

IInv == TypeOK /\ HashesPast(meta) /\ \A e \in Engines : EngineInv(e)

\* The metadata m are those of the files and of e's copy as they are.
Fits(e, m) ==
  /\ m # None /\ schema # None
  /\ m.schema = schema /\ m.data = ComputeDataHash
  /\ m.rows = Cardinality(Loaded(e)) /\ table[e] # None

\* While nothing has changed since e saved them, or since it took the hashes
\* that it is saving, the metadata fit, and so do those the check works with.
UntouchedInv(e) ==
  e \in Persistent =>
    /\ pc[e] \in {"rows", "write", "refresh", "delete"} => touched[e] = "yes"
    /\ pc[e] \in {"open", "save"} => touched[e] # "no"
    /\ touched[e] = "no" =>
         /\ Fits(e, meta) /\ cached[e] \in {None, schema}
         /\ pc[e] \in {"schema", "data"} => read[e] = meta
    /\ touched[e] = "saving" /\ pc[e] \in {"open", "save"} =>
         Fits(e, read[e]) /\ cached[e] = schema
=============================================================================
