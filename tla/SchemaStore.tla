------------------------------ MODULE SchemaStore ------------------------------
(***************************************************************************)
(* What the schema manager promises of one table name, without its cache,  *)
(* its lock and its files: one entry, which a create makes, a drop removes *)
(* and a use looks up, each in one step between its call and its return.   *)
(* A request may stop half-way, and a create that does may leave the entry *)
(* broken: then it can be neither created nor used, only dropped.          *)
(***************************************************************************)
CONSTANTS Procs, Schemas,
          Requests,        \* records with a kind and, for a create, a schema
          Absent, Broken,  \* instead of an entry
          NoRequest, NoSchema,
          MayFail, MayDie  \* may requests, may the process stop anywhere

VARIABLES entry,   \* the table's schema, Absent or Broken
          doing,   \* the request each goroutine serves
          done,    \* has it had its effect, or its look at the entry
          got      \* the schema it works with

vars == <<entry, doing, done, got>>

Init == /\ entry = Absent
        /\ doing = [p \in Procs |-> NoRequest]
        /\ done = [p \in Procs |-> FALSE]
        /\ got = [p \in Procs |-> NoSchema]

Call(p, q) ==
  /\ doing[p] = NoRequest
  /\ doing' = [doing EXCEPT ![p] = q]
  /\ UNCHANGED <<entry, done, got>>

Effect(p) == /\ ~done[p]
             /\ done' = [done EXCEPT ![p] = TRUE]

Create(p) ==
  /\ doing[p].kind = "create" /\ entry = Absent
  /\ Effect(p)
  /\ entry' = doing[p].schema
  /\ UNCHANGED <<doing, got>>

Drop(p) ==
  /\ doing[p].kind = "drop"
  /\ Effect(p)
  /\ entry' = Absent
  /\ UNCHANGED <<doing, got>>

\* A use finds the entry as it is now; a create looks at it once it has made it.
Look(p) ==
  /\ doing[p].kind \notin {"none", "drop"}
  /\ doing[p].kind = "create" => done[p]
  /\ entry \in Schemas
  /\ got' = [got EXCEPT ![p] = entry]
  /\ done' = [done EXCEPT ![p] = TRUE]
  /\ UNCHANGED <<entry, doing>>

Return(p) == /\ doing[p] # NoRequest
             /\ doing' = [doing EXCEPT ![p] = NoRequest]
             /\ done' = [done EXCEPT ![p] = FALSE]
             /\ got' = [got EXCEPT ![p] = NoSchema]

\* It has had its effect; what it does with the schema may still have failed.
Answer(p) == done[p] /\ Return(p) /\ UNCHANGED entry

\* "already exists" and "not found" are true when they are said.
Refuse(p) ==
  /\ ~done[p]
  /\ \/ doing[p].kind = "create" /\ entry # Absent
     \/ doing[p].kind \notin {"create", "drop"} /\ entry \notin Schemas
  /\ Return(p)
  /\ UNCHANGED entry

\* What unfinished creates may leave of the entry.
Breaks(P) ==
  IF entry = Absent /\ \E p \in P : doing[p].kind = "create" /\ ~done[p]
  THEN {Absent, Broken} ELSE {entry}

Stop(p) == MayFail /\ Return(p) /\ entry' \in Breaks({p})

Die == /\ MayDie
       /\ entry' \in Breaks(Procs)
       /\ doing' = [p \in Procs |-> NoRequest]
       /\ done' = [p \in Procs |-> FALSE]
       /\ got' = [p \in Procs |-> NoSchema]

Next == \/ \E p \in Procs : \/ \E q \in Requests : Call(p, q)
                            \/ Create(p) \/ Drop(p) \/ Look(p)
                            \/ Answer(p) \/ Refuse(p) \/ Stop(p)
        \/ Die

Spec == Init /\ [][Next]_vars
=============================================================================
