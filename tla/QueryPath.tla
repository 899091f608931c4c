------------------------------- MODULE QueryPath -------------------------------
(***************************************************************************)
(* A statement's way through the API's handlers and the engine: it is      *)
(* parsed, validated and translated, each with the schema that GetTable    *)
(* returns at that moment, and then run in DuckDB, while other requests    *)
(* drop the table and make it again.                                       *)
(*                                                                         *)
(* Not covered: the rows, and what DuckDB computes from a statement it     *)
(* accepts; parameters; requests that drop and make tables at once (module *)
(* TableCatalog).                                                          *)
(*                                                                         *)
(* seen and since are history variables.                                   *)
(***************************************************************************)
EXTENDS SqlText

CONSTANTS Schemas,      \* schemas the table may be created with
          Statements,   \* statements clients may send
          MaxChanges    \* bound

\* A schema has groups with columns in some order.  A statement begins with a
\* word; a word, and a name, is all its token says.
ASSUME QueryAssumption ==
  /\ MaxChanges \in Nat
  /\ Absent \notin Schemas
  /\ \A sch \in Schemas : /\ sch \in Seq(ToSet(sch))
                          /\ \A i \in DOMAIN sch : sch[i].columns \in Seq(ToSet(sch[i].columns))
  /\ \A s \in Statements : /\ s \in Seq(ToSet(s)) \ {<<>>}
                           /\ s[1] = Kw(s[1][2])
                           /\ \A i \in DOMAIN s : s[i][1] = "kw" => s[i] = Kw(s[i][2])
                           /\ \A i \in DOMAIN s : s[i][1] = "name" => s[i] = Name(s[i][2])

VARIABLES schema,   \* the table's schema, or Absent
          table,    \* its DuckDB table: the set of column names, or Absent
          admin,    \* what CreateTable or DropTable does next
          pc,       \* what the request does next
          stmt,     \* its statement
          sql,      \* what DuckDB is to run
          result,   \* how it ended
          seen,     \* what the schema has been since the request began
          since,    \* the schemas since Translate read one, with that
          changes

vars == <<schema, table, admin, pc, stmt, sql, result, seen, since, changes>>
request == <<pc, stmt, sql, result>>

\* CREATE TABLE fails when two columns have one flat name.
Made(sch) == IF Cardinality(FlatColumns(sch)) < Len(AllColumns(sch)) THEN Absent ELSE FlatColumns(sch)

Init == /\ schema \in Schemas
        /\ table = Made(schema)
        /\ admin = "idle" /\ changes = 0
        /\ pc = "idle" /\ stmt = <<>> /\ sql = <<>> /\ result = "none"
        /\ seen = {} /\ since = {}

-----------------------------------------------------------------------------
(* Another request makes or drops the table: the schema and DuckDB's table, *)
(* one after the other.                                                     *)

CreateSchema ==
  /\ admin = "idle" /\ schema = Absent
  /\ changes < MaxChanges
  /\ schema' \in Schemas
  /\ admin' = "create"
  /\ changes' = changes + 1
  /\ seen' = seen \cup {schema'} /\ since' = since \cup {schema'}
  /\ UNCHANGED <<table, request>>

CreateDuckDBTable ==
  /\ admin = "create"
  /\ table' = Made(schema)
  /\ admin' = "idle"
  /\ UNCHANGED <<schema, request, seen, since, changes>>

DropDuckDBTable ==
  /\ admin = "idle" /\ schema # Absent
  /\ changes < MaxChanges
  /\ table' = Absent
  /\ admin' = "drop"
  /\ changes' = changes + 1
  /\ seen' = seen \cup {Absent}
  /\ UNCHANGED <<schema, request, since>>

DropSchema ==
  /\ admin = "drop"
  /\ schema' = Absent
  /\ admin' = "idle"
  /\ UNCHANGED <<table, request, seen, since, changes>>

-----------------------------------------------------------------------------
(* The request. *)

End(how) == /\ pc' = "done"
            /\ result' = how
            /\ UNCHANGED <<schema, table, admin, changes>>

\* handleQuery, handleExecute, the program's prompt or its -query option.
Receive(front, s) ==
  LET q == Parse(s)
      type == s[1][2]
  IN /\ pc = "idle"
     /\ stmt' = s
     /\ seen' = {schema} \cup (IF admin = "idle" THEN {} ELSE {Absent}) /\ UNCHANGED since
     /\ IF front = "query" /\ type # "SELECT"
        THEN End("refused") /\ UNCHANGED sql
        ELSE IF front = "execute" /\ type # "SELECT"
        THEN /\ pc' = "run" /\ sql' = s
             /\ UNCHANGED <<schema, table, admin, changes, result>>
        ELSE IF q.type \in {"error", "panic"}
        THEN End(IF q.type = "panic" THEN "panic" ELSE "refused") /\ UNCHANGED sql
        ELSE /\ pc' = "validate"
             /\ UNCHANGED <<schema, table, admin, changes, sql, result>>

Validate ==
  /\ pc = "validate"
  /\ IF ValidateQuery(Parse(stmt), schema)
     THEN pc' = "translate" /\ UNCHANGED <<schema, table, admin, changes, result>>
     ELSE End("refused")
  /\ UNCHANGED <<stmt, sql, seen, since>>

\* Mutants of TranslateStep: an error of Translate is not looked at; a schema
\* that was read before is used.
TranslateUnchecked ==
  /\ pc = "translate"
  /\ sql' = Translate(Parse(stmt), stmt, schema)
  /\ since' = {schema} \ {Absent}
  /\ pc' = "run"
  /\ UNCHANGED <<schema, table, admin, changes, result, stmt, seen>>

TranslateStale ==
  /\ pc = "translate"
  /\ \E sch \in seen : sql' = Translate(Parse(stmt), stmt, sch)
  /\ since' = {schema} \ {Absent}
  /\ IF sql' # <<>>
     THEN pc' = "run" /\ UNCHANGED <<schema, table, admin, changes, result>>
     ELSE End("refused")
  /\ UNCHANGED <<stmt, seen>>

TranslateStep ==
  LET translated == Translate(Parse(stmt), stmt, schema) IN
  /\ pc = "translate"
  /\ sql' = translated
  /\ since' = {schema} \ {Absent}
  /\ IF translated # <<>>
     THEN pc' = "run" /\ UNCHANGED <<schema, table, admin, changes, result>>
     ELSE End("refused")
  /\ UNCHANGED <<stmt, seen>>

\* DuckDB runs a statement when it has the table and columns it names, and no
\* name with a dot is left.
Binds(s, columns) ==
  \A i \in DOMAIN s : /\ s[i][1] # "ref"
                      /\ s[i][1] = "name" => s[i] = TableName \/ s[i][2] \in columns \cup {RowID}
Accepts(s) == table # Absent /\ Binds(s, table)

Run ==
  /\ pc = "run"
  /\ End(IF Accepts(sql) THEN "answered" ELSE "refused")
  /\ UNCHANGED <<stmt, sql, seen, since>>

Return == /\ pc = "done"
          /\ pc' = "idle" /\ stmt' = <<>> /\ sql' = <<>> /\ result' = "none"
          /\ seen' = {} /\ since' = {}
          /\ UNCHANGED <<schema, table, admin, changes>>

Fronts == {"query", "execute", "prompt"}
Request == \/ \E front \in Fronts, s \in Statements : Receive(front, s)
           \/ Validate \/ TranslateStep \/ Run \/ Return
Catalog == CreateSchema \/ CreateDuckDBTable \/ DropDuckDBTable \/ DropSchema

Next == Request \/ Catalog

Spec == Init /\ [][Next]_vars

-----------------------------------------------------------------------------
(* Properties. *)

\* The types; a statement DuckDB is to run has text; slices of the text end
\* before they begin only where a word follows the first word at once, or in an
\* INSERT.
TypeOK ==
  /\ schema \in Schemas \cup {Absent}
  /\ table = Absent \/ \E s \in Schemas : table = FlatColumns(s)
  /\ admin \in {"idle", "create", "drop"}
  /\ pc \in {"idle", "validate", "translate", "run", "done"}
  /\ pc = "idle" <=> stmt = <<>>
  /\ pc = "run" => sql # <<>>
  /\ result \in {"none", "refused", "panic", "answered"}
  /\ result = "panic" => stmt[1] = Kw("INSERT") \/ stmt[2] \in {Kw("FROM"), Kw("SET")}
  /\ seen \subseteq Schemas \cup {Absent} /\ since \subseteq Schemas
  /\ changes \in Nat

\* How deep in parentheses a token is.
Depth(s, i) == Cardinality({j \in 1 .. i : s[j] = Sym("(")}) - Cardinality({j \in 1 .. i : s[j] = Sym(")")})
IsFrom(s, i) == i \in DOMAIN s /\ s[i] = Kw("FROM")

\* Where the select list ends: at the first FROM outside parentheses.
ListEnd(s) == CHOOSE i \in DOMAIN s : /\ IsFrom(s, i) /\ Depth(s, i) = 0
                                     /\ \A j \in 1 .. i - 1 : IsFrom(s, j) => Depth(s, j) # 0

\* A token that is a column of the select list by itself.
Alone(s, i) ==
  /\ Depth(s, i) = 0
  /\ \E l \in 1 .. i - 1, r \in i + 1 .. ListEnd(s) :
       /\ l = 1 \/ s[l] = Comma
       /\ r = ListEnd(s) \/ s[r] = Comma
       /\ \A j \in l + 1 .. r - 1 : j = i \/ s[j] = Line

\* The statement as SQL reads it, for a table with that schema: every reference
\* stands for its flat name; *, Group.* and a name that is a column of the select
\* list stand for columns of the schema.
Read(t) == IF t[1] = "ref" THEN Name(FlatName(t[2], t[3])) ELSE t
Internal(n) == Head(n) = ""
ListToken(s, i, sch) ==
  LET t == s[i] IN
  CASE Alone(s, i) /\ t[1] = "ref" /\ t[3] = All /\ HasGroup(sch, t[2]) ->
         Join(Named(GroupColumns(sch, t[2])))
    [] Alone(s, i) /\ t[1] = "name" /\ ~Internal(t[2]) /\ Cardinality(Owners(sch, t[2])) = 1 ->
         <<Flat(CHOOSE c \in Owners(sch, t[2]) : TRUE)>>
    [] OTHER -> <<Read(t)>>
OneLine(s) == FlattenSeq([i \in DOMAIN s |-> IF s[i] = Line THEN <<>> ELSE <<s[i]>>])
Meaning(s, sch) ==
  <<Kw("SELECT")>>
  \o (IF Trim(SubSeq(s, 2, ListEnd(s) - 1)) = <<Star>>
      THEN Join(<<<<Name(RowID)>>>> \o Named(AllColumns(sch)))
      ELSE FlattenSeq([i \in 1 .. ListEnd(s) - 2 |-> ListToken(s, i + 1, sch)]))
  \o [i \in 1 .. Len(s) - ListEnd(s) + 1 |-> Read(s[ListEnd(s) + i - 1])]

IsWord(t, W) == t[1] = "kw" /\ t[2] \in W
FirstFrom(s) == CHOOSE i \in DOMAIN s : IsFrom(s, i) /\ \A j \in 1 .. i - 1 : ~IsFrom(s, j)

\* Where the columns before the first FROM begin and end.
Cuts(s) == {1, FirstFrom(s)} \cup {i \in 2 .. FirstFrom(s) - 1 : s[i] = Comma /\ Depth(s, i) = 0}

\* Without UNION, AS, and references in strings.
PlainWords(s) ==
  \A i \in DOMAIN s : /\ ~IsWord(s[i], {"UNION", "AS"})
                      /\ s[i][1] = "quoted" => s[i][2][1] # "ref"

\* The first FROM is between blanks and before the words that follow a table's
\* name; the first WHERE comes before the others of these, and none of them comes
\* directly after a WHERE.
PlainClauses(s) ==
  /\ \E i \in DOMAIN s : IsFrom(s, i) /\ Depth(s, i) = 0
  /\ FirstFrom(s) \in 3 .. Len(s) - 1
  /\ s[FirstFrom(s) - 1] # Line /\ s[FirstFrom(s) + 1] # Line
  /\ \A i \in 1 .. FirstFrom(s) : ~IsWord(s[i], TableEnds)
  /\ \A i, j \in DOMAIN s :
       i < j /\ IsWord(s[i], Trailing) /\ s[j] = Kw("WHERE") =>
         \E k \in 1 .. i : s[k] = Kw("WHERE")
  /\ \A i \in 2 .. Len(s) : s[i-1] = Kw("WHERE") => ~IsWord(s[i], Trailing)

\* No column is empty, and none that stands for others comes after a FROM.
PlainColumns(s) ==
  /\ \A i, j \in Cuts(s) : i < j => \E k \in i + 1 .. j - 1 : s[k] # Line
  /\ \A i \in FirstFrom(s) .. ListEnd(s) :
       Alone(s, i) => s[i][1] # "name" /\ (s[i][1] = "ref" => s[i][3] # All)

\* The statements that both cuts are right about.
Plain(s) == s[1] = Kw("SELECT") /\ PlainWords(s) /\ PlainClauses(s) /\ PlainColumns(s)

\* The words the code looks for have blanks around them.
Spaced(s) ==
  \A i \in DOMAIN s : s[i] = Line =>
    \A j \in {i - 1, i + 1} \cap DOMAIN s : s[j][1] # "kw" \/ j = 1

\* Group.* stands for something.
Filled(sch) == \A i \in DOMAIN sch : sch[i].columns # <<>>

\* The schema has what the token stands for.
Has(sch, t) == \/ t[1] = "ref" /\ t[3] = All /\ HasGroup(sch, t[2])
               \/ t[1] = "ref" /\ t[3] # All /\ <<t[2], t[3]>> \in ToSet(AllColumns(sch))
               \/ t[1] = "name" /\ (Internal(t[2]) \/ Cardinality(Owners(sch, t[2])) = 1)

\* Plain statements that are to be answered: of each column the schema has what
\* it names, or it has a parenthesis; after the first FROM comes the table.
Supported(s, sch) ==
  LET from == FirstFrom(s)
  IN /\ Plain(s) /\ Spaced(s)
     /\ \/ Trim(SubSeq(s, 2, from - 1)) = <<Star>>
        \/ \A i \in (2 .. from - 1) \ Cuts(s) :
             \/ s[i] = Line
             \/ Alone(s, i) /\ Has(sch, s[i])
             \/ \E j \in 2 .. from - 1 : s[j] = Sym("(") /\ (i .. j \cup j .. i) \cap Cuts(s) = {}
     /\ s[from + 1] = TableName
     /\ \/ \A i \in from + 2 .. Len(s) : s[i] = Line
        \/ from + 2 < Len(s) /\ IsWord(s[from + 2], TableEnds)

\* What Parse, ValidateQuery and Translate are to do with a plain statement.
TranslatedRight(s, sch) ==
  LET q == Parse(s)
      translated == Translate(q, s, sch)
  IN Filled(sch) =>
       /\ Plain(s) /\ q.type = "SELECT" /\ translated # <<>> => OneLine(translated) = OneLine(Meaning(s, sch))
       /\ Supported(s, sch) /\ Binds(Meaning(s, sch), FlatColumns(sch)) =>
            /\ q.type = "SELECT" /\ ValidateQuery(q, sch)
            /\ translated # <<>> /\ Binds(translated, FlatColumns(sch))

\* Translator.Translate of a plain SELECT is the statement as it reads, and it
\* refuses none whose names the table has: what the parser cuts off the
\* translator finds again, and nothing is lost, doubled or moved, subqueries and
\* calls included.
TranslatesPlain == stmt # <<>> => \A sch \in Schemas : TranslatedRight(stmt, sch)

\* A plain SELECT that is answered is run as it reads ("The engine translates
\* column group SQL to DuckDB SQL", README.md) for the schema the table had when it
\* was translated, whatever it had when it was parsed and validated; and on the
\* DuckDB table of that schema, unless a table was made since.  Nothing says so of
\* one that was: a text for one schema may then run on the table of another.
AnswersAsAsked ==
  [][Run /\ result' = "answered" /\ Plain(stmt) /\ (\A sch \in since : Filled(sch)) =>
       \E sch \in since : /\ OneLine(sql) = OneLine(Meaning(stmt, sch))
                          /\ since = {sch} => table = FlatColumns(sch)]_vars

\* A plain SELECT from a table that stays as it is, of columns the table has, is
\* answered.
PlainIsAnswered ==
  pc = "done" =>
    \A sch \in Schemas :
      seen = {sch} /\ Filled(sch) /\ table = FlatColumns(sch)
        /\ Supported(stmt, sch) /\ Accepts(Meaning(stmt, sch)) => result = "answered"
=============================================================================
