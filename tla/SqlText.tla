-------------------------------- MODULE SqlText --------------------------------
(***************************************************************************)
(* How pkg/query reads and rewrites a statement.  The parser does not know *)
(* SQL: it cuts the text at the first of certain words between blanks, and *)
(* the translator cuts it again.                                           *)
(*                                                                         *)
(* A statement is a sequence of tokens.  A name is a sequence of parts, to *)
(* be read with "_" between them.  Between two tokens there is a blank or, *)
(* where the token Line is, a line break.                                  *)
(*                                                                         *)
(* Not covered: names of three parts with dots; words of the language that *)
(* string literals or names contain.                                       *)
(***************************************************************************)
EXTENDS Integers, Sequences, SequencesExt, FiniteSets

CONSTANT Absent   \* instead of a schema or a table that is not there

-----------------------------------------------------------------------------
(* Tokens. *)

Kw(w) == <<"kw", w>>            \* a word the code looks for, or another of SQL's
Ref(g, c) == <<"ref", g, c>>    \* Group.Column
Name(n) == <<"name", n>>
Quoted(t) == <<"quoted", t>>    \* a string literal
Sym(s) == <<"sym", s>>
Comma == Sym(",")
Star == Sym("*")
Line == Sym("line")
All == <<"*">>                  \* the column of Group.*
TableName == Name(<<"T">>)
RowID == <<"", "row", "id">>

FlatName(g, c) == g \o c

\* The columns of a schema, as <<group, column>>.
AllColumns(sch) ==
  FlattenSeq([i \in DOMAIN sch |->
                [j \in DOMAIN sch[i].columns |-> <<sch[i].name, sch[i].columns[j]>>]])
HasGroup(sch, g) == \E i \in DOMAIN sch : sch[i].name = g
GroupColumns(sch, g) ==
  LET columns == sch[CHOOSE i \in DOMAIN sch : sch[i].name = g].columns
  IN [j \in DOMAIN columns |-> <<g, columns[j]>>]
\* Those of a name, of which a group has one at most (TableSchema.Validate).
Owners(sch, n) == {c \in ToSet(AllColumns(sch)) : c[2] = n}
Flat(c) == Name(FlatName(c[1], c[2]))
FlatColumns(sch) == {FlatName(c[1], c[2]) : c \in ToSet(AllColumns(sch))}

\* The first of the words W that is between blanks; 0: none.
First(s, W) ==
  LET at == {i \in 2 .. Len(s) - 1 :
               /\ s[i][1] = "kw" /\ s[i][2] \in W
               /\ s[i-1] # Line /\ s[i+1] # Line}
  IN IF at = {} THEN 0 ELSE CHOOSE i \in at : \A j \in at : i =< j

Trim(s) ==
  LET kept == {i \in DOMAIN s : s[i] # Line}
  IN IF kept = {} THEN <<>>
     ELSE SubSeq(s, CHOOSE i \in kept : \A j \in kept : i =< j,
                    CHOOSE i \in kept : \A j \in kept : j =< i)
After(s, i) == SubSeq(s, i + 1, Len(s))
Before(s, i) == IF i = 0 THEN s ELSE SubSeq(s, 1, i - 1)

-----------------------------------------------------------------------------
(* The parser. *)

Deeper(t) == CASE t = Sym("(") -> 1 [] t = Sym(")") -> -1 [] OTHER -> 0

\* An empty column is skipped.
AddColumn(columns, c) == IF Trim(c) = <<>> THEN columns ELSE Append(columns, Trim(c))

\* One token further: a comma outside parentheses ends the current column.
SplitNext(sofar, t) ==
  IF t = Comma /\ sofar.depth = 0
  THEN [columns |-> AddColumn(sofar.columns, sofar.current), current |-> <<>>, depth |-> 0]
  ELSE [sofar EXCEPT !.current = Append(@, t), !.depth = @ + Deeper(t)]

\* What splitColumns has after each of its tokens.
Split(list) ==
  LET split[i \in 0 .. Len(list)] ==
        IF i = 0 THEN [columns |-> <<>>, current |-> <<>>, depth |-> 0]
        ELSE SplitNext(split[i-1], list[i])
  IN split

\* Mutant of SplitColumns: parentheses are not respected.
SplitAnywhere(list) ==
  LET cuts == SetToSortSeq({0, Len(list) + 1} \cup {i \in DOMAIN list : list[i] = Comma}, <)
  IN SelectSeq([k \in 1 .. Len(cuts) - 1 |-> Trim(SubSeq(list, cuts[k] + 1, cuts[k+1] - 1))],
               LAMBDA c : c # <<>>)
SplitColumns(list) == LET end == Split(list)[Len(list)] IN AddColumn(end.columns, end.current)

\* A text without dots that begins with "_" and is not a name.
Underscored(p) ==
  /\ Len(p) # 1 /\ p[1][1] = "name" /\ Head(p[1][2]) = ""
  /\ \A i \in DOMAIN p : p[i][1] # "ref" /\ (p[i][1] = "quoted" => p[i][2][1] # "ref")

\* One column of a list, without its alias: a text that is passed on, Group.*,
\* Group.Column, a name, or what no schema has.
ParseColumn(part) ==
  LET p == Trim(Before(part, First(part, {"AS"}))) IN
  IF Sym("(") \in ToSet(p) \/ Underscored(p) THEN <<"text", p>>
  ELSE IF Len(p) # 1 THEN <<"other">>
  ELSE CASE p[1][1] = "ref" /\ p[1][3] = All -> <<"group", p[1][2]>>
         [] p[1][1] = "ref" /\ p[1][3] # All -> <<"column", p[1][2], p[1][3]>>
         [] p[1][1] = "name" -> <<"unqualified", p[1][2]>>
         [] OTHER -> <<"other">>

ParseColumnList(list) ==
  LET parts == SplitColumns(list) IN [i \in DOMAIN parts |-> ParseColumn(parts[i])]

Trailing == {"ORDER BY", "LIMIT", "GROUP BY", "HAVING"}

\* The words that end a table's name.
TableEnds == Trailing \cup {"WHERE", "UNION"}

\* What Parse returns besides a query: an error, or no return at all, when a
\* slice ends before it begins.
ParseError == [type |-> "error"]
Panic == [type |-> "panic"]

ParseSelect(s) ==
  LET from == First(s, {"FROM"})
      list == SubSeq(s, 2, from - 1)
      after == After(s, from)
      where == First(after, {"WHERE"})
      rest == After(after, where)
  IN IF from = 0 THEN ParseError
     ELSE IF from = 2 THEN Panic
     ELSE [type |-> "SELECT", all |-> Trim(list) = <<Star>>,
           columns |-> IF Trim(list) = <<Star>> THEN <<>> ELSE ParseColumnList(list),
           table |-> Trim(Before(after, First(after, TableEnds))),
           where |-> IF where = 0 THEN <<>>
                     ELSE Trim(Before(rest, First(rest, TableEnds \ {"WHERE"})))]

Index(s, t) == SelectInSeq(s, LAMBDA x : x = t)

ParseInsert(s) ==
  LET into == First(s, {"INTO"})
      after == After(s, into)
      open == Index(after, Sym("("))
      close == Index(after, Sym(")"))
  IN IF into = 0 \/ open = 0 \/ close = 0 THEN ParseError
     ELSE IF close < open THEN Panic
     ELSE IF ~Contains(after, Kw("VALUES")) THEN ParseError
     ELSE [type |-> "INSERT", table |-> Trim(Before(after, open)),
           columns |-> ParseColumnList(SubSeq(after, open + 1, close - 1))]

ParseUpdate(s) ==
  LET set == First(s, {"SET"})
  IN IF set = 0 THEN ParseError ELSE IF set = 2 THEN Panic
     ELSE [type |-> "UPDATE", table |-> Trim(SubSeq(s, 2, set - 1)), columns |-> <<>>]

ParseDelete(s) ==
  LET from == First(s, {"FROM"})
      after == After(s, from)
  IN IF from = 0 THEN ParseError
     ELSE [type |-> "DELETE", table |-> Trim(Before(after, First(after, {"WHERE"}))),
           columns |-> <<>>]

\* Engine.Query refuses what Parse makes of CREATE, DROP and other words: an
\* error, a query of a type it refuses, or one without a table.
Parse(s) ==
  CASE s[1] = Kw("SELECT") -> ParseSelect(s)
    [] s[1] = Kw("INSERT") -> ParseInsert(s)
    [] s[1] = Kw("UPDATE") -> ParseUpdate(s)
    [] s[1] = Kw("DELETE") -> ParseDelete(s)
    [] OTHER -> ParseError

-----------------------------------------------------------------------------
(* The translator. *)

\* GetTable finds one table.
Known(q, sch) == q.table = <<TableName>> /\ sch # Absent

\* ValidateQuery: names without a group are left to Translate.
ValidateQuery(q, sch) ==
  /\ Known(q, sch)
  /\ \A i \in DOMAIN q.columns :
       LET c == q.columns[i] IN
       CASE c[1] = "group" -> HasGroup(sch, c[2])
         [] c[1] = "column" -> <<c[2], c[3]>> \in ToSet(AllColumns(sch))
         [] OTHER -> TRUE

\* The regular expression knows nothing of string literals.
TranslateToken(t) ==
  CASE t[1] = "ref" -> Name(FlatName(t[2], t[3]))
    [] t[1] = "quoted" /\ t[2][1] = "ref" -> Quoted(Name(FlatName(t[2][2], t[2][3])))
    [] OTHER -> t
\* Mutant of TranslateColumnRefs: only the first reference is replaced.
TranslateFirstRef(s) ==
  [i \in DOMAIN s |-> IF \E j \in 1 .. i - 1 : s[j][1] = "ref" THEN s[i] ELSE TranslateToken(s[i])]
TranslateColumnRefs(s) == [i \in DOMAIN s |-> TranslateToken(s[i])]

\* Mutant of ResolveUnqualifiedColumn: the first group that has the column.
ResolveFirst(sch, n) ==
  LET all == AllColumns(sch)
      found == {i \in DOMAIN all : all[i][2] = n}
  IN IF found = {} THEN <<>> ELSE <<all[CHOOSE i \in found : \A j \in found : i =< j]>>

\* The only column of that name, if there is one.
ResolveUnqualifiedColumn(sch, n) ==
  IF Cardinality(Owners(sch, n)) = 1 THEN <<CHOOSE c \in Owners(sch, n) : TRUE>> ELSE <<>>

Named(columns) == [i \in DOMAIN columns |-> <<Flat(columns[i])>>]

\* What one column of a select list becomes: a sequence of columns, each a
\* sequence of tokens.
Refused == <<<<>>>>
TranslateColumn(c, sch) ==
  CASE c[1] = "text" -> <<TranslateColumnRefs(c[2])>>
    [] c[1] = "group" -> IF HasGroup(sch, c[2]) THEN Named(GroupColumns(sch, c[2])) ELSE Refused
    [] c[1] = "column" -> Named(<<<<c[2], c[3]>>>>)
    [] c[1] = "unqualified" /\ Head(c[2]) = "" -> <<<<Name(c[2])>>>>
    [] c[1] = "unqualified" /\ Head(c[2]) # "" ->
         LET found == ResolveUnqualifiedColumn(sch, c[2])
         IN IF found = <<>> THEN Refused ELSE Named(found)
    [] OTHER -> Refused

Join(columns) ==
  FlattenSeq([i \in DOMAIN columns |-> IF i = 1 THEN columns[i] ELSE <<Comma>> \o columns[i]])

\* From the first of the trailing clauses, wherever it is in the statement.
ExtractTrailingClauses(s) ==
  LET i == First(s, Trailing) IN IF i = 0 THEN <<>> ELSE After(s, i - 1)

\* The SQL for DuckDB, or <<>> for an error.
TranslateSelect(q, s, sch) ==
  LET columns == IF q.all THEN <<<<<<Name(RowID)>>>>, Named(AllColumns(sch))>>
                 ELSE [i \in DOMAIN q.columns |-> TranslateColumn(q.columns[i], sch)]
      where == IF q.where = <<>> THEN <<>> ELSE <<Kw("WHERE")>> \o TranslateColumnRefs(q.where)
  IN IF ~Known(q, sch) \/ Refused \in ToSet(columns) THEN <<>>
     ELSE <<Kw("SELECT")>> \o Join(FlattenSeq(columns)) \o <<Kw("FROM"), TableName>> \o where
          \o TranslateColumnRefs(ExtractTrailingClauses(s))

Translate(q, s, sch) ==
  IF q.type = "SELECT" THEN TranslateSelect(q, s, sch)
  ELSE IF Known(q, sch) \/ q.type = "DELETE" THEN TranslateColumnRefs(s) ELSE <<>>
=============================================================================
