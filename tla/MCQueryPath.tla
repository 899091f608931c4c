----------------------------- MODULE MCQueryPath -----------------------------
(* Statements and schemas for QueryPath. *)
EXTENDS QueryPath, TLC

A == <<"A">>
B == <<"B">>
x == <<"x">>
y == <<"y">>
Group(name, columns) == [name |-> name, columns |-> columns]

\* y is in two groups, or in one; two columns have one flat name; a group is empty.
MCSchemas == {<<Group(A, <<x, y>>), Group(B, <<y>>)>>,
              <<Group(A, <<x>>), Group(B, <<y>>)>>,
              <<Group(A, <<<<"B", "x">>>>), Group(<<"A", "B">>, <<x>>)>>,
              <<Group(A, <<>>), Group(B, <<x, y>>)>>}

Paren(s) == <<Sym("(")>> \o s \o <<Sym(")")>>
Select == <<Kw("SELECT")>>
From == <<Kw("FROM"), TableName>>
Where(s) == <<Kw("WHERE")>> \o s
Inner == Paren(Select \o <<Ref(A, x)>> \o From \o Where(<<Ref(B, y)>>) \o <<Kw("LIMIT"), Sym("1")>>)

Lists == {<<Star>>, <<Ref(A, x)>>, <<Name(y)>>, <<Ref(A, All), Comma, Line, Name(RowID)>>,
          <<Sym("f")>> \o Paren(<<Ref(A, x), Comma, Sym("1")>>) \o <<Comma, Ref(B, y)>>,
          Inner, <<Ref(B, y), Kw("AS"), Name(x)>>, <<Ref(B, x)>>,
          Inner \o <<Comma, Name(y)>>, <<Ref(A, x), Comma, Comma, Ref(B, y)>>,
          <<Name(y)>> \o Paren(<<Sym("1")>>), <<Name(RowID), Sym("||"), Quoted(Sym("1"))>>}
Wheres == {<<>>, Where(<<Ref(B, y)>>), Where(<<Ref(A, x), Sym("=")>> \o Inner),
           Where(<<Quoted(Ref(A, x))>>)}
Tails == {<<>>, <<Kw("LIMIT"), Sym("1")>>, <<Kw("ORDER BY"), Ref(A, x), Kw("LIMIT"), Sym("1")>>,
          <<Kw("GROUP BY"), Ref(A, x), Kw("HAVING"), Ref(B, y)>> \o Inner}
Unions == {<<>>, <<Kw("UNION")>> \o Select \o <<Ref(B, y)>> \o From \o Where(<<Ref(A, x)>>)}

Selects == {Select \o l \o From \o w \o t \o u : l \in Lists, w \in Wheres, t \in Tails, u \in Unions}
Broken == {Select \o <<Ref(A, x), Line>> \o From \o t : t \in Tails}
          \cup {Select \o <<Ref(A, x)>> \o From \o <<Line>> \o w : w \in Wheres \ {<<>>}}
          \cup {Select \o <<Ref(A, x)>> \o From \o Where(t) : t \in Tails}
          \cup {Select \o From, Select \o <<Star>>}
Others ==
  {<<Kw("INSERT"), Kw("INTO"), TableName>> \o Paren(<<c>>) \o <<Kw("VALUES")>> \o Paren(<<Sym("1")>>) :
     c \in {Ref(A, x), Ref(B, x), Name(<<"A", "x">>)}}
  \cup {<<Kw("INSERT"), Kw("INTO"), TableName>> \o p : p \in {<<>>, <<Sym(")"), Sym("(")>>, Paren(<<Ref(A, x)>>)}}
  \cup {<<Kw("UPDATE"), TableName, Kw("SET"), Ref(A, x), Sym("1")>> \o w : w \in Wheres}
  \cup {<<Kw("UPDATE"), Kw("SET"), Ref(A, x), Sym("1")>>, <<Kw("UPDATE"), TableName>>}
  \cup {<<Kw("DELETE")>> \o From \o w : w \in Wheres} \cup {<<Kw("DELETE"), TableName>>}
  \cup {<<Kw("DROP"), Kw("TABLE"), TableName>>}

MCStatements == Selects \cup Broken \cup Others
=============================================================================
