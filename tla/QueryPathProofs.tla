---------------------------- MODULE QueryPathProofs ----------------------------
(***************************************************************************)
(* Theorems about QueryPath: its types; that Parse, ValidateQuery and      *)
(* Translate are right about every statement (TranslatorIsRight); and that *)
(* a request, which reads the schema in two steps and runs what it made of *)
(* it in a third, is answered as the statement reads for one schema of the *)
(* table.                                                                  *)
(*                                                                         *)
(* TranslatorIsRight: the statement is cut into pieces, one for each token *)
(* (Pieces), that are what the token means, or nothing at a line break.    *)
(* FlattenSeq of a slice of the pieces (Span) is what the slice means.     *)
(* splitColumns reads the list token by token and has at each the columns  *)
(* it has cut off, which Translate makes of them what their slices mean,   *)
(* and the text since the last cut (SplitReads); the clauses after the     *)
(* list are two slices that lie one after the other (ClausesRead).         *)
(***************************************************************************)
EXTENDS QueryPath, FiniteSetTheorems, SequenceTheorems, TLAPS

-----------------------------------------------------------------------------
(* Statements. *)

LEMMA LessThan ==
  ASSUME NEW a \in Nat, NEW b \in Nat, a < b
  PROVE  <<a, b>> \in OpToRel(<, Nat)
PROOF
  <1> DEFINE R == {ss \in Nat \X Nat : ss[1] < ss[2]}
  <1>1. <<a, b>> \in R
    BY SMT
  <1>2. R = OpToRel(<, Nat)
    BY Zenon DEF OpToRel
  <1> HIDE DEF R
  <1> QED
    BY <1>1, <1>2, Zenon

\* The first of a set of positions, which First and Trim choose, exists.
LEMMA Least ==
  ASSUME NEW T, T \subseteq Nat, T # {}
  PROVE  \E i \in T : \A j \in T : i =< j
PROOF
  <1>1. \E i \in T : \A j \in T : ~ (<<j, i>> \in OpToRel(<, Nat))
    BY NatLessThanWellFounded, WFMin, Zenon
  <1>2. ASSUME NEW i \in T, \A j \in T : ~ (<<j, i>> \in OpToRel(<, Nat))
        PROVE  \A j \in T : i =< j
    <2>1. SUFFICES ASSUME NEW j \in T, j < i PROVE FALSE
      BY SMT
    <2>2. <<j, i>> \in OpToRel(<, Nat)
      BY <2>1, LessThan
    <2> QED
      BY <1>2, <2>2, Zenon
  <1> QED
    BY <1>1, <1>2, Zenon

-----------------------------------------------------------------------------
(* Sequences. *)

\* Induction up to a number, over the set of the numbers that will do.
LEMMA UpTo ==
  ASSUME NEW n \in Nat, NEW T, 0 \in T, \A i \in 0 .. n - 1 : i \in T => i + 1 \in T
  PROVE  \A i \in 0 .. n : i \in T
PROOF
  <1> DEFINE Bad == {i \in 0 .. n : i \notin T}
  <1> SUFFICES ASSUME Bad # {} PROVE FALSE
    OBVIOUS
  <1>1. PICK i \in Bad : \A j \in Bad : i =< j
    <2>1. Bad \subseteq Nat
      OBVIOUS
    <2> HIDE DEF Bad
    <2> QED
      BY <2>1, Least
  <1>2. i # 0 /\ i - 1 \in 0 .. n - 1 /\ i - 1 \notin Bad
    BY <1>1
  <1> QED
    BY <1>1, <1>2

\* The recursive function of FlattenSeq.
Flattens(S, f) == f = [i \in 1 .. Len(S) |-> IF i = 1 THEN S[i] ELSE f[i-1] \o S[i]]

\* FlattenSeq by its recursive function, of which there is one.
LEMMA FlattenDef ==
  ASSUME NEW S, Len(S) \in Nat
  PROVE  \E f : /\ \A i \in 1 .. Len(S) : f[i] = IF i = 1 THEN S[i] ELSE f[i-1] \o S[i]
                /\ FlattenSeq(S) = IF Len(S) = 0 THEN S ELSE f[Len(S)]
PROOF
  <1> DEFINE Then(v, i) == IF i = 1 THEN S[i] ELSE v \o S[i]
             T == {n \in Nat : \E f : \A i \in 1 .. n : f[i] = Then(f[i-1], i)}
  <1>1. 0 \in T
    OBVIOUS
  <1>2. ASSUME NEW n \in 0 .. Len(S) - 1, n \in T PROVE n + 1 \in T
    <2> HIDE DEF Then
    <2>1. PICK f : \A i \in 1 .. n : f[i] = Then(f[i-1], i)
      BY <1>2
    <2> DEFINE g == [i \in 0 .. n + 1 |-> IF i = n + 1 THEN Then(f[n], i) ELSE f[i]]
    <2>2. \A i \in 1 .. n + 1 : g[i] = Then(g[i-1], i)
      BY <2>1
    <2> HIDE DEF g
    <2> QED
      BY <2>2
  <1>3. \A i \in 0 .. Len(S) : i \in T
    <2> HIDE DEF T
    <2> QED
      BY <1>1, <1>2, UpTo
  <1>4. \E f : Flattens(S, f)
    <2>0. Len(S) \in T
      <3> HIDE DEF T
      <3> QED
        BY <1>3
    <2>1. PICK f : \A i \in 1 .. Len(S) : f[i] = Then(f[i-1], i)
      <3> HIDE DEF Then
      <3> QED
        BY <2>0, Zenon
    <2> DEFINE g == [i \in 1 .. Len(S) |-> f[i]]
    <2>2. \A i \in 1 .. Len(S) : g[i] = IF i = 1 THEN S[i] ELSE g[i-1] \o S[i]
      BY <2>1
    <2>3. g = [i \in 1 .. Len(S) |-> IF i = 1 THEN S[i] ELSE g[i-1] \o S[i]]
      <3> HIDE DEF g
      <3>1. g = [i \in 1 .. Len(S) |-> g[i]]
        BY DEF g
      <3> QED
        BY <2>2, <3>1
    <2> HIDE DEF g
    <2> QED
      BY <2>3, Zenon DEF Flattens
  <1>5. PICK f : f = CHOOSE g : Flattens(S, g)
    OBVIOUS
  <1>6. Flattens(S, f)
    BY <1>4, <1>5, Zenon
  <1>7. FlattenSeq(S) = IF Len(S) = 0 THEN S ELSE f[Len(S)]
    BY <1>5 DEF FlattenSeq, Flattens
  <1>8. \A i \in 1 .. Len(S) : f[i] = IF i = 1 THEN S[i] ELSE f[i-1] \o S[i]
    BY <1>6, Zenon DEF Flattens
  <1> QED
    BY <1>7, <1>8

LEMMA FlattenEmpty == FlattenSeq(<<>>) = <<>>
BY FlattenDef, Len(<<>>) = 0

\* FlattenSeq of one sequence more.
LEMMA FlattenAppend ==
  ASSUME NEW X, NEW S \in Seq(Seq(X)), NEW x \in Seq(X)
  PROVE  FlattenSeq(Append(S, x)) = FlattenSeq(S) \o x
PROOF
  <1> DEFINE T == Append(S, x)
  <1>1. /\ Len(S) \in Nat /\ Len(T) = Len(S) + 1
        /\ T[Len(S) + 1] = x /\ \A i \in 1 .. Len(S) : T[i] = S[i]
    BY AppendProperties
  <1>2. PICK f : /\ \A i \in 1 .. Len(S) : f[i] = IF i = 1 THEN S[i] ELSE f[i-1] \o S[i]
                 /\ FlattenSeq(S) = IF Len(S) = 0 THEN S ELSE f[Len(S)]
    BY <1>1, FlattenDef
  <1>3. PICK g : /\ \A i \in 1 .. Len(T) : g[i] = IF i = 1 THEN T[i] ELSE g[i-1] \o T[i]
                 /\ FlattenSeq(T) = IF Len(T) = 0 THEN T ELSE g[Len(T)]
    <2>1. Len(T) \in Nat
      BY <1>1
    <2> HIDE DEF T
    <2> QED
      BY <2>1, FlattenDef
  <1> DEFINE Same == {i \in 0 .. Len(S) : i = 0 \/ f[i] = g[i]}
  <1> HIDE DEF T
  <1>4. \A i \in 0 .. Len(S) : i \in Same
    <2>1. 0 \in Same
      BY <1>1
    <2>2. ASSUME NEW i \in 0 .. Len(S) - 1, i \in Same PROVE i + 1 \in Same
      <3>1. CASE i = 0
        BY <1>1, <1>2, <1>3, <3>1
      <3>2. CASE i # 0
        <4> DEFINE j == i + 1
        <4>1. j \in 1 .. Len(S) /\ j \in 1 .. Len(T) /\ j # 1 /\ j - 1 = i /\ T[j] = S[j]
          BY <1>1, <3>2
        <4> HIDE DEF j
        <4>2. f[j] = f[i] \o S[j] /\ g[j] = g[i] \o T[j]
          BY <1>2, <1>3, <4>1, Zenon
        <4>3. f[i] = g[i]
          BY <2>2, <3>2
        <4>4. f[j] = g[j] /\ j \in 0 .. Len(S)
          BY <4>1, <4>2, <4>3
        <4> QED
          BY <4>4 DEF j
      <3> QED
        BY <3>1, <3>2
    <2> HIDE DEF Same
    <2> QED
      BY <1>1, <2>1, <2>2, UpTo
  <1>5. CASE Len(S) = 0
    <2>1. S = <<>> /\ FlattenSeq(S) = <<>>
      BY <1>5, FlattenEmpty
    <2>2. FlattenSeq(T) = x
      BY <1>1, <1>3, <1>5
    <2> QED
      BY <2>1, <2>2, ConcatEmptySeq DEF T
  <1>6. CASE Len(S) # 0
    <2>1. FlattenSeq(T) = g[Len(S) + 1] /\ g[Len(S) + 1] = g[Len(S)] \o x
      <3> DEFINE j == Len(T)
      <3>1. j = Len(S) + 1 /\ j \in 1 .. Len(T) /\ j # 1 /\ j # 0 /\ j - 1 = Len(S) /\ T[j] = x
        BY <1>1, <1>6
      <3> HIDE DEF j
      <3>2. FlattenSeq(T) = g[j] /\ g[j] = g[j - 1] \o T[j]
        BY <1>3, <3>1, Zenon DEF j
      <3> QED
        BY <3>1, <3>2
    <2>2. g[Len(S)] = FlattenSeq(S)
      BY <1>1, <1>2, <1>4, <1>6
    <2> QED
      BY <2>1, <2>2 DEF T
  <1> QED
    BY <1>5, <1>6

\* A sequence but for its last element.
LEMMA Prefix ==
  ASSUME NEW X, NEW s \in Seq(X), NEW i \in 0 .. Len(s) - 1
  PROVE  /\ SubSeq(s, 1, i) \in Seq(X) /\ s[i + 1] \in X
         /\ SubSeq(s, 1, i + 1) = Append(SubSeq(s, 1, i), s[i + 1])
PROOF
  <1>1. SubSeq(s, 1, i) \in Seq(X) /\ s[i + 1] \in X
    BY SubSeqProperties, ElementOfSeq
  <1>2. SubSeq(s, 1, i + 1) = SubSeq(s, 1, i) \o <<s[i + 1]>>
    BY SubSeqRecursiveSecond
  <1> QED
    BY <1>1, <1>2, AppendIsConcat

LEMMA FlattenType ==
  ASSUME NEW X, NEW S \in Seq(Seq(X))
  PROVE  FlattenSeq(S) \in Seq(X)
PROOF
  <1> DEFINE T == {i \in Nat : FlattenSeq(SubSeq(S, 1, i)) \in Seq(X)}
  <1>0. Len(S) \in Nat
    BY LenProperties
  <1>1. 0 \in T
    <2>1. SubSeq(S, 1, 0) = <<>> /\ <<>> \in Seq(X)
      BY SubSeqEmpty, EmptySeq
    <2> QED
      BY <2>1, FlattenEmpty
  <1>2. ASSUME NEW i \in 0 .. Len(S) - 1, i \in T PROVE i + 1 \in T
    <2> DEFINE U == SubSeq(S, 1, i)
    <2>1. U \in Seq(Seq(X)) /\ S[i + 1] \in Seq(X) /\ SubSeq(S, 1, i + 1) = Append(U, S[i + 1])
      BY Prefix
    <2>2. FlattenSeq(Append(U, S[i + 1])) = FlattenSeq(U) \o S[i + 1]
      BY <2>1, FlattenAppend
    <2>3. FlattenSeq(U) \o S[i + 1] \in Seq(X)
      BY <1>2, <2>1, ConcatProperties
    <2>4. i + 1 \in Nat
      OBVIOUS
    <2> QED
      BY <2>1, <2>2, <2>3, <2>4, Zenon
  <1>3. \A i \in 0 .. Len(S) : i \in T
    <2> HIDE DEF T
    <2> QED
      BY <1>0, <1>1, <1>2, UpTo
  <1>4. Len(S) \in T
    BY <1>0, <1>3
  <1> QED
    BY <1>4, SubSeqFull, Zenon

LEMMA FlattenConcatStep ==
  ASSUME NEW X, NEW S \in Seq(Seq(X)), NEW U \in Seq(Seq(X)), NEW x \in Seq(X),
         FlattenSeq(S \o U) = FlattenSeq(S) \o FlattenSeq(U)
  PROVE  FlattenSeq(S \o Append(U, x)) = FlattenSeq(S) \o FlattenSeq(Append(U, x))
PROOF
  <1>1. S \o U \in Seq(Seq(X)) /\ S \o Append(U, x) = Append(S \o U, x)
    <2>1. <<x>> \in Seq(Seq(X)) /\ Append(U, x) = U \o <<x>>
      BY AppendIsConcat
    <2>2. S \o U \in Seq(Seq(X))
      BY ConcatProperties
    <2>3. Append(S \o U, x) = (S \o U) \o <<x>>
      BY <2>2, AppendIsConcat
    <2>4. (S \o U) \o <<x>> = S \o (U \o <<x>>)
      BY <2>1, ConcatAssociative, SMTT(30)
    <2> QED
      BY <2>1, <2>2, <2>3, <2>4
  <1>2. FlattenSeq(S \o Append(U, x)) = (FlattenSeq(S) \o FlattenSeq(U)) \o x
    BY <1>1, FlattenAppend
  <1>3. FlattenSeq(Append(U, x)) = FlattenSeq(U) \o x
    BY FlattenAppend
  <1>4. FlattenSeq(S) \in Seq(X) /\ FlattenSeq(U) \in Seq(X)
    BY FlattenType
  <1>5. (FlattenSeq(S) \o FlattenSeq(U)) \o x = FlattenSeq(S) \o (FlattenSeq(U) \o x)
    BY <1>4, ConcatAssociative, SMTT(30)
  <1> QED
    BY <1>2, <1>3, <1>5

\* FlattenSeq of two sequences of sequences, one after the other.
LEMMA FlattenConcat ==
  ASSUME NEW X, NEW S \in Seq(Seq(X)), NEW T \in Seq(Seq(X))
  PROVE  FlattenSeq(S \o T) = FlattenSeq(S) \o FlattenSeq(T)
PROOF
  <1> DEFINE Good == {i \in Nat : FlattenSeq(S \o SubSeq(T, 1, i))
                                    = FlattenSeq(S) \o FlattenSeq(SubSeq(T, 1, i))}
  <1>0. Len(T) \in Nat
    BY LenProperties
  <1>1. 0 \in Good
    <2>1. SubSeq(T, 1, 0) = <<>>
      BY SubSeqEmpty
    <2>2. S \o <<>> = S /\ FlattenSeq(S) \o <<>> = FlattenSeq(S)
      BY FlattenType, ConcatEmptySeq
    <2> QED
      BY <2>1, <2>2, FlattenEmpty, Zenon
  <1>2. ASSUME NEW i \in 0 .. Len(T) - 1, i \in Good PROVE i + 1 \in Good
    <2>1. /\ SubSeq(T, 1, i) \in Seq(Seq(X)) /\ T[i + 1] \in Seq(X)
          /\ SubSeq(T, 1, i + 1) = Append(SubSeq(T, 1, i), T[i + 1])
      BY Prefix
    <2>2. i + 1 \in Nat
      OBVIOUS
    <2> QED
      BY <1>2, <2>1, <2>2, FlattenConcatStep, ZenonT(30)
  <1>3. \A i \in 0 .. Len(T) : i \in Good
    <2> HIDE DEF Good
    <2> QED
      BY <1>0, <1>1, <1>2, UpTo
  <1>4. Len(T) \in Good
    BY <1>0, <1>3
  <1> QED
    BY <1>4, SubSeqFull, Zenon

LEMMA FlattenOne ==
  ASSUME NEW X, NEW x \in Seq(X)
  PROVE  FlattenSeq(<<x>>) = x
PROOF
  <1>1. <<x>> = Append(<<>>, x) /\ <<>> \in Seq(Seq(X))
    OBVIOUS
  <1>2. FlattenSeq(<<x>>) = <<>> \o x
    BY <1>1, FlattenAppend, FlattenEmpty
  <1> QED
    BY <1>2, ConcatEmptySeq

-----------------------------------------------------------------------------
(* Line breaks. *)

OfLine(s) == [i \in DOMAIN s |-> IF s[i] = Line THEN <<>> ELSE <<s[i]>>]

LEMMA OfLineType ==
  ASSUME NEW X, NEW s \in Seq(X)
  PROVE  OfLine(s) \in Seq(Seq(X)) /\ Len(OfLine(s)) = Len(s) /\ OneLine(s) = FlattenSeq(OfLine(s))
PROOF
  <1>1. DOMAIN s = 1 .. Len(s) /\ Len(s) \in Nat
    BY LenProperties
  <1>2. \A i \in 1 .. Len(s) : (IF s[i] = Line THEN <<>> ELSE <<s[i]>>) \in Seq(X)
    BY <1>1
  <1> QED
    BY <1>1, <1>2 DEF OfLine, OneLine

LEMMA OneLineType ==
  ASSUME NEW X, NEW s \in Seq(X)
  PROVE  OneLine(s) \in Seq(X)
BY OfLineType, FlattenType

\* Line breaks are left out part by part.
LEMMA OneLineConcat ==
  ASSUME NEW X, NEW s \in Seq(X), NEW t \in Seq(X)
  PROVE  OneLine(s \o t) = OneLine(s) \o OneLine(t)
PROOF
  <1>1. s \o t \in Seq(X)
    BY ConcatProperties
  <1>2. OfLine(s \o t) = OfLine(s) \o OfLine(t)
    <2>1. /\ OfLine(s \o t) \in Seq(Seq(X)) /\ Len(OfLine(s \o t)) = Len(s) + Len(t)
          /\ OfLine(s) \in Seq(Seq(X)) /\ Len(OfLine(s)) = Len(s)
          /\ OfLine(t) \in Seq(Seq(X)) /\ Len(OfLine(t)) = Len(t)
      BY <1>1, OfLineType, ConcatProperties
    <2>2. /\ OfLine(s) \o OfLine(t) \in Seq(Seq(X)) /\ Len(OfLine(s) \o OfLine(t)) = Len(s) + Len(t)
          /\ \A i \in 1 .. Len(s) + Len(t) : (OfLine(s) \o OfLine(t))[i] =
               IF i =< Len(s) THEN OfLine(s)[i] ELSE OfLine(t)[i - Len(s)]
      <3> DEFINE a == OfLine(s)
                 b == OfLine(t)
      <3>1. a \in Seq(Seq(X)) /\ b \in Seq(Seq(X))
        BY <2>1
      <3>2. Len(a) = Len(s) /\ Len(b) = Len(t)
        BY <2>1
      <3> HIDE DEF a, b
      <3>3. /\ a \o b \in Seq(Seq(X)) /\ Len(a \o b) = Len(a) + Len(b)
            /\ \A i \in 1 .. Len(a) + Len(b) : (a \o b)[i] = IF i =< Len(a) THEN a[i] ELSE b[i - Len(a)]
        BY <3>1, ConcatProperties
      <3> QED
        BY <3>2, <3>3, Zenon DEF a, b
    <2>3. ASSUME NEW i \in 1 .. Len(s) + Len(t) PROVE OfLine(s \o t)[i] = (OfLine(s) \o OfLine(t))[i]
      <3>1. /\ (s \o t)[i] = IF i =< Len(s) THEN s[i] ELSE t[i - Len(s)]
            /\ DOMAIN (s \o t) = 1 .. Len(s) + Len(t)
            /\ DOMAIN s = 1 .. Len(s) /\ DOMAIN t = 1 .. Len(t) /\ Len(s) \in Nat /\ Len(t) \in Nat
        BY <1>1, ConcatProperties, LenProperties
      <3>2. CASE i =< Len(s)
        BY <2>2, <3>1, <3>2 DEF OfLine
      <3>3. CASE ~ (i =< Len(s))
        <4>1. i - Len(s) \in 1 .. Len(t)
          BY <3>1, <3>3
        <4> QED
          BY <2>2, <3>1, <3>3, <4>1 DEF OfLine
      <3> QED
        BY <3>2, <3>3
    <2> QED
      BY <2>1, <2>2, <2>3, SeqEqual
  <1>3. OfLine(s) \in Seq(Seq(X)) /\ OfLine(t) \in Seq(Seq(X))
    BY OfLineType
  <1>4. OneLine(s) = FlattenSeq(OfLine(s)) /\ OneLine(t) = FlattenSeq(OfLine(t))
        /\ OneLine(s \o t) = FlattenSeq(OfLine(s \o t))
    BY <1>1, OfLineType
  <1>5. FlattenSeq(OfLine(s) \o OfLine(t)) = FlattenSeq(OfLine(s)) \o FlattenSeq(OfLine(t))
    BY <1>3, FlattenConcat
  <1> QED
    BY <1>2, <1>4, <1>5, Zenon

LEMMA OneLineEmpty == OneLine(<<>>) = <<>>
PROOF
  <1>1. OfLine(<<>>) = <<>>
    BY DEF OfLine
  <1>2. OneLine(<<>>) = FlattenSeq(OfLine(<<>>))
    BY DEF OneLine, OfLine
  <1> QED
    BY <1>1, <1>2, FlattenEmpty

LEMMA OneLineOne ==
  ASSUME NEW t
  PROVE  OneLine(<<t>>) = IF t = Line THEN <<>> ELSE <<t>>
PROOF
  <1> DEFINE u == IF t = Line THEN <<>> ELSE <<t>>
  <1>0. <<t>> \in Seq({t}) /\ Len(<<t>>) = 1
    <2>1. t \in {t}
      OBVIOUS
    <2> QED
      BY <2>1
  <1>1. u \in Seq({t})
    <2>1. <<>> \in Seq({t})
      BY EmptySeq
    <2> QED
      BY <1>0, <2>1, Zenon
  <1>3. OfLine(<<t>>) = <<u>>
    <2>1. OfLine(<<t>>) \in Seq(Seq({t})) /\ Len(OfLine(<<t>>)) = 1
      BY <1>0, OfLineType, Zenon
    <2>2. OfLine(<<t>>)[1] = u
      BY DEF OfLine
    <2>3. <<u>> \in Seq(Seq({t})) /\ Len(<<u>>) = 1 /\ <<u>>[1] = u
      BY <1>1
    <2> HIDE DEF u
    <2> QED
      BY <2>1, <2>2, <2>3, SeqEqual
  <1>2. OneLine(<<t>>) = FlattenSeq(OfLine(<<t>>))
    BY DEF OneLine, OfLine
  <1> QED
    BY <1>1, <1>2, <1>3, FlattenOne

LEMMA OneLineAppend ==
  ASSUME NEW X, NEW s \in Seq(X), NEW t \in X
  PROVE  OneLine(Append(s, t)) = IF t = Line THEN OneLine(s) ELSE Append(OneLine(s), t)
PROOF
  <1>1. <<t>> \in Seq(X) /\ Append(s, t) = s \o <<t>>
    BY AppendIsConcat
  <1>2. OneLine(Append(s, t)) = OneLine(s) \o OneLine(<<t>>) /\ OneLine(s) \in Seq(X)
    BY <1>1, OneLineConcat, OneLineType
  <1>3. CASE t = Line
    BY <1>2, <1>3, OneLineOne, ConcatEmptySeq
  <1>4. CASE t # Line
    BY <1>2, <1>4, OneLineOne, AppendIsConcat
  <1> QED
    BY <1>3, <1>4

\* OneLine keeps the tokens other than Line.
LEMMA OneLineRange ==
  ASSUME NEW X, NEW s \in Seq(X)
  PROVE  ToSet(OneLine(s)) = ToSet(s) \ {Line}
PROOF
  <1> DEFINE T == {i \in Nat : ToSet(OneLine(SubSeq(s, 1, i))) = ToSet(SubSeq(s, 1, i)) \ {Line}}
  <1>0. Len(s) \in Nat
    BY LenProperties
  <1>1. 0 \in T
    <2>1. SubSeq(s, 1, 0) = <<>>
      BY SubSeqEmpty
    <2>2. ToSet(<<>>) = {}
      BY DEF ToSet
    <2> QED
      BY <2>1, <2>2, OneLineEmpty
  <1>2. ASSUME NEW i \in 0 .. Len(s) - 1, i \in T PROVE i + 1 \in T
    <2> DEFINE u == SubSeq(s, 1, i)
               t == s[i + 1]
    <2>1. u \in Seq(X) /\ t \in X /\ SubSeq(s, 1, i + 1) = Append(u, t) /\ ToSet(OneLine(u)) = ToSet(u) \ {Line}
      BY <1>2, Prefix
    <2>2. i + 1 \in Nat
      OBVIOUS
    <2> HIDE DEF u, t
    <2>3. \A v \in Seq(X) : ToSet(Append(v, t)) = ToSet(v) \cup {t}
      <3>1. ASSUME NEW v \in Seq(X) PROVE ToSet(Append(v, t)) = ToSet(v) \cup {t}
        <4>1. /\ DOMAIN v = 1 .. Len(v) /\ DOMAIN Append(v, t) = 1 .. Len(v) + 1 /\ Len(v) \in Nat
              /\ \A k \in 1 .. Len(v) : Append(v, t)[k] = v[k]
              /\ Append(v, t)[Len(v) + 1] = t
          BY <2>1, AppendProperties, LenProperties
        <4> QED
          BY <4>1 DEF ToSet
      <3> QED
        BY <3>1
    <2>4. OneLine(u) \in Seq(X) /\ OneLine(Append(u, t)) = IF t = Line THEN OneLine(u) ELSE Append(OneLine(u), t)
      BY <2>1, OneLineType, OneLineAppend
    <2>5. ToSet(OneLine(Append(u, t))) = ToSet(Append(u, t)) \ {Line}
      BY <2>1, <2>3, <2>4
    <2> QED
      BY <2>1, <2>2, <2>5, Zenon
  <1>3. \A i \in 0 .. Len(s) : i \in T
    <2> HIDE DEF T
    <2> QED
      BY <1>0, <1>1, <1>2, UpTo
  <1>4. Len(s) \in T
    BY <1>0, <1>3
  <1> QED
    BY <1>4, SubSeqFull, Zenon

-----------------------------------------------------------------------------
(* Words. *)

\* First finds a word it looks for.
LEMMA FirstFinds ==
  ASSUME NEW S, NEW s \in Seq(S), NEW W, First(s, W) # 0
  PROVE  /\ First(s, W) \in 2 .. Len(s) - 1
         /\ s[First(s, W)][1] = "kw" /\ s[First(s, W)][2] \in W
PROOF
  <1> DEFINE at == {i \in 2 .. Len(s) - 1 : /\ s[i][1] = "kw" /\ s[i][2] \in W
                                            /\ s[i-1] # Line /\ s[i+1] # Line}
  <1>1. First(s, W) = IF at = {} THEN 0 ELSE CHOOSE i \in at : \A j \in at : i =< j
    BY Zenon DEF First
  <1>2. at # {} /\ at \subseteq Nat
    BY <1>1, SMTT(30)
  <1>3. First(s, W) \in at
    <2> HIDE DEF at
    <2> QED
      BY <1>1, <1>2, Least, Zenon
  <1> QED
    BY <1>3

\* A statement of the requests.
Statement(s) == /\ s \in Seq(ToSet(s)) \ {<<>>}
                /\ s[1] = Kw(s[1][2])
                /\ \A i \in DOMAIN s : s[i][1] = "kw" => s[i] = Kw(s[i][2])
                /\ \A i \in DOMAIN s : s[i][1] = "name" => s[i] = Name(s[i][2])

\* The statements clients send are of that shape.
LEMMA StatementShape == \A s \in Statements : Statement(s)
BY QueryAssumption, Zenon DEF Statement

\* A slice ends before it begins only in the statements that TypeOK names.
LEMMA Panics ==
  ASSUME NEW s, Statement(s), Parse(s).type = "panic"
  PROVE  s[1] = Kw("INSERT") \/ s[2] \in {Kw("FROM"), Kw("SET")}
PROOF
  <1>1. ASSUME NEW w, First(s, {w}) = 2
        PROVE  s[2] = Kw(w)
    <2>1. 2 \in 2 .. Len(s) - 1 /\ s[2][1] = "kw" /\ s[2][2] \in {w}
      BY <1>1, FirstFinds DEF Statement
    <2> QED
      BY <2>1 DEF Statement, Kw
  <1>2. CASE s[1] = Kw("SELECT")
    <2>1. Parse(s) = ParseSelect(s)
      BY <1>2 DEF Parse, Kw
    <2>2. First(s, {"FROM"}) = 2
      BY <2>1 DEF ParseSelect, ParseError, Panic
    <2> QED
      BY <1>1, <2>2
  <1>3. CASE s[1] = Kw("UPDATE")
    <2>1. Parse(s) = ParseUpdate(s)
      BY <1>3 DEF Parse, Kw
    <2>2. First(s, {"SET"}) = 2
      BY <2>1 DEF ParseUpdate, ParseError, Panic
    <2> QED
      BY <1>1, <2>2
  <1>4. CASE s[1] = Kw("DELETE")
    <2>1. Parse(s) = ParseDelete(s)
      BY <1>4 DEF Parse, Kw
    <2> QED
      BY <2>1 DEF ParseDelete, ParseError
  <1>5. CASE s[1] \notin {Kw("SELECT"), Kw("INSERT"), Kw("UPDATE"), Kw("DELETE")}
    BY <1>5 DEF Parse, ParseError
  <1> QED
    BY <1>2, <1>3, <1>4, <1>5

\* A plain statement is a SELECT, which Translate refuses without a schema.
LEMMA PlainIsSelect ==
  ASSUME NEW s, Plain(s)
  PROVE  /\ s[1][2] = "SELECT"
         /\ Parse(s).type \in {"SELECT", "error", "panic"}
         /\ Parse(s).type = "SELECT" => Translate(Parse(s), s, Absent) = <<>>
PROOF
  <1>1. s[1] = Kw("SELECT")
    BY DEF Plain
  <1>2. Parse(s) = ParseSelect(s)
    BY <1>1 DEF Parse, Kw
  <1>3. Parse(s).type \in {"SELECT", "error", "panic"}
    BY <1>2 DEF ParseSelect, ParseError, Panic
  <1>4. ASSUME Parse(s).type = "SELECT"
        PROVE  Translate(Parse(s), s, Absent) = <<>>
    <2>1. Translate(Parse(s), s, Absent) = TranslateSelect(Parse(s), s, Absent)
      BY <1>4, Zenon DEF Translate
    <2>2. ~Known(Parse(s), Absent)
      BY DEF Known
    <2> QED
      BY <2>1, <2>2, Zenon DEF TranslateSelect
  <1> QED
    BY <1>1, <1>3, <1>4 DEF Kw

-----------------------------------------------------------------------------
(* Slices of a sequence of sequences. *)

\* The sequences F[a], ..., F[b] as one.
Span(F, a, b) == FlattenSeq(SubSeq(F, a, b))

\* A slice of a sequence, for any bounds within it.
LEMMA SliceType ==
  ASSUME NEW X, NEW s \in Seq(X), NEW a \in Int, NEW b \in Int, 1 =< a, b =< Len(s)
  PROVE  /\ SubSeq(s, a, b) \in Seq(X)
         /\ Len(SubSeq(s, a, b)) = IF a =< b THEN b - a + 1 ELSE 0
         /\ \A i \in 1 .. b - a + 1 : SubSeq(s, a, b)[i] = s[a + i - 1]
PROOF
  <1>1. \A i \in a .. b : s[i] \in X
    BY ElementOfSeq
  <1> QED
    BY <1>1, SubSeqProperties

LEMMA SpanType ==
  ASSUME NEW X, NEW F \in Seq(Seq(X)), NEW a \in Int, NEW b \in Int, 1 =< a, b =< Len(F)
  PROVE  Span(F, a, b) \in Seq(X)
PROOF
  <1>1. SubSeq(F, a, b) \in Seq(Seq(X))
    BY SliceType
  <1> QED
    BY <1>1, FlattenType DEF Span

\* A span is cut anywhere.
LEMMA SpanSplit ==
  ASSUME NEW X, NEW F \in Seq(Seq(X)),
         NEW a \in 1 .. Len(F) + 1, NEW b \in a - 1 .. Len(F), NEW c \in b .. Len(F)
  PROVE  Span(F, a, c) = Span(F, a, b) \o Span(F, b + 1, c)
PROOF
  <1>1. SubSeq(F, a, c) = SubSeq(F, a, b) \o SubSeq(F, b + 1, c)
    BY ConcatAdjacentSubSeq
  <1>2. SubSeq(F, a, b) \in Seq(Seq(X)) /\ SubSeq(F, b + 1, c) \in Seq(Seq(X))
    BY SliceType, LenProperties
  <1> QED
    BY <1>1, <1>2, FlattenConcat DEF Span

LEMMA SpanEmpty ==
  ASSUME NEW F, NEW a \in Int, NEW b \in Int, b < a
  PROVE  Span(F, a, b) = <<>>
BY SubSeqEmpty, FlattenEmpty DEF Span

LEMMA SpanOne ==
  ASSUME NEW X, NEW F \in Seq(Seq(X)), NEW a \in 1 .. Len(F)
  PROVE  Span(F, a, a) = F[a] /\ F[a] \in Seq(X)
PROOF
  <1>1. F[a] \in Seq(X)
    BY ElementOfSeq
  <1>2. SubSeq(F, a, a) = <<F[a]>>
    <2>1. SubSeq(F, a, a) = <<F[a]>> \o SubSeq(F, a + 1, a)
      BY SubSeqRecursiveFirst
    <2>2. SubSeq(F, a + 1, a) = <<>>
      BY SubSeqEmpty
    <2>3. <<F[a]>> \in Seq(Seq(X))
      BY <1>1
    <2> QED
      BY <2>1, <2>2, <2>3, ConcatEmptySeq
  <1> QED
    BY <1>1, <1>2, FlattenOne DEF Span

\* A span depends on the sequences in it only.
LEMMA SpanSame ==
  ASSUME NEW X, NEW F \in Seq(Seq(X)), NEW G \in Seq(Seq(X)), NEW a \in Int, NEW b \in Int, 1 =< a,
         b =< Len(F), b =< Len(G), \A i \in a .. b : F[i] = G[i]
  PROVE  Span(F, a, b) = Span(G, a, b)
PROOF
  <1>1. SubSeq(F, a, b) \in Seq(Seq(X)) /\ SubSeq(G, a, b) \in Seq(Seq(X))
        /\ Len(SubSeq(F, a, b)) = Len(SubSeq(G, a, b))
    BY SliceType
  <1>2. \A i \in 1 .. Len(SubSeq(F, a, b)) : SubSeq(F, a, b)[i] = SubSeq(G, a, b)[i]
    BY SliceType
  <1>3. SubSeq(F, a, b) = SubSeq(G, a, b)
    BY <1>1, <1>2, SeqEqual
  <1> QED
    BY <1>3 DEF Span

LEMMA SpanNone ==
  ASSUME NEW X, NEW F \in Seq(Seq(X)), NEW a \in Int, NEW b \in Int, 1 =< a, b =< Len(F),
         \A i \in a .. b : F[i] = <<>>
  PROVE  Span(F, a, b) = <<>>
PROOF
  <1> DEFINE T == {k \in Nat : Span(F, a, a + k - 1) = <<>>}
  <1>1. CASE b < a
    BY <1>1, SpanEmpty
  <1>2. CASE ~ (b < a)
    <2>0. b - a + 1 \in Nat
      BY <1>2
    <2>1. 0 \in T
      BY SpanEmpty
    <2>2. ASSUME NEW k \in 0 .. (b - a + 1) - 1, k \in T PROVE k + 1 \in T
      <3> DEFINE c == a + k
      <3>1. c \in a .. b /\ c \in 1 .. Len(F) /\ a \in 1 .. Len(F) + 1 /\ c - 1 \in a - 1 .. Len(F)
            /\ c \in c - 1 .. Len(F) /\ c - 1 = a + k - 1 /\ c = a + (k + 1) - 1 /\ k + 1 \in Nat /\ (c - 1) + 1 = c
        BY <2>2, LenProperties
      <3> HIDE DEF c
      <3>2. Span(F, a, c) = Span(F, a, c - 1) \o Span(F, c, c)
        BY <3>1, SpanSplit, Zenon
      <3>3. Span(F, c, c) = <<>> /\ Span(F, a, c - 1) = <<>>
        BY <2>2, <3>1, SpanOne
      <3>4. <<>> \o <<>> = <<>>
        OBVIOUS
      <3> QED
        BY <3>1, <3>2, <3>3, <3>4, Zenon
    <2>3. \A k \in 0 .. b - a + 1 : k \in T
      <3> HIDE DEF T
      <3> QED
        BY <2>0, <2>1, <2>2, UpTo
    <2>4. b - a + 1 \in 0 .. b - a + 1 /\ a + (b - a + 1) - 1 = b
      BY <2>0
    <2>5. b - a + 1 \in T
      BY <2>3, <2>4, Zenon
    <2> QED
      BY <2>4, <2>5
  <1> QED
    BY <1>1, <1>2

\* Of the sequences of a span, but one is empty.
LEMMA SpanSingle ==
  ASSUME NEW X, NEW F \in Seq(Seq(X)), NEW a \in Int, NEW b \in Int, 1 =< a, b =< Len(F),
         NEW k \in a .. b, \A i \in a .. b : i = k \/ F[i] = <<>>
  PROVE  Span(F, a, b) = F[k]
PROOF
  <1>1. Span(F, a, k - 1) = <<>> /\ Span(F, k + 1, b) = <<>>
    <2>1. /\ k - 1 \in Int /\ k + 1 \in Int /\ 1 =< k + 1 /\ k - 1 =< Len(F)
          /\ (\A i \in a .. k - 1 : F[i] = <<>>) /\ \A i \in k + 1 .. b : F[i] = <<>>
      BY LenProperties
    <2> QED
      BY <2>1, SpanNone, Zenon
  <1>2. Span(F, k, k) = F[k] /\ F[k] \in Seq(X)
    BY SpanOne
  <1>3. Span(F, a, b) = Span(F, a, k - 1) \o Span(F, k, b) /\ Span(F, k, b) = Span(F, k, k) \o Span(F, k + 1, b)
    <2>1. a \in 1 .. Len(F) + 1 /\ k - 1 \in a - 1 .. Len(F) /\ b \in k - 1 .. Len(F) /\ (k - 1) + 1 = k
          /\ k \in 1 .. Len(F) + 1 /\ k \in k - 1 .. Len(F) /\ b \in k .. Len(F)
      BY LenProperties
    <2> QED
      BY <2>1, SpanSplit, ZenonT(30)
  <1> QED
    BY <1>1, <1>2, <1>3, ConcatEmptySeq

-----------------------------------------------------------------------------
(* Trim, and what a statement says token by token. *)

\* The last of a set of positions exists.
LEMMA Greatest ==
  ASSUME NEW n \in Nat, NEW T, T \subseteq 0 .. n, T # {}
  PROVE  \E i \in T : \A j \in T : j =< i
PROOF
  <1> DEFINE U == {n - i : i \in T}
  <1>1. U \subseteq Nat /\ U # {}
    <2>1. \A i \in T : n - i \in Nat
      OBVIOUS
    <2> QED
      BY <2>1, Zenon
  <1>2. PICK k \in U : \A j \in U : k =< j
    <2> HIDE DEF U
    <2> QED
      BY <1>1, Least
  <1>3. PICK i \in T : k = n - i
    BY <1>2
  <1>4. \A j \in T : j =< i
    BY <1>2, <1>3
  <1> QED
    BY <1>4

\* Trim of a slice is a slice, between line breaks.
Trims(s, a, b, m, n) ==
  /\ a =< m /\ n =< b /\ m =< n + 1
  /\ \A i \in a .. m - 1 : s[i] = Line
  /\ \A i \in n + 1 .. b : s[i] = Line
  /\ m =< n => s[m] # Line /\ s[n] # Line

\* Where Trim of a slice begins and ends.
LEMMA TrimSlice ==
  ASSUME NEW X, NEW s \in Seq(X), NEW a \in Int, NEW b \in Int, 1 =< a, a =< b + 1, b =< Len(s)
  PROVE  \E m, n \in Int : Trims(s, a, b, m, n) /\ Trim(SubSeq(s, a, b)) = SubSeq(s, m, n)
PROOF
  <1> DEFINE u == SubSeq(s, a, b)
             kept == {i \in DOMAIN u : u[i] # Line}
  <1>1. /\ u \in Seq(X) /\ Len(u) = b - a + 1 /\ DOMAIN u = 1 .. b - a + 1
        /\ \A i \in 1 .. b - a + 1 : u[i] = s[a + i - 1]
    <2>1. u \in Seq(X) /\ Len(u) = (IF a =< b THEN b - a + 1 ELSE 0)
          /\ \A i \in 1 .. b - a + 1 : u[i] = s[a + i - 1]
      BY SliceType
    <2>2. DOMAIN u = 1 .. Len(u)
      BY <2>1, LenProperties
    <2> QED
      BY <2>1, <2>2
  <1>2. Trim(u) = IF kept = {} THEN <<>>
                  ELSE SubSeq(u, CHOOSE i \in kept : \A j \in kept : i =< j,
                                 CHOOSE i \in kept : \A j \in kept : j =< i)
    BY Zenon DEF Trim
  <1>3. CASE kept = {}
    <2>1. \A i \in a .. b : s[i] = Line
      <3> SUFFICES ASSUME NEW i \in a .. b PROVE s[i] = Line
        OBVIOUS
      <3>1. i - a + 1 \in 1 .. b - a + 1 /\ a + (i - a + 1) - 1 = i
        OBVIOUS
      <3> QED
        BY <1>1, <1>3, <3>1
    <2>2. Trim(u) = <<>> /\ SubSeq(s, b + 1, b) = <<>>
      BY <1>2, <1>3, SubSeqEmpty
    <2>3. Trims(s, a, b, b + 1, b) /\ b + 1 \in Int
      BY <2>1 DEF Trims
    <2> QED
      BY <2>2, <2>3
  <1>4. CASE kept # {}
    <2>1. kept \subseteq Nat /\ kept \subseteq 0 .. b - a + 1 /\ b - a + 1 \in Nat
      BY <1>1
    <2> HIDE DEF kept
    <2>2. PICK p \in kept : p = (CHOOSE i \in kept : \A j \in kept : i =< j) /\ \A j \in kept : p =< j
      BY <1>4, <2>1, Least, Zenon
    <2>3. PICK q \in kept : q = (CHOOSE i \in kept : \A j \in kept : j =< i) /\ \A j \in kept : j =< q
      BY <1>4, <2>1, Greatest, Zenon
    <2>4. Trim(u) = SubSeq(u, p, q)
      BY <1>2, <1>4, <2>2, <2>3, Zenon
    <2> HIDE DEF u
    <2>5. p \in 1 .. b - a + 1 /\ q \in 1 .. b - a + 1 /\ p =< q
          /\ s[a + p - 1] # Line /\ s[a + q - 1] # Line
      BY <1>1, <2>2, <2>3 DEF kept
    <2>6. \A i \in a .. b : s[i] # Line => a + p - 1 =< i /\ i =< a + q - 1
      <3> SUFFICES ASSUME NEW i \in a .. b, s[i] # Line
                   PROVE  a + p - 1 =< i /\ i =< a + q - 1
        OBVIOUS
      <3>1. i - a + 1 \in 1 .. b - a + 1 /\ a + (i - a + 1) - 1 = i
        OBVIOUS
      <3>2. i - a + 1 \in kept
        BY <1>1, <3>1 DEF kept
      <3>3. p =< i - a + 1 /\ i - a + 1 =< q
        BY <2>2, <2>3, <3>2
      <3> QED
        BY <2>5, <3>3
    <2>7. SubSeq(u, p, q) = SubSeq(s, a + p - 1, a + q - 1)
      <3>1. a \in 1 .. Len(s) /\ b \in 1 .. Len(s)
        BY <2>5, LenProperties
      <3> QED
        BY <2>5, <3>1, SubSeqOfSubSeq DEF u
    <2>8. Trims(s, a, b, a + p - 1, a + q - 1) /\ a + p - 1 \in Int /\ a + q - 1 \in Int
      <3>1. \A i \in a .. (a + p - 1) - 1 : s[i] = Line
        BY <2>5, <2>6
      <3>2. \A i \in (a + q - 1) + 1 .. b : s[i] = Line
        BY <2>5, <2>6
      <3> QED
        BY <2>5, <3>1, <3>2 DEF Trims
    <2> QED
      BY <2>4, <2>7, <2>8 DEF u
  <1> QED
    BY <1>3, <1>4

\* The pieces of a statement as it reads.
Reads(s) == [i \in DOMAIN s |-> IF s[i] = Line THEN <<>> ELSE <<Read(s[i])>>]

\* Each piece is a sequence of tokens.
LEMMA ReadsType ==
  ASSUME NEW X, NEW s \in Seq(X), \A t \in X : Read(t) \in X
  PROVE  Reads(s) \in Seq(Seq(X)) /\ Len(Reads(s)) = Len(s)
         /\ \A i \in 1 .. Len(s) : Reads(s)[i] = IF s[i] = Line THEN <<>> ELSE <<Read(s[i])>>
PROOF
  <1>1. DOMAIN s = 1 .. Len(s) /\ Len(s) \in Nat
    BY LenProperties
  <1>2. \A i \in 1 .. Len(s) : Read(s[i]) \in X
    BY ElementOfSeq
  <1>3. \A t \in X : <<t>> \in Seq(X)
    OBVIOUS
  <1>4. \A i \in 1 .. Len(s) : (IF s[i] = Line THEN <<>> ELSE <<Read(s[i])>>) \in Seq(X)
    BY <1>2, <1>3, EmptySeq
  <1> QED
    BY <1>1, <1>4 DEF Reads

NoQuotedRef(s) == \A i \in DOMAIN s : s[i][1] = "quoted" => s[i][2][1] # "ref"

LEMMA ReadLine == \A t : (Read(t) = Line) <=> (t = Line)
BY DEF Read, Line, Sym, Name

\* TranslateToken reads a token right when it is no string with a reference.
LEMMA TokenReads ==
  ASSUME NEW t, t[1] = "quoted" => t[2][1] # "ref"
  PROVE  TranslateToken(t) = Read(t)
BY DEF TranslateToken, Read

\* A translated slice of a statement is the slice as it reads.
LEMMA SliceReads ==
  ASSUME NEW X, NEW s \in Seq(X), \A t \in X : Read(t) \in X, NoQuotedRef(s),
         NEW a \in Int, NEW b \in Int, 1 =< a, b =< Len(s)
  PROVE  LET u == TranslateColumnRefs(SubSeq(s, a, b))
         IN u \in Seq(X) /\ OneLine(u) = Span(Reads(s), a, b)
PROOF
  <1> DEFINE v == SubSeq(s, a, b)
             u == TranslateColumnRefs(v)
             n == IF a =< b THEN b - a + 1 ELSE 0
  <1>1. v \in Seq(X) /\ Len(v) = n /\ n \in Nat /\ DOMAIN v = 1 .. n
        /\ \A i \in 1 .. n : v[i] = s[a + i - 1] /\ a + i - 1 \in 1 .. Len(s) /\ a + i - 1 \in a .. b
    <2>1. v \in Seq(X) /\ Len(v) = n /\ \A i \in 1 .. b - a + 1 : v[i] = s[a + i - 1]
      BY SliceType
    <2>2. DOMAIN v = 1 .. Len(v) /\ Len(s) \in Nat
      BY <2>1, LenProperties
    <2> QED
      BY <2>1, <2>2
  <1>2. u = [i \in 1 .. n |-> Read(v[i])]
    <2>1. \A i \in 1 .. n : TranslateToken(v[i]) = Read(v[i])
      <3> SUFFICES ASSUME NEW i \in 1 .. n PROVE TranslateToken(v[i]) = Read(v[i])
        OBVIOUS
      <3>1. a + i - 1 \in DOMAIN s /\ v[i] = s[a + i - 1]
        BY <1>1, LenProperties
      <3>2. v[i][1] = "quoted" => v[i][2][1] # "ref"
        BY <3>1, Zenon DEF NoQuotedRef
      <3> QED
        BY <3>2, TokenReads, Zenon
    <2> HIDE DEF n
    <2> QED
      BY <1>1, <2>1 DEF TranslateColumnRefs
  <1>3. \A i \in 1 .. n : Read(v[i]) \in X
    BY <1>1, ElementOfSeq
  <1> HIDE DEF v, n
  <1>4. u \in Seq(X) /\ Len(u) = n /\ \A i \in 1 .. n : u[i] = Read(v[i])
    BY <1>1, <1>2, <1>3
  <1> HIDE DEF u
  <1>5. OfLine(u) = SubSeq(Reads(s), a, b)
    <2>1. OfLine(u) \in Seq(Seq(X)) /\ Len(OfLine(u)) = n
      BY <1>4, OfLineType
    <2>2. /\ SubSeq(Reads(s), a, b) \in Seq(Seq(X)) /\ Len(SubSeq(Reads(s), a, b)) = n
          /\ \A i \in 1 .. n : SubSeq(Reads(s), a, b)[i] = Reads(s)[a + i - 1]
      BY ReadsType, SliceType DEF n
    <2>3. ASSUME NEW i \in 1 .. n PROVE OfLine(u)[i] = SubSeq(Reads(s), a, b)[i]
      <3>1. Reads(s)[a + i - 1] = IF s[a + i - 1] = Line THEN <<>> ELSE <<Read(s[a + i - 1])>>
        BY <1>1, ReadsType
      <3>2. i \in DOMAIN u
        BY <1>4, LenProperties
      <3>3. OfLine(u)[i] = IF u[i] = Line THEN <<>> ELSE <<u[i]>>
        BY <3>2 DEF OfLine
      <3>4. u[i] = Read(s[a + i - 1])
        BY <1>1, <1>4
      <3> QED
        BY <2>2, <3>1, <3>3, <3>4, ReadLine, Zenon
    <2> QED
      BY <2>1, <2>2, <2>3, SeqEqual
  <1>6. OneLine(u) = FlattenSeq(OfLine(u))
    BY <1>4, OfLineType
  <1> QED
    BY <1>4, <1>5, <1>6, Zenon DEF u, v, Span

\* So is what Trim leaves of it.
LEMMA TrimReads ==
  ASSUME NEW X, NEW s \in Seq(X), \A t \in X : Read(t) \in X, NoQuotedRef(s),
         NEW a \in Int, NEW b \in Int, 1 =< a, a =< b + 1, b =< Len(s)
  PROVE  LET u == TranslateColumnRefs(Trim(SubSeq(s, a, b)))
         IN u \in Seq(X) /\ OneLine(u) = Span(Reads(s), a, b)
PROOF
  <1>1. PICK m, n \in Int : Trims(s, a, b, m, n) /\ Trim(SubSeq(s, a, b)) = SubSeq(s, m, n)
    BY TrimSlice
  <1>2. a =< m /\ n =< b /\ m =< n + 1 /\ 1 =< m /\ n =< Len(s) /\ Len(s) \in Nat
    BY <1>1, LenProperties DEF Trims
  <1> DEFINE u == TranslateColumnRefs(Trim(SubSeq(s, a, b)))
             F == Reads(s)
  <1>3. u \in Seq(X) /\ OneLine(u) = Span(F, m, n)
    BY <1>1, <1>2, SliceReads, Zenon
  <1>4. F \in Seq(Seq(X)) /\ Len(F) = Len(s)
    BY ReadsType
  <1>5. (\A i \in a .. m - 1 : F[i] = <<>>) /\ \A i \in n + 1 .. b : F[i] = <<>>
    <2>1. (\A i \in a .. m - 1 : s[i] = Line /\ i \in 1 .. Len(s)) /\ \A i \in n + 1 .. b : s[i] = Line /\ i \in 1 .. Len(s)
      BY <1>1, <1>2 DEF Trims
    <2> QED
      BY <2>1, ReadsType
  <1> HIDE DEF F
  <1>6. Span(F, a, m - 1) = <<>> /\ Span(F, n + 1, b) = <<>>
    <2>1. m - 1 \in Int /\ m - 1 =< Len(F) /\ n + 1 \in Int /\ 1 =< n + 1 /\ b =< Len(F)
      BY <1>2, <1>4
    <2> QED
      BY <1>4, <1>5, <2>1, SpanNone, Zenon
  <1>7. Span(F, a, b) = Span(F, a, m - 1) \o Span(F, m, b) /\ Span(F, m, b) = Span(F, m, n) \o Span(F, n + 1, b)
    <2>1. a \in 1 .. Len(F) + 1 /\ m - 1 \in a - 1 .. Len(F) /\ b \in m - 1 .. Len(F) /\ (m - 1) + 1 = m
          /\ m \in 1 .. Len(F) + 1 /\ n \in m - 1 .. Len(F) /\ b \in n .. Len(F)
      BY <1>2, <1>4
    <2> QED
      BY <1>4, <2>1, SpanSplit, ZenonT(30)
  <1>8. Span(F, m, n) \in Seq(X)
    BY <1>2, <1>4, SpanType
  <1> QED
    BY <1>3, <1>6, <1>7, <1>8, ConcatEmptySeq DEF u, F

-----------------------------------------------------------------------------
(* The words that the parser finds. *)

\* A word the code finds.
Found(s, W, i) == /\ i \in 2 .. Len(s) - 1 /\ IsWord(s[i], W)
                  /\ s[i-1] # Line /\ s[i+1] # Line

\* What First finds.
LEMMA FirstIs ==
  ASSUME NEW X, NEW s \in Seq(X), NEW W
  PROVE  \/ First(s, W) = 0 /\ \A i : ~Found(s, W, i)
         \/ Found(s, W, First(s, W)) /\ \A i : Found(s, W, i) => First(s, W) =< i
PROOF
  <1> DEFINE at == {i \in 2 .. Len(s) - 1 : /\ s[i][1] = "kw" /\ s[i][2] \in W
                                            /\ s[i-1] # Line /\ s[i+1] # Line}
  <1>1. First(s, W) = IF at = {} THEN 0 ELSE CHOOSE i \in at : \A j \in at : i =< j
    BY Zenon DEF First
  <1>2. \A i : i \in at <=> Found(s, W, i)
    BY DEF Found, IsWord
  <1>3. at \subseteq Nat
    BY LenProperties
  <1> HIDE DEF at
  <1>4. CASE at = {}
    BY <1>1, <1>2, <1>4
  <1>5. CASE at # {}
    <2>1. First(s, W) \in at /\ \A j \in at : First(s, W) =< j
      BY <1>1, <1>3, <1>5, Least, Zenon
    <2> QED
      BY <1>2, <2>1, Zenon
  <1> QED
    BY <1>4, <1>5

\* The rest of a sequence after a position.
LEMMA AfterIs ==
  ASSUME NEW X, NEW s \in Seq(X), NEW g \in 0 .. Len(s)
  PROVE  /\ After(s, g) \in Seq(X) /\ Len(After(s, g)) = Len(s) - g
         /\ \A k \in 1 .. Len(s) - g : After(s, g)[k] = s[g + k]
PROOF
  <1>1. g + 1 \in Int /\ Len(s) \in Nat /\ 1 =< g + 1 /\ g \in Nat
    BY LenProperties
  <1> DEFINE a == g + 1
  <1>2. /\ SubSeq(s, a, Len(s)) \in Seq(X)
        /\ Len(SubSeq(s, a, Len(s))) = IF a =< Len(s) THEN Len(s) - a + 1 ELSE 0
        /\ \A k \in 1 .. Len(s) - a + 1 : SubSeq(s, a, Len(s))[k] = s[a + k - 1]
    BY <1>1, SliceType
  <1>3. \A k \in 1 .. Len(s) - g : k \in 1 .. Len(s) - a + 1 /\ a + k - 1 = g + k
    BY <1>1
  <1>4. (IF a =< Len(s) THEN Len(s) - a + 1 ELSE 0) = Len(s) - g
    BY <1>1
  <1> HIDE DEF a
  <1> QED
    BY <1>2, <1>3, <1>4, Zenon DEF After, a

\* Found in the rest of a statement.
LEMMA FoundAfter ==
  ASSUME NEW X, NEW s \in Seq(X), NEW g \in 0 .. Len(s), NEW W, NEW k \in Int
  PROVE  Found(After(s, g), W, k) <=> k >= 2 /\ Found(s, W, g + k)
PROOF
  <1> DEFINE u == After(s, g)
  <1>1. Len(s) \in Nat /\ Len(u) = Len(s) - g /\ \A j \in 1 .. Len(s) - g : u[j] = s[g + j]
    BY AfterIs, LenProperties
  <1> HIDE DEF u
  <1>2. CASE k \in 2 .. Len(u) - 1
    <2>1. u[k] = s[g + k] /\ u[k - 1] = s[g + k - 1] /\ u[k + 1] = s[g + k + 1]
      <3>1. k \in 1 .. Len(s) - g /\ k - 1 \in 1 .. Len(s) - g /\ k + 1 \in 1 .. Len(s) - g
            /\ g + (k - 1) = g + k - 1 /\ g + (k + 1) = g + k + 1
        BY <1>1, <1>2
      <3>2. u[k] = s[g + k] /\ u[k - 1] = s[g + (k - 1)] /\ u[k + 1] = s[g + (k + 1)]
        BY <1>1, <3>1, Zenon
      <3> QED
        BY <3>1, <3>2
    <2>2. g + k \in 2 .. Len(s) - 1 /\ k >= 2
      BY <1>1, <1>2
    <2>3. Found(u, W, k) <=> Found(s, W, g + k)
      BY <1>2, <2>1, <2>2 DEF Found
    <2> QED
      BY <2>2, <2>3 DEF u
  <1>3. CASE ~ (k \in 2 .. Len(u) - 1)
    <2>1. ~ (k >= 2 /\ g + k \in 2 .. Len(s) - 1)
      BY <1>1, <1>3
    <2> QED
      BY <1>3, <2>1, Zenon DEF Found, u
  <1> QED
    BY <1>2, <1>3

\* Where the parser finds FROM.
LEMMA FromFound ==
  ASSUME NEW s, Statement(s), PlainClauses(s)
  PROVE  /\ First(s, {"FROM"}) = FirstFrom(s) /\ FirstFrom(s) \in 3 .. Len(s) - 1 /\ Len(s) \in Nat
         /\ s[FirstFrom(s)] = Kw("FROM") /\ \A i \in 1 .. FirstFrom(s) - 1 : s[i] # Kw("FROM")
PROOF
  <1> DEFINE X == ToSet(s)
             at == {i \in DOMAIN s : IsFrom(s, i)}
             g == FirstFrom(s)
  <1>1. s \in Seq(X) /\ Len(s) \in Nat /\ DOMAIN s = 1 .. Len(s)
    BY LenProperties DEF Statement
  <1>2. at # {} /\ at \subseteq Nat
    BY <1>1 DEF PlainClauses
  <1>3. \E i \in at : \A j \in at : i =< j
    BY <1>2, Least, Zenon
  <1>4. \E i \in DOMAIN s : IsFrom(s, i) /\ \A j \in 1 .. i - 1 : ~IsFrom(s, j)
    <2>1. PICK i \in at : \A j \in at : i =< j
      BY <1>3
    <2>2. \A j \in 1 .. i - 1 : ~IsFrom(s, j)
      BY <1>1, <2>1
    <2> QED
      BY <2>1, <2>2
  <1>5. g \in DOMAIN s /\ IsFrom(s, g) /\ \A j \in 1 .. g - 1 : ~IsFrom(s, j)
    BY <1>4, Zenon DEF FirstFrom
  <1>6. g \in 3 .. Len(s) - 1 /\ s[g - 1] # Line /\ s[g + 1] # Line
    BY DEF PlainClauses
  <1> HIDE DEF g
  <1>7. \A i \in 1 .. g - 1 : s[i] # Kw("FROM")
    BY <1>1, <1>5, <1>6 DEF IsFrom
  <1>8. s[g] = Kw("FROM")
    BY <1>5 DEF IsFrom
  <1>9. Found(s, {"FROM"}, g)
    BY <1>1, <1>6, <1>8 DEF Found, IsWord, Kw
  <1>10. \A i : Found(s, {"FROM"}, i) => g =< i
    <2> SUFFICES ASSUME NEW i, Found(s, {"FROM"}, i) PROVE g =< i
      OBVIOUS
    <2>1. i \in 2 .. Len(s) - 1 /\ s[i] = Kw("FROM")
      BY <1>1 DEF Found, IsWord, Statement
    <2> QED
      BY <1>1, <1>6, <1>7, <2>1
  <1>11. First(s, {"FROM"}) = g
    <2>1. Found(s, {"FROM"}, First(s, {"FROM"})) /\ First(s, {"FROM"}) =< g
      BY <1>1, <1>9, FirstIs
    <2>2. g =< First(s, {"FROM"}) /\ First(s, {"FROM"}) \in 2 .. Len(s) - 1
      BY <1>10, <2>1 DEF Found
    <2> QED
      BY <1>6, <2>1, <2>2
  <1> QED
    BY <1>1, <1>6, <1>7, <1>8, <1>11 DEF g

\* A slice of which Trim leaves one token.
LEMMA TrimOne ==
  ASSUME NEW X, NEW s \in Seq(X), NEW a \in Int, NEW b \in Int, 1 =< a, a =< b + 1, b =< Len(s),
         NEW t, Trim(SubSeq(s, a, b)) = <<t>>
  PROVE  \E m \in a .. b : s[m] = t /\ t # Line /\ \A i \in a .. b : i = m \/ s[i] = Line
PROOF
  <1>0. PICK m, n \in Int : Trims(s, a, b, m, n) /\ Trim(SubSeq(s, a, b)) = SubSeq(s, m, n)
    BY TrimSlice, Zenon
  <1>1. Trims(s, a, b, m, n) /\ <<t>> = SubSeq(s, m, n)
    BY <1>0, Zenon
  <1>2. 1 =< m /\ n =< Len(s)
    BY <1>1, LenProperties DEF Trims
  <1>3. Len(SubSeq(s, m, n)) = (IF m =< n THEN n - m + 1 ELSE 0)
        /\ \A i \in 1 .. n - m + 1 : SubSeq(s, m, n)[i] = s[m + i - 1]
    BY <1>2, SliceType
  <1>4. Len(<<t>>) = 1 /\ <<t>>[1] = t
    OBVIOUS
  <1>5. n = m /\ t = s[m]
    <2>1. (IF m =< n THEN n - m + 1 ELSE 0) = 1
      BY <1>1, <1>3, <1>4, Zenon
    <2>2. n = m /\ 1 \in 1 .. n - m + 1 /\ m + 1 - 1 = m
      BY <2>1
    <2>3. SubSeq(s, m, n)[1] = s[m + 1 - 1]
      BY <1>3, <2>2, Zenon
    <2>4. SubSeq(s, m, n)[1] = t
      BY <1>1, <1>4, Zenon
    <2> QED
      BY <2>2, <2>3, <2>4, Zenon
  <1>6. m \in a .. b /\ s[m] # Line /\ \A i \in a .. b : i = m \/ s[i] = Line
    BY <1>1, <1>5 DEF Trims
  <1> QED
    BY <1>5, <1>6, Zenon

\* A slice of which Trim leaves nothing.
LEMMA TrimEmpty ==
  ASSUME NEW X, NEW s \in Seq(X), NEW a \in Int, NEW b \in Int, 1 =< a, a =< b + 1, b =< Len(s)
  PROVE  Trim(SubSeq(s, a, b)) = <<>> <=> \A i \in a .. b : s[i] = Line
PROOF
  <1>1. PICK m, n \in Int : Trims(s, a, b, m, n) /\ Trim(SubSeq(s, a, b)) = SubSeq(s, m, n)
    BY TrimSlice, Zenon
  <1>2. 1 =< m /\ n =< Len(s)
    BY <1>1, LenProperties DEF Trims
  <1>3. CASE m =< n
    <2>1. Len(SubSeq(s, m, n)) = n - m + 1 /\ Len(<<>>) = 0
      BY <1>2, <1>3, SliceType
    <2>2. n - m + 1 # 0
      BY <1>3
    <2>3. Trim(SubSeq(s, a, b)) # <<>>
      BY <1>1, <2>1, <2>2, Zenon
    <2>4. m \in a .. b /\ s[m] # Line
      BY <1>1, <1>3 DEF Trims
    <2> QED
      BY <2>3, <2>4, Zenon
  <1>4. CASE ~ (m =< n)
    <2>1. SubSeq(s, m, n) = <<>>
      BY <1>4, SubSeqEmpty
    <2>2. \A i \in a .. b : s[i] = Line
      BY <1>1, <1>4 DEF Trims
    <2> QED
      BY <1>1, <2>1, <2>2, Zenon
  <1> QED
    BY <1>3, <1>4

\* A part of the rest, up to a word found there or to the end.
LEMMA BeforeIs ==
  ASSUME NEW X, NEW s \in Seq(X), NEW g \in 0 .. Len(s), NEW e \in 0 .. Len(s) - g
  PROVE  Before(After(s, g), e) = SubSeq(s, g + 1, IF e = 0 THEN Len(s) ELSE g + e - 1)
PROOF
  <1>0. Len(s) \in Nat /\ g \in Nat /\ e \in Nat
    BY LenProperties
  <1>1. CASE e = 0
    BY <1>1, Zenon DEF Before, After
  <1>2. CASE e # 0
    <2> DEFINE u == After(s, g)
               v == SubSeq(s, g + 1, g + e - 1)
               w == SubSeq(u, 1, e - 1)
    <2>1. u \in Seq(X) /\ Len(u) = Len(s) - g /\ \A k \in 1 .. Len(s) - g : u[k] = s[g + k]
      BY AfterIs
    <2> HIDE DEF u
    <2>2. w \in Seq(X) /\ Len(w) = e - 1 /\ \A k \in 1 .. e - 1 : w[k] = u[k]
      <3>1. e - 1 \in Int /\ e - 1 =< Len(u) /\ (IF 1 =< e - 1 THEN (e - 1) - 1 + 1 ELSE 0) = e - 1
            /\ \A k \in 1 .. e - 1 : k \in 1 .. (e - 1) - 1 + 1 /\ 1 + k - 1 = k
        BY <1>0, <1>2, <2>1
      <3>2. w \in Seq(X) /\ Len(w) = (IF 1 =< e - 1 THEN (e - 1) - 1 + 1 ELSE 0)
            /\ \A k \in 1 .. (e - 1) - 1 + 1 : w[k] = u[1 + k - 1]
        BY <2>1, <3>1, SliceType
      <3> HIDE DEF w
      <3> DEFINE n == Len(w)
      <3>3. n = (IF 1 =< e - 1 THEN (e - 1) - 1 + 1 ELSE 0)
        BY <3>2, Zenon
      <3> HIDE DEF n
      <3>4. n = e - 1
        BY <3>1, <3>3
      <3>5. ASSUME NEW k \in 1 .. e - 1 PROVE w[k] = u[k]
        <4>1. w[k] = u[1 + k - 1]
          BY <3>1, <3>2, Zenon
        <4> QED
          BY <3>1, <4>1
      <3> QED
        BY <3>2, <3>4, <3>5, Zenon DEF n
    <2>3. v \in Seq(X) /\ Len(v) = e - 1 /\ \A k \in 1 .. e - 1 : v[k] = s[g + k]
      <3> DEFINE a == g + 1
                 b == g + e - 1
      <3>1. a \in Int /\ b \in Int /\ 1 =< a /\ b =< Len(s) /\ (IF a =< b THEN b - a + 1 ELSE 0) = e - 1
            /\ \A k \in 1 .. e - 1 : k \in 1 .. b - a + 1 /\ a + k - 1 = g + k
        BY <1>0, <1>2
      <3> HIDE DEF a, b
      <3>2. SubSeq(s, a, b) \in Seq(X) /\ Len(SubSeq(s, a, b)) = (IF a =< b THEN b - a + 1 ELSE 0)
            /\ \A k \in 1 .. b - a + 1 : SubSeq(s, a, b)[k] = s[a + k - 1]
        BY <3>1, SliceType
      <3>3. SubSeq(s, a, b) \in Seq(X) /\ Len(SubSeq(s, a, b)) = e - 1
        <4> DEFINE n == Len(SubSeq(s, a, b))
        <4>1. n = (IF a =< b THEN b - a + 1 ELSE 0)
          BY <3>2, Zenon
        <4> HIDE DEF n
        <4>2. n = e - 1
          BY <3>1, <4>1
        <4> QED
          BY <3>2, <4>2, Zenon DEF n
      <3>4. ASSUME NEW k \in 1 .. e - 1 PROVE SubSeq(s, a, b)[k] = s[g + k]
        <4>1. SubSeq(s, a, b)[k] = s[a + k - 1]
          BY <3>1, <3>2, Zenon
        <4> QED
          BY <3>1, <4>1
      <3> QED
        BY <3>3, <3>4 DEF a, b
    <2> HIDE DEF v, w
    <2>4. \A k \in 1 .. e - 1 : w[k] = v[k]
      <3>1. \A k \in 1 .. e - 1 : k \in 1 .. Len(s) - g
        BY <1>0
      <3> QED
        BY <2>1, <2>2, <2>3, <3>1, Zenon
    <2>5. w = v
      BY <2>2, <2>3, <2>4, SeqEqual
    <2> QED
      BY <1>2, <2>5, Zenon DEF Before, u, v, w
  <1> QED
    BY <1>1, <1>2

\* The rest of the rest.
LEMMA AfterAfter ==
  ASSUME NEW X, NEW s \in Seq(X), NEW g \in 0 .. Len(s), NEW e \in 0 .. Len(s) - g
  PROVE  After(After(s, g), e) = After(s, g + e)
PROOF
  <1> DEFINE u == After(s, g)
             v == After(u, e)
             w == After(s, g + e)
  <1>0. Len(s) \in Nat /\ g \in Nat /\ e \in Nat /\ g + e \in 0 .. Len(s)
    BY LenProperties
  <1>1. u \in Seq(X) /\ Len(u) = Len(s) - g /\ \A k \in 1 .. Len(s) - g : u[k] = s[g + k]
    BY AfterIs
  <1> HIDE DEF u
  <1>2. v \in Seq(X) /\ Len(v) = Len(u) - e /\ \A k \in 1 .. Len(u) - e : v[k] = u[e + k]
    <2>1. e \in 0 .. Len(u)
      BY <1>1
    <2> QED
      BY <1>1, <2>1, AfterIs, ZenonT(30)
  <1>3. w \in Seq(X) /\ Len(w) = Len(s) - (g + e) /\ \A k \in 1 .. Len(s) - (g + e) : w[k] = s[g + e + k]
    BY <1>0, AfterIs, Zenon
  <1> HIDE DEF v, w
  <1>4. Len(v) = Len(w)
    BY <1>0, <1>1, <1>2, <1>3
  <1>5. \A k \in 1 .. Len(v) : v[k] = w[k]
    <2> SUFFICES ASSUME NEW k \in 1 .. Len(v) PROVE v[k] = w[k]
      OBVIOUS
    <2>1. k \in 1 .. Len(u) - e /\ e + k \in 1 .. Len(s) - g /\ k \in 1 .. Len(s) - (g + e) /\ g + (e + k) = g + e + k
      BY <1>0, <1>1, <1>2
    <2>2. v[k] = u[e + k] /\ u[e + k] = s[g + (e + k)] /\ w[k] = s[g + e + k]
      BY <1>1, <1>2, <1>3, <2>1, Zenon
    <2> QED
      BY <2>1, <2>2
  <1>6. v = w
    BY <1>2, <1>3, <1>4, <1>5, SeqEqual
  <1> QED
    BY <1>6 DEF u, v, w

-----------------------------------------------------------------------------
(* The clauses after the select list. *)

\* What the proofs take for the set of all tokens.
Tokens(X) == /\ {Comma, TableName, Name(RowID), Kw("SELECT"), Kw("FROM"), Kw("WHERE")} \subseteq X
             /\ \A t \in X : Read(t) \in X

LEMMA PairConcat ==
  ASSUME NEW t, NEW u
  PROVE  <<t>> \o <<u>> = <<t, u>>
PROOF
  <1> DEFINE X == {t, u}
  <1>1. t \in X /\ u \in X
    OBVIOUS
  <1> HIDE DEF X
  <1>2. <<t>> \in Seq(X) /\ <<u>> \in Seq(X) /\ <<t, u>> \in Seq(X)
    BY <1>1
  <1>3. Len(<<t>>) = 1 /\ Len(<<u>>) = 1 /\ Len(<<t, u>>) = 2
    OBVIOUS
  <1> DEFINE v == <<t>> \o <<u>>
  <1>4. /\ v \in Seq(X) /\ Len(v) = Len(<<t>>) + Len(<<u>>)
        /\ \A i \in 1 .. Len(<<t>>) + Len(<<u>>) :
             v[i] = IF i =< Len(<<t>>) THEN <<t>>[i] ELSE <<u>>[i - Len(<<t>>)]
    BY <1>2, ConcatProperties, Zenon
  <1> HIDE DEF v
  <1>5. Len(v) = 2 /\ v[1] = t /\ v[2] = u
    BY <1>3, <1>4
  <1>6. v = <<t, u>>
    BY <1>2, <1>3, <1>4, <1>5, SeqEqual
  <1> QED
    BY <1>6 DEF v

LEMMA PairOneLine == OneLine(<<Kw("FROM"), TableName>>) = <<Kw("FROM"), TableName>>
PROOF
  <1> DEFINE X == {Kw("FROM"), TableName}
             a == <<Kw("FROM")>>
             b == <<TableName>>
  <1>1. a \in Seq(X) /\ b \in Seq(X) /\ a \o b = <<Kw("FROM"), TableName>>
    <2>1. \A Y : \A t \in Y : <<t>> \in Seq(Y)
      OBVIOUS
    <2>3. Kw("FROM") \in X /\ TableName \in X
      OBVIOUS
    <2> HIDE DEF X
    <2> QED
      BY <2>1, <2>3, PairConcat, Zenon
  <1>2. Kw("FROM") # Line /\ TableName # Line
    BY DEF Kw, TableName, Name, Line, Sym
  <1>3. OneLine(a) = a /\ OneLine(b) = b
    BY <1>2, OneLineOne, Zenon
  <1> HIDE DEF a, b, X
  <1>4. OneLine(a \o b) = OneLine(a) \o OneLine(b)
    BY <1>1, OneLineConcat, Zenon
  <1> QED
    BY <1>1, <1>3, <1>4, Zenon

\* The query that ParseSelect makes, with g for the first FROM.
LEMMA SelectIs ==
  ASSUME NEW s, Statement(s), PlainClauses(s)
  PROVE  LET g == FirstFrom(s)
             q == ParseSelect(s)
             after == After(s, g)
             where == First(after, {"WHERE"})
             rest == After(after, where)
             list == SubSeq(s, 2, g - 1)
         IN /\ q.type = "SELECT"
            /\ q.all = (Trim(list) = <<Star>>)
            /\ q.columns = (IF Trim(list) = <<Star>> THEN <<>> ELSE ParseColumnList(list))
            /\ q.table = Trim(Before(after, First(after, TableEnds)))
            /\ q.where = (IF where = 0 THEN <<>>
                          ELSE Trim(Before(rest, First(rest, TableEnds \ {"WHERE"}))))
PROOF
  <1>1. First(s, {"FROM"}) = FirstFrom(s) /\ FirstFrom(s) # 0 /\ FirstFrom(s) # 2
    BY FromFound
  <1> QED
    BY <1>1 DEF ParseSelect

\* The clauses that Translate puts after the columns.
WhereClause(s) ==
  LET q == ParseSelect(s)
  IN IF q.where = <<>> THEN <<>> ELSE <<Kw("WHERE")>> \o TranslateColumnRefs(q.where)
TrailingClauses(s) == TranslateColumnRefs(ExtractTrailingClauses(s))
Clauses(s) == <<Kw("FROM"), TableName>> \o WhereClause(s) \o TrailingClauses(s)

\* A word of a statement that is in a string or a name is none.
LEMMA WordIs ==
  ASSUME NEW s, Statement(s), NEW i \in DOMAIN s, NEW W, IsWord(s[i], W)
  PROVE  \E w \in W : s[i] = Kw(w)
BY DEF Statement, IsWord

\* Neither a line break nor the table is a word.
LEMMA NoWord == \A W : ~IsWord(Line, W) /\ ~IsWord(TableName, W)
BY DEF IsWord, Line, Sym, TableName, Name

\* Nothing of the clauses is lost, doubled or moved.
LEMMA ClausesRead ==
  ASSUME NEW X, NEW s \in Seq(X), Tokens(X), Statement(s), PlainWords(s), PlainClauses(s),
         ParseSelect(s).table = <<TableName>>
  PROVE  /\ WhereClause(s) \in Seq(X) /\ TrailingClauses(s) \in Seq(X) /\ Clauses(s) \in Seq(X)
         /\ OneLine(Clauses(s)) = Span(Reads(s), FirstFrom(s), Len(s))
PROOF
  <1> DEFINE g == FirstFrom(s)
             F == Reads(s)
             after == After(s, g)
             e == First(after, TableEnds)
             end == IF e = 0 THEN Len(s) ELSE g + e - 1
             j == First(s, Trailing)
             wh == First(after, {"WHERE"})
             q == ParseSelect(s)
             where == IF q.where = <<>> THEN <<>> ELSE <<Kw("WHERE")>> \o TranslateColumnRefs(q.where)
             trailing == TranslateColumnRefs(ExtractTrailingClauses(s))
  <1>g. /\ g \in 3 .. Len(s) - 1 /\ Len(s) \in Nat /\ s[g] = Kw("FROM") /\ DOMAIN s = 1 .. Len(s)
        /\ \A i \in 1 .. g : ~IsWord(s[i], TableEnds)
    BY FromFound, LenProperties DEF PlainClauses
  <1>0. g \in 3 .. Len(s) - 1 /\ Len(s) \in Nat /\ g \in 0 .. Len(s) /\ g \in Nat
    BY <1>g
  <1>q. /\ q.table = Trim(Before(after, e)) /\ Trim(Before(after, e)) = <<TableName>>
        /\ q.where = (IF wh = 0 THEN <<>>
                      ELSE Trim(Before(After(after, wh), First(After(after, wh), TableEnds \ {"WHERE"}))))
    BY SelectIs, Zenon
  <1>f. /\ NoQuotedRef(s) /\ \A t \in X : Read(t) \in X
        /\ F \in Seq(Seq(X)) /\ Len(F) = Len(s)
        /\ \A i \in 1 .. Len(s) : F[i] = IF s[i] = Line THEN <<>> ELSE <<Read(s[i])>>
    <2>1. NoQuotedRef(s) /\ \A t \in X : Read(t) \in X
      BY DEF NoQuotedRef, PlainWords, Tokens
    <2> QED
      BY <2>1, ReadsType
  <1>a. after \in Seq(X) /\ Len(after) = Len(s) - g
    BY <1>0, AfterIs, Zenon
  <1> HIDE DEF g, F, after, e, j, wh, q
  <1>e. \/ e = 0 /\ \A i : ~Found(after, TableEnds, i)
        \/ Found(after, TableEnds, e) /\ \A i : Found(after, TableEnds, i) => e =< i
    BY <1>a, FirstIs, Zenon DEF e
  <1>1. /\ e \in 0 .. Len(s) - g /\ end \in g + 1 .. Len(s) /\ end \in Nat
        /\ e # 0 => e >= 2 /\ g + e =< Len(s) - 1 /\ g + e = end + 1
        /\ e = 0 => end = Len(s)
    <2>1. e = 0 \/ e \in 2 .. Len(s) - g - 1
      BY <1>a, <1>e, Zenon DEF Found
    <2>2. e = 0 => end = Len(s)
      BY Zenon
    <2>3. e # 0 => end = g + e - 1
      BY Zenon
    <2> HIDE DEF end
    <2> QED
      BY <1>0, <2>1, <2>2, <2>3
  <1> HIDE DEF e, end
  <1>2. PICK m \in g + 1 .. end : s[m] = TableName /\ \A i \in g + 1 .. end : i = m \/ s[i] = Line
    <2>1. Trim(SubSeq(s, g + 1, end)) = <<TableName>>
      <3>1. Before(After(s, g), e) = SubSeq(s, g + 1, end)
        BY <1>0, <1>1, BeforeIs, Zenon DEF end
      <3>2. Trim(Before(After(s, g), e)) = <<TableName>>
        BY <1>q, Zenon DEF after
      <3> QED
        BY <3>1, <3>2, Zenon
    <2>2. g + 1 \in Int /\ end \in Int /\ 1 =< g + 1 /\ g + 1 =< end + 1 /\ end =< Len(s)
      BY <1>0, <1>1
    <2>3. \E m \in g + 1 .. end : /\ s[m] = TableName /\ TableName # Line
                                  /\ \A i \in g + 1 .. end : i = m \/ s[i] = Line
      BY <2>1, <2>2, TrimOne
    <2> QED
      BY <2>3, Zenon
  <1>3. Span(F, g, end) = <<Kw("FROM"), TableName>>
    <2>0. /\ g \in 1 .. Len(s) /\ m \in 1 .. Len(s) /\ g + 1 \in Int /\ end \in Int /\ 1 =< g + 1
          /\ end =< Len(F) /\ g \in 1 .. Len(F) /\ g \in 1 .. Len(F) + 1 /\ g \in g - 1 .. Len(F) /\ end \in g .. Len(F)
          /\ \A i \in g + 1 .. end : i \in 1 .. Len(s)
      <3>1. m \in g + 1 .. end /\ Len(F) = Len(s)
        BY <1>2, <1>f
      <3> QED
        BY <1>0, <1>1, <3>1
    <2>1. F[g] = <<Kw("FROM")>>
      <3>1. Read(Kw("FROM")) = Kw("FROM") /\ Kw("FROM") # Line
        BY DEF Read, Kw, Line, Sym
      <3> QED
        BY <1>g, <1>f, <2>0, <3>1, Zenon
    <2>2. Span(F, g + 1, end) = F[m]
      <3>2. \A i \in g + 1 .. end : i = m \/ F[i] = <<>>
        BY <1>2, <1>f, <2>0, Zenon
      <3> QED
        BY <1>2, <1>f, <2>0, <3>2, SpanSingle, Zenon
    <2>3. F[m] = <<TableName>>
      <3>1. Read(TableName) = TableName /\ TableName # Line
        BY DEF Read, TableName, Name, Line, Sym
      <3> QED
        BY <1>2, <1>f, <2>0, <3>1, Zenon
    <2>4. Span(F, g, g) = F[g]
      BY <1>f, <2>0, SpanOne, Zenon
    <2>5. Span(F, g, end) = Span(F, g, g) \o Span(F, g + 1, end)
      BY <1>f, <2>0, SpanSplit, Zenon
    <2> QED
      BY <2>1, <2>2, <2>3, <2>4, <2>5, PairConcat, Zenon
  \* No word is before the end of the table's name.
  <1>4. \A i \in 1 .. end : ~IsWord(s[i], TableEnds)
    <2> SUFFICES ASSUME NEW i \in 1 .. end PROVE ~IsWord(s[i], TableEnds)
      OBVIOUS
    <2>1. CASE i \in 1 .. g
      BY <1>g, <2>1
    <2>2. CASE i \in g + 1 .. end
      BY <1>2, <2>2, NoWord
    <2> QED
      BY <1>0, <2>1, <2>2
  <1>5. \A W \in SUBSET TableEnds : \A i : Found(s, W, i) => i > end
    <2> SUFFICES ASSUME NEW W \in SUBSET TableEnds, NEW i, Found(s, W, i), ~ (i > end) PROVE FALSE
      OBVIOUS
    <2>1. i \in 1 .. end /\ IsWord(s[i], TableEnds)
      <3>1. i \in 2 .. Len(s) - 1 /\ IsWord(s[i], W)
        BY Zenon DEF Found
      <3>2. i \in 1 .. end
        BY <1>0, <1>1, <3>1
      <3> QED
        BY <3>1, <3>2, Zenon DEF IsWord
    <2> QED
      BY <1>4, <2>1
  <1>6. {"WHERE"} \in SUBSET TableEnds /\ Trailing \in SUBSET TableEnds
    BY DEF TableEnds
  <1>j. \/ j = 0 /\ \A i : ~Found(s, Trailing, i)
        \/ Found(s, Trailing, j) /\ \A i : Found(s, Trailing, i) => j =< i
    BY FirstIs, Zenon DEF j
  <1>w. \/ wh = 0 /\ \A i : ~Found(after, {"WHERE"}, i)
        \/ Found(after, {"WHERE"}, wh) /\ \A i : Found(after, {"WHERE"}, i) => wh =< i
    BY <1>a, FirstIs, Zenon DEF wh
  \* Where the WHERE clause ends, and the others begin.
  <1>7. \E w \in end .. Len(s) :
          /\ where \in Seq(X) /\ OneLine(where) = Span(F, end + 1, w)
          /\ trailing \in Seq(X) /\ OneLine(trailing) = Span(F, w + 1, Len(s))
    <2>1. TranslateColumnRefs(<<>>) = <<>> /\ <<>> \in Seq(X)
      BY EmptySeq DEF TranslateColumnRefs
    <2>2. \A k \in Int : \A W \in SUBSET TableEnds :
            Found(after, W, k) => Found(s, W, g + k) /\ g + k > end
      BY <1>0, <1>5, FoundAfter, Zenon DEF after
    <2>3. CASE e = 0
      <3>1. end = Len(s)
        BY <1>1, <2>3
      <3>2. wh = 0
        <4>1. \A i : ~Found(after, TableEnds, i)
          BY <1>e, <2>3 DEF Found
        <4>2. \A i : Found(after, {"WHERE"}, i) => Found(after, TableEnds, i)
          BY DEF Found, IsWord, TableEnds
        <4> QED
          BY <1>w, <4>1, <4>2, Zenon
      <3>3. j = 0
        <4>1. \A i : ~Found(s, Trailing, i)
          <5> SUFFICES ASSUME NEW i, Found(s, Trailing, i) PROVE FALSE
            OBVIOUS
          <5>1. i > Len(s)
            BY <1>5, <1>6, <3>1, Zenon
          <5>2. i \in 2 .. Len(s) - 1
            BY Zenon DEF Found
          <5> QED
            BY <1>0, <5>1, <5>2
        <4> QED
          BY <1>j, <4>1, Zenon
      <3>4. where = <<>> /\ trailing = <<>>
        BY <1>q, <2>1, <3>2, <3>3, Zenon DEF ExtractTrailingClauses, j
      <3>5. Span(F, end + 1, end) = <<>> /\ Span(F, end + 1, Len(s)) = <<>>
        BY <1>0, <1>1, <3>1, SpanEmpty
      <3> QED
        BY <1>1, <2>1, <3>1, <3>4, <3>5, OneLineEmpty
    <2> DEFINE p == end + 1
    <2>6. ASSUME e # 0
          PROVE  /\ p = g + e /\ p \in g + 2 .. Len(s) - 1 /\ p \in DOMAIN s /\ e \in Int /\ e \in 0 .. Len(s) - g
                 /\ Found(s, TableEnds, p) /\ Found(after, TableEnds, e)
      <3>1. Found(after, TableEnds, e)
        BY <1>e, <2>6, Zenon
      <3>2. p = g + e /\ e \in Int
        BY <1>0, <1>1, <2>6
      <3>3. Found(s, TableEnds, p)
        BY <1>0, <3>1, <3>2, FoundAfter, Zenon DEF after
      <3>4. p \in g + 2 .. Len(s) - 1 /\ p \in 1 .. Len(s)
        BY <1>0, <1>1, <2>6, <3>2
      <3> QED
        BY <1>g, <1>1, <3>1, <3>2, <3>3, <3>4, Zenon
    <2>4. CASE e # 0 /\ s[p] # Kw("WHERE")
      \* The table's name ends before a trailing clause, and no WHERE follows.
      <3> HIDE DEF p
      <3>1. IsWord(s[p], Trailing) /\ Found(s, Trailing, p)
        <4>1. Found(s, TableEnds, p) /\ p \in DOMAIN s
          BY <2>4, <2>6, Zenon
        <4>2. IsWord(s[p], TableEnds)
          BY <4>1, Zenon DEF Found
        <4>3. PICK x \in TableEnds : s[p] = Kw(x)
          BY <4>1, <4>2, WordIs, Zenon
        <4>4. x # "UNION"
          BY <4>1, <4>3 DEF PlainWords, IsWord, Kw
        <4>5. x \in Trailing
          BY <2>4, <4>3, <4>4 DEF TableEnds
        <4>6. IsWord(s[p], Trailing)
          BY <4>3, <4>5 DEF IsWord, Kw
        <4> QED
          BY <4>1, <4>6, Zenon DEF Found
      <3>2. j = p
        <4>1. Found(s, Trailing, j) /\ j =< p
          BY <1>j, <3>1, Zenon
        <4>2. j > end
          BY <1>5, <1>6, <4>1, Zenon
        <4>3. j \in 2 .. Len(s) - 1
          BY <4>1, Zenon DEF Found
        <4> QED
          BY <1>0, <1>1, <4>1, <4>2, <4>3 DEF p
      <3>3. wh = 0
        <4> SUFFICES ASSUME Found(after, {"WHERE"}, wh) PROVE FALSE
          BY <1>w, Zenon
        <4> DEFINE k == g + wh
        <4>0. wh \in 2 .. Len(after) - 1
          BY Zenon DEF Found
        <4>1. wh \in Int
          BY <4>0
        <4>2. Found(s, {"WHERE"}, k) /\ k > end
          BY <1>6, <2>2, <4>1, Zenon
        <4> HIDE DEF k
        <4>3. k \in 2 .. Len(s) - 1 /\ IsWord(s[k], {"WHERE"})
          BY <4>2, Zenon DEF Found
        <4>4. k \in DOMAIN s
          BY <1>0, <1>g, <4>3
        <4>5. s[k] = Kw("WHERE")
          <5>1. s[k][1] = "kw" /\ s[k][2] = "WHERE"
            BY <4>3 DEF IsWord
          <5>2. s[k] = Kw(s[k][2])
            BY <4>4, <5>1 DEF Statement
          <5> QED
            BY <5>1, <5>2, Zenon
        <4>6. p < k /\ p \in DOMAIN s
          <5>1. p # k
            BY <2>4, <4>5
          <5> QED
            BY <1>0, <1>1, <2>4, <2>6, <4>2, <4>3, <5>1 DEF p
        <4>7. PICK l \in 1 .. p : s[l] = Kw("WHERE")
          BY <3>1, <4>4, <4>5, <4>6, Zenon DEF PlainClauses
        <4>8. l # p
          BY <2>4, <4>7
        <4>9. l \in 1 .. end
          BY <1>0, <1>1, <4>7, <4>8 DEF p
        <4>10. IsWord(s[l], TableEnds)
          BY <4>7 DEF IsWord, Kw, TableEnds
        <4> QED
          BY <1>4, <4>9, <4>10, Zenon
      <3>4. where = <<>>
        BY <1>q, <3>3, Zenon
      <3>5. trailing = TranslateColumnRefs(SubSeq(s, p, Len(s)))
        <4>1. j # 0 /\ (j - 1) + 1 = p
          BY <1>0, <1>1, <3>2 DEF p
        <4> QED
          BY <4>1, Zenon DEF ExtractTrailingClauses, After, j
      <3>6. trailing \in Seq(X) /\ OneLine(trailing) = Span(F, p, Len(s))
        <4>1. p \in Int /\ Len(s) \in Int /\ 1 =< p /\ Len(s) =< Len(s)
          BY <1>0, <1>1 DEF p
        <4> HIDE DEF trailing
        <4> QED
          BY <1>f, <3>5, <4>1, SliceReads, Zenon DEF F
      <3>7. Span(F, end + 1, end) = <<>>
        BY <1>1, SpanEmpty
      <3>8. end \in end .. Len(s)
        BY <1>0, <1>1
      <3> HIDE DEF trailing
      <3> QED
        BY <2>1, <3>4, <3>6, <3>7, <3>8, OneLineEmpty, Zenon DEF p
    <2>5. CASE e # 0 /\ s[p] = Kw("WHERE")
      \* WHERE ends the table's name, and its text ends at a trailing clause.
      <3> HIDE DEF p
      <3>0. /\ p = g + e /\ p = end + 1 /\ p \in g + 2 .. Len(s) - 1 /\ p \in DOMAIN s /\ e \in Int
            /\ e \in 0 .. Len(s) - g /\ p \in 0 .. Len(s) /\ p \in Nat
        BY <1>0, <2>5, <2>6 DEF p
      <3>1. s[p + 1] # Line /\ ~IsWord(s[p + 1], Trailing) /\ p + 1 \in 1 .. Len(s)
        <4>1. Found(s, TableEnds, p)
          BY <2>5, <2>6, Zenon
        <4>2. p + 1 \in 2 .. Len(s) /\ (p + 1) - 1 = p
          BY <1>0, <3>0
        <4>3. s[(p + 1) - 1] = Kw("WHERE")
          BY <2>5, <4>2
        <4>4. ~IsWord(s[p + 1], Trailing)
          BY <4>2, <4>3, Zenon DEF PlainClauses
        <4> QED
          BY <4>1, <4>2, <4>4 DEF Found
      <3>2. wh = e
        <4>1. Found(after, {"WHERE"}, e)
          <5>1. Found(s, TableEnds, p)
            BY <2>5, <2>6, Zenon
          <5>2. IsWord(s[p], {"WHERE"})
            BY <2>5 DEF IsWord, Kw
          <5>3. Found(s, {"WHERE"}, g + e)
            BY <3>0, <5>1, <5>2, Zenon DEF Found
          <5>4. e >= 2
            BY <1>1, <2>5
          <5> QED
            BY <1>0, <3>0, <5>3, <5>4, FoundAfter, Zenon DEF after
        <4>2. Found(after, {"WHERE"}, wh) /\ wh =< e
          BY <1>w, <4>1, Zenon
        <4>3. Found(after, TableEnds, wh)
          BY <4>2 DEF Found, IsWord, TableEnds
        <4>4. e =< wh
          BY <1>e, <2>5, <4>3, Zenon
        <4>5. wh \in 2 .. Len(after) - 1
          BY <4>2, Zenon DEF Found
        <4> QED
          BY <3>0, <4>2, <4>4, <4>5
      <3> DEFINE rest == After(s, p)
                 f == First(rest, TableEnds \ {"WHERE"})
                 w == IF f = 0 THEN Len(s) ELSE p + f - 1
      <3>3. After(after, wh) = rest
        <4>1. After(After(s, g), e) = After(s, g + e)
          BY <1>0, <3>0, AfterAfter, Zenon
        <4> QED
          BY <3>0, <3>2, <4>1, Zenon DEF after
      <3>4. rest \in Seq(X) /\ Len(rest) = Len(s) - p
        BY <3>0, AfterIs, Zenon
      <3> HIDE DEF rest
      <3>5. \/ f = 0 /\ \A i : ~Found(rest, TableEnds \ {"WHERE"}, i)
            \/ Found(rest, TableEnds \ {"WHERE"}, f) /\ \A i : Found(rest, TableEnds \ {"WHERE"}, i) => f =< i
        BY <3>4, FirstIs, Zenon
      <3>6. \A k \in Int : Found(rest, TableEnds \ {"WHERE"}, k) <=> k >= 2 /\ Found(s, Trailing, p + k)
        <4>1. \A i \in DOMAIN s : IsWord(s[i], TableEnds \ {"WHERE"}) <=> IsWord(s[i], Trailing)
          BY DEF PlainWords, IsWord, TableEnds, Trailing
        <4>2. \A i : Found(s, TableEnds \ {"WHERE"}, i) <=> Found(s, Trailing, i)
          <5>1. \A i \in 2 .. Len(s) - 1 : i \in DOMAIN s
            BY <1>0, <1>g
          <5> QED
            BY <4>1, <5>1, Zenon DEF Found
        <4>3. \A k \in Int : Found(rest, TableEnds \ {"WHERE"}, k) <=> k >= 2 /\ Found(s, TableEnds \ {"WHERE"}, p + k)
          BY <3>0, FoundAfter, Zenon DEF rest
        <4> QED
          BY <4>2, <4>3, Zenon
      <3>7. \A i : Found(s, Trailing, i) => i \in Int /\ i - p >= 2 /\ Found(rest, TableEnds \ {"WHERE"}, i - p)
        <4> SUFFICES ASSUME NEW i, Found(s, Trailing, i)
                     PROVE  i \in Int /\ i - p >= 2 /\ Found(rest, TableEnds \ {"WHERE"}, i - p)
          OBVIOUS
        <4>1. i > end /\ i \in 2 .. Len(s) - 1 /\ IsWord(s[i], Trailing)
          BY <1>5, <1>6, Zenon DEF Found
        <4>2. i # p
          <5>1. ~IsWord(Kw("WHERE"), Trailing)
            BY DEF IsWord, Kw, Trailing
          <5> QED
            BY <2>5, <4>1, <5>1, Zenon
        <4>3. i # p + 1
          BY <3>1, <4>1
        <4>4. i \in Int /\ i - p >= 2 /\ i - p \in Int /\ p + (i - p) = i
          <5>1. end \in Int
            BY <1>0, <1>1
          <5>2. p \in Int /\ p = end + 1
            BY <3>0
          <5>3. i \in Int /\ i > end
            BY <4>1
          <5> HIDE DEF end
          <5> QED
            BY <4>2, <4>3, <5>1, <5>2, <5>3
        <4>5. Found(s, Trailing, p + (i - p))
          BY <4>4, Zenon
        <4> QED
          BY <3>6, <4>4, <4>5, Zenon
      <3>8. /\ (f = 0 /\ j = 0) \/ (f \in 2 .. Len(s) - p - 1 /\ j = p + f)
        <4>1. CASE f = 0
          <5>1. \A i : ~Found(rest, TableEnds \ {"WHERE"}, i)
            <6>1. ~Found(rest, TableEnds \ {"WHERE"}, 0)
              BY DEF Found
            <6> QED
              BY <3>5, <4>1, <6>1, Zenon
          <5>2. \A i : ~Found(s, Trailing, i)
            BY <3>7, <5>1, Zenon
          <5> QED
            BY <1>j, <4>1, <5>2, Zenon
        <4>2. CASE f # 0
          <5>1. Found(rest, TableEnds \ {"WHERE"}, f) /\ \A i : Found(rest, TableEnds \ {"WHERE"}, i) => f =< i
            BY <3>5, <4>2, Zenon
          <5> HIDE DEF f
          <5>2. f \in 2 .. Len(rest) - 1
            BY <5>1, Zenon DEF Found
          <5>3. f \in 2 .. Len(s) - p - 1 /\ f \in Int
            BY <3>4, <5>2
          <5>4. Found(s, Trailing, p + f)
            BY <3>6, <5>1, <5>3, Zenon
          <5>5. Found(s, Trailing, j) /\ j =< p + f
            BY <1>j, <5>4, Zenon
          <5>6. j \in Int /\ f =< j - p
            BY <3>7, <5>1, <5>5, Zenon
          <5>8. j =< p + f
            BY <5>5, Zenon
          <5>7. j = p + f
            <6>1. p \in Int /\ f \in Int
              BY <3>0, <5>3
            <6> QED
              BY <5>6, <5>8, <6>1
          <5> QED
            BY <5>3, <5>7
        <4> QED
          BY <4>1, <4>2
      <3>9. q.where = Trim(SubSeq(s, p + 1, w))
        <4>1. wh # 0
          BY <1>1, <2>5, <3>2
        <4>2. q.where = Trim(Before(rest, f))
          BY <1>q, <3>3, <4>1, Zenon
        <4>3. f \in 0 .. Len(s) - p
          BY <1>0, <3>0, <3>8
        <4> HIDE DEF f
        <4>4. Before(rest, f) = SubSeq(s, p + 1, w)
          BY <3>0, <4>3, BeforeIs, Zenon DEF rest
        <4> QED
          BY <4>2, <4>4, Zenon
      <3>10. /\ w \in p + 1 .. Len(s) /\ w \in end .. Len(s) /\ w \in Int
             /\ (j = 0 => w = Len(s)) /\ (j # 0 => j = w + 1 /\ j \in 1 .. Len(s))
        <4>1. CASE f = 0
          <5>1. w = Len(s) /\ j = 0 /\ p + 1 \in 1 .. Len(s)
            BY <3>1, <3>8, <4>1
          <5> HIDE DEF f, w
          <5> QED
            BY <1>0, <1>1, <3>0, <5>1
        <4>2. CASE f # 0
          <5>1. w = p + f - 1 /\ j = p + f /\ f \in 2 .. Len(s) - p - 1
            BY <3>8, <4>2, Zenon
          <5> HIDE DEF f, w
          <5> QED
            BY <1>0, <1>1, <3>0, <5>1
        <4> QED
          BY <4>1, <4>2
      <3> HIDE DEF w
      <3>11. q.where # <<>>
        <4>1. p + 1 \in Int /\ 1 =< p + 1 /\ p + 1 =< w + 1 /\ w =< Len(s) /\ p + 1 \in p + 1 .. w
          BY <1>0, <3>0, <3>10
        <4> QED
          BY <3>1, <3>9, <3>10, <4>1, TrimEmpty, Zenon
      <3>12. where \in Seq(X) /\ OneLine(where) = Span(F, end + 1, w)
        <4> DEFINE text == TranslateColumnRefs(Trim(SubSeq(s, p + 1, w)))
                   word == <<Kw("WHERE")>>
        <4>1. p + 1 \in Int /\ 1 =< p + 1 /\ p + 1 =< w + 1 /\ w =< Len(s)
          BY <1>0, <3>0, <3>10
        <4>2. text \in Seq(X) /\ OneLine(text) = Span(F, p + 1, w)
          BY <1>f, <3>10, <4>1, TrimReads, Zenon DEF F
        <4>3. where = word \o text
          BY <3>9, <3>11, Zenon
        <4>4. word \in Seq(X)
          BY DEF Tokens
        <4>5. OneLine(word) = word
          <5>1. Kw("WHERE") # Line
            BY DEF Kw, Line, Sym
          <5> QED
            BY <5>1, OneLineOne, Zenon
        <4>6. Span(F, p, p) = word
          <5>1. F[p] = <<Read(s[p])>> /\ p \in 1 .. Len(F)
            <6>1. p \in 1 .. Len(s) /\ s[p] # Line
              BY <1>0, <2>5, <3>0 DEF Kw, Line, Sym
            <6> QED
              BY <1>f, <6>1, Zenon
          <5>2. Read(s[p]) = Kw("WHERE")
            BY <2>5 DEF Read, Kw
          <5> QED
            BY <1>f, <5>1, <5>2, SpanOne, Zenon
        <4>7. Span(F, p, w) = Span(F, p, p) \o Span(F, p + 1, w)
          <5>1. p \in 1 .. Len(F) + 1 /\ p \in p - 1 .. Len(F) /\ w \in p .. Len(F)
            <6>1. Len(F) = Len(s)
              BY <1>f
            <6> QED
              BY <1>0, <3>0, <3>10, <6>1
          <5> QED
            BY <1>f, <5>1, SpanSplit, Zenon
        <4> HIDE DEF text, word, where
        <4>8. word \o text \in Seq(X) /\ OneLine(word \o text) = OneLine(word) \o OneLine(text)
          BY <4>2, <4>4, ConcatProperties, OneLineConcat, Zenon
        <4> QED
          BY <3>0, <4>2, <4>3, <4>5, <4>6, <4>7, <4>8, Zenon
      <3>13. trailing \in Seq(X) /\ OneLine(trailing) = Span(F, w + 1, Len(s))
        <4>1. CASE j = 0
          <5>1. trailing = <<>>
            BY <2>1, <4>1, Zenon DEF ExtractTrailingClauses, j
          <5>2. Span(F, w + 1, Len(s)) = <<>>
            <6>1. w = Len(s) /\ w + 1 \in Int /\ Len(s) \in Int /\ Len(s) < w + 1
              BY <1>0, <3>10, <4>1
            <6> QED
              BY <6>1, SpanEmpty, Zenon
          <5> QED
            BY <2>1, <5>1, <5>2, OneLineEmpty, Zenon
        <4>2. CASE j # 0
          <5>1. j = w + 1 /\ (j - 1) + 1 = j /\ j \in Int /\ 1 =< j /\ Len(s) =< Len(s) /\ Len(s) \in Int
            BY <1>0, <3>10, <4>2
          <5>2. trailing = TranslateColumnRefs(SubSeq(s, j, Len(s)))
            BY <4>2, <5>1, Zenon DEF ExtractTrailingClauses, After, j
          <5> HIDE DEF trailing
          <5> QED
            BY <1>f, <5>1, <5>2, SliceReads, Zenon DEF F
        <4> QED
          BY <4>1, <4>2
      <3> HIDE DEF where, trailing
      <3> QED
        BY <3>10, <3>12, <3>13, Zenon
    <2> QED
      BY <2>3, <2>4, <2>5
  <1>8. PICK w \in end .. Len(s) :
          /\ where \in Seq(X) /\ OneLine(where) = Span(F, end + 1, w)
          /\ trailing \in Seq(X) /\ OneLine(trailing) = Span(F, w + 1, Len(s))
    BY <1>7, Zenon
  <1>13. where = WhereClause(s) /\ trailing = TrailingClauses(s)
    BY Zenon DEF WhereClause, TrailingClauses, q
  <1> DEFINE head == <<Kw("FROM"), TableName>>
  <1>9. head \in Seq(X) /\ OneLine(head) = head
    BY PairOneLine DEF Tokens
  <1> HIDE DEF where, trailing, head
  <1>10. /\ head \o where \in Seq(X) /\ (head \o where) \o trailing \in Seq(X)
         /\ OneLine((head \o where) \o trailing) = (OneLine(head) \o OneLine(where)) \o OneLine(trailing)
    <2>1. head \o where \in Seq(X) /\ OneLine(head \o where) = OneLine(head) \o OneLine(where)
      BY <1>8, <1>9, ConcatProperties, OneLineConcat, Zenon
    <2>2. (head \o where) \o trailing \in Seq(X)
          /\ OneLine((head \o where) \o trailing) = OneLine(head \o where) \o OneLine(trailing)
      BY <1>8, <2>1, ConcatProperties, OneLineConcat, Zenon
    <2> QED
      BY <2>1, <2>2, Zenon
  <1>11. Span(F, g, Len(s)) = (Span(F, g, end) \o Span(F, end + 1, w)) \o Span(F, w + 1, Len(s))
    <2>1. /\ g \in 1 .. Len(F) + 1 /\ end \in g - 1 .. Len(F) /\ w \in end .. Len(F)
          /\ w \in g - 1 .. Len(F) /\ Len(s) \in w .. Len(F)
      BY <1>0, <1>1, <1>f
    <2> QED
      BY <1>f, <2>1, SpanSplit, Zenon
  <1>12. Clauses(s) = (head \o where) \o trailing
    BY <1>13, Zenon DEF Clauses, head
  <1> QED
    BY <1>13, <1>3, <1>8, <1>9, <1>10, <1>11, <1>12, Zenon DEF head, g, F

-----------------------------------------------------------------------------
(* Commas between columns. *)

LEMMA SpanAll ==
  ASSUME NEW X, NEW F \in Seq(Seq(X))
  PROVE  FlattenSeq(F) = Span(F, 1, Len(F))
BY SubSeqFull, Zenon DEF Span

LEMMA Single ==
  ASSUME NEW X, NEW x \in X
  PROVE  <<x>> \in Seq(X) /\ Len(<<x>>) = 1 /\ <<x>>[1] = x /\ <<x>> # <<>>
OBVIOUS

\* The columns of Join, with a comma before each, or before each but the first.
AllCommas(S) == [i \in DOMAIN S |-> <<Comma>> \o S[i]]
Commas(S) == [i \in DOMAIN S |-> IF i = 1 THEN S[i] ELSE <<Comma>> \o S[i]]

\* Join is FlattenSeq of these.
LEMMA CommasType ==
  ASSUME NEW X, Comma \in X, NEW S \in Seq(Seq(X))
  PROVE  /\ Commas(S) \in Seq(Seq(X)) /\ Len(Commas(S)) = Len(S) /\ Join(S) = FlattenSeq(Commas(S))
         /\ AllCommas(S) \in Seq(Seq(X)) /\ Len(AllCommas(S)) = Len(S)
         /\ \A i \in 1 .. Len(S) : /\ Commas(S)[i] = IF i = 1 THEN S[i] ELSE <<Comma>> \o S[i]
                                   /\ AllCommas(S)[i] = <<Comma>> \o S[i]
PROOF
  <1>1. DOMAIN S = 1 .. Len(S) /\ Len(S) \in Nat
    BY LenProperties
  <1>2. \A i \in 1 .. Len(S) : S[i] \in Seq(X) /\ <<Comma>> \o S[i] \in Seq(X)
    <2>1. <<Comma>> \in Seq(X)
      BY Single
    <2> QED
      BY <2>1, ElementOfSeq, ConcatProperties
  <1>3. Commas(S) = [i \in 1 .. Len(S) |-> IF i = 1 THEN S[i] ELSE <<Comma>> \o S[i]]
        /\ AllCommas(S) = [i \in 1 .. Len(S) |-> <<Comma>> \o S[i]]
    BY <1>1, Zenon DEF Commas, AllCommas
  <1>4. Commas(S) \in Seq(Seq(X)) /\ Len(Commas(S)) = Len(S)
    <2>1. \A i \in 1 .. Len(S) : (IF i = 1 THEN S[i] ELSE <<Comma>> \o S[i]) \in Seq(X)
      BY <1>2, Zenon
    <2> DEFINE C(i) == IF i = 1 THEN S[i] ELSE <<Comma>> \o S[i]
    <2> HIDE DEF C
    <2>2. Commas(S) = [i \in 1 .. Len(S) |-> C(i)]
      BY <1>3, Zenon DEF C
    <2>3. \A i \in 1 .. Len(S) : C(i) \in Seq(X)
      BY <2>1, Zenon DEF C
    <2> QED
      BY <1>1, <2>2, <2>3
  <1>5. AllCommas(S) \in Seq(Seq(X)) /\ Len(AllCommas(S)) = Len(S)
    <2> DEFINE C(i) == <<Comma>> \o S[i]
    <2> HIDE DEF C
    <2>2. AllCommas(S) = [i \in 1 .. Len(S) |-> C(i)]
      BY <1>3, Zenon DEF C
    <2>3. \A i \in 1 .. Len(S) : C(i) \in Seq(X)
      BY <1>2, Zenon DEF C
    <2> QED
      BY <1>1, <2>2, <2>3
  <1>6. Join(S) = FlattenSeq(Commas(S))
    BY Zenon DEF Join, Commas
  <1> QED
    BY <1>3, <1>4, <1>5, <1>6, Zenon

LEMMA JoinType ==
  ASSUME NEW X, Comma \in X, NEW S \in Seq(Seq(X))
  PROVE  Join(S) \in Seq(X)
PROOF
  <1>1. Commas(S) \in Seq(Seq(X)) /\ Join(S) = FlattenSeq(Commas(S))
    BY CommasType, Zenon
  <1> QED
    BY <1>1, FlattenType, Zenon

LEMMA JoinOne ==
  ASSUME NEW X, Comma \in X, NEW x \in Seq(X)
  PROVE  Join(<<x>>) = x
PROOF
  <1> DEFINE S == <<x>>
  <1>1. S \in Seq(Seq(X)) /\ Len(S) = 1 /\ S[1] = x
    BY Single
  <1> HIDE DEF S
  <1>2. Commas(S) \in Seq(Seq(X)) /\ Len(Commas(S)) = 1 /\ Join(S) = FlattenSeq(Commas(S))
        /\ Commas(S)[1] = x
    <2>1. 1 \in 1 .. Len(S)
      BY <1>1
    <2> QED
      BY <1>1, <2>1, CommasType, Zenon
  <1>3. Join(S) = Span(Commas(S), 1, 1) /\ 1 \in 1 .. Len(Commas(S))
    <2>1. Join(S) = Span(Commas(S), 1, 1)
      BY <1>2, SpanAll, Zenon
    <2> QED
      BY <1>2, <2>1
  <1> QED
    BY <1>2, <1>3, SpanOne, Zenon DEF S

\* A list after a comma.
LEMMA AllCommasJoin ==
  ASSUME NEW X, Comma \in X, NEW S \in Seq(Seq(X)), S # <<>>
  PROVE  FlattenSeq(AllCommas(S)) = <<Comma>> \o Join(S)
PROOF
  <1> DEFINE A == AllCommas(S)
             C == Commas(S)
             n == Len(S)
  <1>1. /\ A \in Seq(Seq(X)) /\ C \in Seq(Seq(X)) /\ Len(A) = n /\ Len(C) = n /\ Join(S) = FlattenSeq(C)
        /\ \A i \in 1 .. n : /\ C[i] = IF i = 1 THEN S[i] ELSE <<Comma>> \o S[i]
                             /\ A[i] = <<Comma>> \o S[i]
    BY CommasType, Zenon
  <1>2. n \in Nat \ {0} /\ 1 \in 1 .. n
    BY EmptySeq
  <1> HIDE DEF A, C, n
  <1>3. FlattenSeq(A) = Span(A, 1, 1) \o Span(A, 2, n) /\ FlattenSeq(C) = Span(C, 1, 1) \o Span(C, 2, n)
    <2>1. 1 \in 1 .. n + 1 /\ 1 \in 1 - 1 .. n /\ n \in 1 .. n /\ 1 + 1 = 2
      BY <1>2
    <2>2. FlattenSeq(A) = Span(A, 1, n) /\ FlattenSeq(C) = Span(C, 1, n)
      BY <1>1, SpanAll, Zenon
    <2>3. ASSUME NEW F \in Seq(Seq(X)), Len(F) = n
          PROVE  Span(F, 1, n) = Span(F, 1, 1) \o Span(F, 1 + 1, n)
      <3>1. 1 \in 1 .. Len(F) + 1 /\ 1 \in 1 - 1 .. Len(F) /\ n \in 1 .. Len(F)
        BY <2>1, <2>3
      <3> QED
        BY <3>1, SpanSplit, Zenon
    <2> QED
      BY <1>1, <2>1, <2>2, <2>3
  <1>4. Span(A, 2, n) = Span(C, 2, n)
    <2>1. \A i \in 2 .. n : A[i] = C[i]
      <3>1. \A i \in 2 .. n : i \in 1 .. n /\ i # 1
        BY <1>2
      <3> QED
        BY <1>1, <3>1, Zenon
    <2>2. 2 \in Int /\ n \in Int /\ 1 =< 2 /\ n =< Len(A) /\ n =< Len(C)
      BY <1>1, <1>2
    <2> QED
      BY <1>1, <2>1, <2>2, SpanSame, Zenon
  <1>5. Span(A, 1, 1) = <<Comma>> \o S[1] /\ Span(C, 1, 1) = S[1]
    <2>1. 1 \in 1 .. Len(A) /\ 1 \in 1 .. Len(C)
      BY <1>1, <1>2
    <2>2. Span(A, 1, 1) = A[1] /\ Span(C, 1, 1) = C[1]
      BY <1>1, <2>1, SpanOne, Zenon
    <2> QED
      BY <1>1, <1>2, <2>2, Zenon
  <1>6. <<Comma>> \in Seq(X) /\ S[1] \in Seq(X) /\ Span(C, 2, n) \in Seq(X)
    <2>1. <<Comma>> \in Seq(X)
      BY Single
    <2>2. S[1] \in Seq(X)
      BY <1>2, ElementOfSeq DEF n
    <2>3. Span(C, 2, n) \in Seq(X)
      <3>1. 2 \in Int /\ n \in Int /\ 1 =< 2 /\ n =< Len(C)
        BY <1>1, <1>2
      <3> QED
        BY <1>1, <3>1, SpanType, Zenon
    <2> QED
      BY <2>1, <2>2, <2>3
  <1>7. (<<Comma>> \o S[1]) \o Span(C, 2, n) = <<Comma>> \o (S[1] \o Span(C, 2, n))
    <2> DEFINE a == <<Comma>>
               b == S[1]
               c == Span(C, 2, n)
    <2> HIDE DEF a, b, c
    <2>1. a \in Seq(X) /\ b \in Seq(X) /\ c \in Seq(X)
      BY <1>6 DEF a, b, c
    <2>2. (a \o b) \o c = a \o (b \o c)
      BY <2>1, ConcatAssociative, SMTT(30)
    <2> QED
      BY <2>2 DEF a, b, c
  <1> QED
    BY <1>1, <1>3, <1>4, <1>5, <1>7, Zenon DEF A

\* Two lists are joined with a comma between them.
LEMMA JoinConcat ==
  ASSUME NEW X, Comma \in X, NEW S \in Seq(Seq(X)), NEW T \in Seq(Seq(X)), S # <<>>, T # <<>>
  PROVE  Join(S \o T) = Join(S) \o (<<Comma>> \o Join(T))
PROOF
  <1>0. S \o T \in Seq(Seq(X)) /\ Len(S \o T) = Len(S) + Len(T)
        /\ \A i \in 1 .. Len(S) + Len(T) : (S \o T)[i] = IF i =< Len(S) THEN S[i] ELSE T[i - Len(S)]
    BY ConcatProperties
  <1> DEFINE U == S \o T
             C == Commas(U)
             A == Commas(S)
             B == AllCommas(T)
             m == Len(S)
             n == Len(T)
  <1> HIDE DEF U
  <1>1. /\ C \in Seq(Seq(X)) /\ Len(C) = m + n /\ Join(U) = FlattenSeq(C)
        /\ \A i \in 1 .. m + n : C[i] = IF i = 1 THEN U[i] ELSE <<Comma>> \o U[i]
    BY <1>0, CommasType, Zenon DEF U
  <1>2. /\ A \in Seq(Seq(X)) /\ Len(A) = m /\ Join(S) = FlattenSeq(A)
        /\ \A i \in 1 .. m : A[i] = IF i = 1 THEN S[i] ELSE <<Comma>> \o S[i]
    BY CommasType, Zenon
  <1>3. /\ B \in Seq(Seq(X)) /\ Len(B) = n
        /\ \A i \in 1 .. n : B[i] = <<Comma>> \o T[i]
    BY CommasType, Zenon
  <1>4. m \in Nat \ {0} /\ n \in Nat \ {0}
    BY EmptySeq
  <1> HIDE DEF C, A, B
  <1>5. A \o B \in Seq(Seq(X)) /\ Len(A \o B) = m + n
        /\ \A i \in 1 .. m + n : (A \o B)[i] = IF i =< m THEN A[i] ELSE B[i - m]
    <2>1. A \o B \in Seq(Seq(X)) /\ Len(A \o B) = Len(A) + Len(B)
          /\ \A i \in 1 .. Len(A) + Len(B) : (A \o B)[i] = IF i =< Len(A) THEN A[i] ELSE B[i - Len(A)]
      <3>1. A \in Seq(Seq(X)) /\ B \in Seq(Seq(X))
        BY <1>2, <1>3, Zenon
      <3> QED
        BY <3>1, ConcatProperties, SMTT(30)
    <2> QED
      BY <1>2, <1>3, <2>1, Zenon
  <1> HIDE DEF m, n
  <1>6. \A i \in 1 .. m + n : C[i] = (A \o B)[i]
    <2> SUFFICES ASSUME NEW i \in 1 .. m + n PROVE C[i] = (A \o B)[i]
      OBVIOUS
    <2>0. U[i] = IF i =< m THEN S[i] ELSE T[i - m]
      BY <1>0, Zenon DEF U, m, n
    <2>1. CASE i =< m
      <3>1. i \in 1 .. m
        BY <1>4, <2>1
      <3> QED
        <4>1. U[i] = S[i] /\ (A \o B)[i] = A[i]
          BY <1>5, <2>0, <2>1, Zenon
        <4>2. C[i] = (IF i = 1 THEN U[i] ELSE <<Comma>> \o U[i]) /\ A[i] = (IF i = 1 THEN S[i] ELSE <<Comma>> \o S[i])
          BY <1>1, <1>2, <3>1, Zenon
        <4> QED
          BY <4>1, <4>2, Zenon
    <2>2. CASE ~ (i =< m)
      <3>1. i # 1 /\ i - m \in 1 .. n
        BY <1>4, <2>2
      <3> QED
        <4>1. U[i] = T[i - m] /\ (A \o B)[i] = B[i - m]
          BY <1>5, <2>0, <2>2, Zenon
        <4>2. C[i] = <<Comma>> \o U[i] /\ B[i - m] = <<Comma>> \o T[i - m]
          BY <1>1, <1>3, <3>1, Zenon
        <4> QED
          BY <4>1, <4>2, Zenon
    <2> QED
      BY <2>1, <2>2
  <1>7. C = A \o B
    <2> DEFINE D == A \o B
    <2> HIDE DEF D
    <2>1. C \in Seq(Seq(X)) /\ D \in Seq(Seq(X)) /\ Len(C) = Len(D) /\ \A i \in 1 .. Len(C) : C[i] = D[i]
      BY <1>1, <1>5, <1>6, Zenon DEF D
    <2> QED
      BY <2>1, SeqEqual, Zenon DEF D
  <1>8. FlattenSeq(A \o B) = FlattenSeq(A) \o FlattenSeq(B)
    BY <1>2, <1>3, FlattenConcat, Zenon
  <1>9. FlattenSeq(B) = <<Comma>> \o Join(T)
    BY AllCommasJoin, Zenon DEF B
  <1> QED
    BY <1>1, <1>2, <1>7, <1>8, <1>9, Zenon DEF U

-----------------------------------------------------------------------------
(* Schemas. *)

\* The columns of a schema.
Pairs(sch) == UNION {{<<sch[i].name, sch[i].columns[j]>> : j \in DOMAIN sch[i].columns} : i \in DOMAIN sch}

Schema(sch) == /\ sch \in Seq(ToSet(sch))
               /\ \A i \in DOMAIN sch : sch[i].columns \in Seq(ToSet(sch[i].columns))

\* The columns of one group.
LEMMA PairsOf ==
  ASSUME NEW sch, Schema(sch), NEW i \in DOMAIN sch, NEW P, Pairs(sch) \subseteq P
  PROVE  LET columns == [j \in DOMAIN sch[i].columns |-> <<sch[i].name, sch[i].columns[j]>>]
         IN columns \in Seq(P) /\ Len(columns) = Len(sch[i].columns)
PROOF
  <1> DEFINE cs == sch[i].columns
             C(j) == <<sch[i].name, cs[j]>>
  <1>1. cs \in Seq(ToSet(cs))
    BY DEF Schema
  <1>2. DOMAIN cs = 1 .. Len(cs) /\ Len(cs) \in Nat
    BY <1>1, LenProperties
  <1>3. \A j \in DOMAIN cs : C(j) \in P
    <2> SUFFICES ASSUME NEW j \in DOMAIN cs PROVE C(j) \in Pairs(sch)
      OBVIOUS
    <2> DEFINE A(k) == {<<sch[k].name, sch[k].columns[l]>> : l \in DOMAIN sch[k].columns}
    <2>1. C(j) \in A(i)
      BY Zenon
    <2> HIDE DEF A, C, cs
    <2>2. C(j) \in UNION {A(k) : k \in DOMAIN sch}
      BY <2>1
    <2> QED
      BY <2>2, Zenon DEF A, Pairs
  <1> HIDE DEF cs, C
  <1>4. [j \in 1 .. Len(cs) |-> C(j)] \in Seq(P) /\ Len([j \in 1 .. Len(cs) |-> C(j)]) = Len(cs)
    BY <1>2, <1>3
  <1>5. [j \in DOMAIN cs |-> C(j)] = [j \in 1 .. Len(cs) |-> C(j)]
    BY <1>2, Zenon
  <1>6. [j \in DOMAIN cs |-> C(j)] \in Seq(P) /\ Len([j \in DOMAIN cs |-> C(j)]) = Len(cs)
    BY <1>4, <1>5, Zenon
  <1> QED
    BY <1>6, Zenon DEF cs, C

LEMMA AllColumnsType ==
  ASSUME NEW sch, Schema(sch)
  PROVE  AllColumns(sch) \in Seq(Pairs(sch))
PROOF
  <1> DEFINE C(i) == [j \in DOMAIN sch[i].columns |-> <<sch[i].name, sch[i].columns[j]>>]
             P == Pairs(sch)
  <1>1. DOMAIN sch = 1 .. Len(sch) /\ Len(sch) \in Nat
    BY LenProperties DEF Schema
  <1>2. \A i \in DOMAIN sch : C(i) \in Seq(P)
    <2>1. Pairs(sch) \subseteq P
      OBVIOUS
    <2> QED
      BY <2>1, PairsOf, Zenon
  <1> HIDE DEF C, P
  <1>3. [i \in 1 .. Len(sch) |-> C(i)] \in Seq(Seq(P))
    BY <1>1, <1>2
  <1>4. [i \in DOMAIN sch |-> C(i)] \in Seq(Seq(P))
    BY <1>1, <1>3, Zenon
  <1>5. FlattenSeq([i \in DOMAIN sch |-> C(i)]) \in Seq(P)
    BY <1>4, FlattenType, Zenon
  <1> QED
    BY <1>5, Zenon DEF AllColumns, C, P

\* The columns of a group of the schema.
LEMMA GroupColumnsType ==
  ASSUME NEW sch, Schema(sch), NEW g, HasGroup(sch, g)
  PROVE  /\ GroupColumns(sch, g) \in Seq(Pairs(sch))
         /\ Filled(sch) => GroupColumns(sch, g) # <<>>
PROOF
  <1>1. PICK i \in DOMAIN sch : i = (CHOOSE j \in DOMAIN sch : sch[j].name = g) /\ sch[i].name = g
    BY Zenon DEF HasGroup
  <1> DEFINE cs == sch[i].columns
             columns == [j \in DOMAIN cs |-> <<sch[i].name, cs[j]>>]
  <1>2. GroupColumns(sch, g) = columns
    BY <1>1, Zenon DEF GroupColumns
  <1>3. columns \in Seq(Pairs(sch)) /\ Len(columns) = Len(cs)
    <2>1. Pairs(sch) \subseteq Pairs(sch)
      OBVIOUS
    <2> QED
      BY <2>1, PairsOf, Zenon
  <1>4. Filled(sch) => columns # <<>>
    <2> SUFFICES ASSUME Filled(sch), columns = <<>> PROVE FALSE
      OBVIOUS
    <2>1. cs # <<>> /\ cs \in Seq(ToSet(cs))
      BY Zenon DEF Filled, Schema
    <2> HIDE DEF cs
    <2>2. Len(cs) # 0
      BY <2>1, EmptySeq
    <2>3. Len(columns) = 0
      <3>1. Len(<<>>) = 0
        OBVIOUS
      <3> HIDE DEF columns
      <3> QED
        BY <3>1, Zenon
    <2> QED
      BY <1>3, <2>2, <2>3, Zenon
  <1> QED
    BY <1>2, <1>3, <1>4, Zenon

\* A name's only column is the schema's.
LEMMA OwnerType ==
  ASSUME NEW sch, Schema(sch), NEW n, Cardinality(Owners(sch, n)) = 1
  PROVE  (CHOOSE c \in Owners(sch, n) : TRUE) \in Pairs(sch)
PROOF
  <1>1. ToSet(AllColumns(sch)) \subseteq Pairs(sch)
    <2>1. AllColumns(sch) \in Seq(Pairs(sch))
      BY AllColumnsType
    <2> DEFINE all == AllColumns(sch)
    <2> HIDE DEF all
    <2>2. \A i \in DOMAIN all : all[i] \in Pairs(sch)
      BY <2>1, LenProperties, ElementOfSeq DEF all
    <2>3. \A c \in ToSet(all) : c \in Pairs(sch)
      BY <2>2, Zenon DEF ToSet
    <2> QED
      BY <2>3, Zenon DEF all
  <1>2. Owners(sch, n) # {}
    BY FS_EmptySet
  <1>3. (CHOOSE c \in Owners(sch, n) : TRUE) \in Owners(sch, n)
    BY <1>2, Zenon
  <1> QED
    BY <1>1, <1>3, Zenon DEF Owners

\* The tokens of a schema's columns.
SchemaTokens(X, sch) == \A c \in Pairs(sch) : Flat(c) \in X

\* Columns by their flat names.
LEMMA NamedType ==
  ASSUME NEW X, NEW P, \A c \in P : Flat(c) \in X, NEW cs \in Seq(P)
  PROVE  /\ Named(cs) \in Seq(Seq(X)) /\ Len(Named(cs)) = Len(cs)
         /\ \A i \in 1 .. Len(cs) : Named(cs)[i] = <<Flat(cs[i])>>
PROOF
  <1> DEFINE C(i) == <<Flat(cs[i])>>
  <1>1. DOMAIN cs = 1 .. Len(cs) /\ Len(cs) \in Nat
    BY LenProperties
  <1>2. \A i \in 1 .. Len(cs) : C(i) \in Seq(X)
    BY ElementOfSeq, Single
  <1> HIDE DEF C
  <1>3. [i \in 1 .. Len(cs) |-> C(i)] \in Seq(Seq(X)) /\ Len([i \in 1 .. Len(cs) |-> C(i)]) = Len(cs)
    BY <1>1, <1>2
  <1>4. Named(cs) = [i \in 1 .. Len(cs) |-> C(i)]
    BY <1>1, Zenon DEF Named, C
  <1>5. \A i \in 1 .. Len(cs) : Named(cs)[i] = C(i)
    BY <1>4, Zenon
  <1> QED
    BY <1>3, <1>4, <1>5, Zenon DEF C

\* Columns are not an error.
LEMMA NamedNotRefused ==
  ASSUME NEW X, NEW P, \A c \in P : Flat(c) \in X, NEW cs \in Seq(P)
  PROVE  Named(cs) # Refused /\ (cs # <<>> => Named(cs) # <<>>)
PROOF
  <1> DEFINE N == Named(cs)
  <1>1. N \in Seq(Seq(X)) /\ Len(N) = Len(cs) /\ \A i \in 1 .. Len(cs) : N[i] = <<Flat(cs[i])>>
    BY NamedType, Zenon
  <1> HIDE DEF N
  <1>2. N # Refused
    <2> SUFFICES ASSUME N = <<<<>>>> PROVE FALSE
      BY DEF Refused
    <2>1. Len(N) = 1 /\ N[1] = <<>>
      OBVIOUS
    <2>2. N[1] = <<Flat(cs[1])>>
      <3>1. 1 \in 1 .. Len(cs)
        BY <1>1, <2>1
      <3> QED
        BY <1>1, <3>1, Zenon
    <2> DEFINE f == Flat(cs[1])
    <2> HIDE DEF f
    <2>3. <<f>> # <<>>
      OBVIOUS
    <2> QED
      BY <2>1, <2>2, <2>3, Zenon DEF f
  <1>3. cs # <<>> => N # <<>>
    <2> SUFFICES ASSUME cs # <<>>, N = <<>> PROVE FALSE
      OBVIOUS
    <2>1. Len(N) = 0
      OBVIOUS
    <2>2. Len(cs) # 0
      BY EmptySeq
    <2> QED
      BY <1>1, <2>1, <2>2, Zenon
  <1> QED
    BY <1>2, <1>3 DEF N

-----------------------------------------------------------------------------
(* Parentheses. *)

Opens(s, i) == {j \in 1 .. i : s[j] = Sym("(")}
Closes(s, i) == {j \in 1 .. i : s[j] = Sym(")")}

\* One token further, as in splitColumns.
LEMMA DepthStep ==
  ASSUME NEW s, NEW i \in Nat
  PROVE  Depth(s, i) \in Int /\ Depth(s, i + 1) = Depth(s, i) + Deeper(s[i + 1])
PROOF
  <1>1. \A A \in SUBSET (1 .. i) : IsFiniteSet(A) /\ Cardinality(A) \in Nat
                                   /\ Cardinality(A \cup {i + 1}) = Cardinality(A) + 1
    <2> SUFFICES ASSUME NEW A \in SUBSET (1 .. i)
                 PROVE  IsFiniteSet(A) /\ Cardinality(A) \in Nat /\ Cardinality(A \cup {i + 1}) = Cardinality(A) + 1
      OBVIOUS
    <2>1. IsFiniteSet(1 .. i)
      BY FS_Interval
    <2>2. IsFiniteSet(A)
      BY <2>1, FS_Subset
    <2>3. i + 1 \notin A
      OBVIOUS
    <2> QED
      BY <2>2, <2>3, FS_CardinalityType, FS_AddElement
  <1>2. Opens(s, i) \in SUBSET (1 .. i) /\ Closes(s, i) \in SUBSET (1 .. i)
    BY DEF Opens, Closes
  <1>3. Opens(s, i + 1) = IF s[i + 1] = Sym("(") THEN Opens(s, i) \cup {i + 1} ELSE Opens(s, i)
    BY DEF Opens
  <1>4. Closes(s, i + 1) = IF s[i + 1] = Sym(")") THEN Closes(s, i) \cup {i + 1} ELSE Closes(s, i)
    BY DEF Closes
  <1>5. \A k : Depth(s, k) = Cardinality(Opens(s, k)) - Cardinality(Closes(s, k))
    BY Zenon DEF Depth, Opens, Closes
  <1>6. Sym("(") # Sym(")")
    BY DEF Sym
  <1> DEFINE a == Cardinality(Opens(s, i))
             b == Cardinality(Closes(s, i))
  <1>7. a \in Nat /\ b \in Nat
    BY <1>1, <1>2, Zenon
  <1>8. Cardinality(Opens(s, i + 1)) = IF s[i + 1] = Sym("(") THEN a + 1 ELSE a
    BY <1>1, <1>2, <1>3, Zenon
  <1>9. Cardinality(Closes(s, i + 1)) = IF s[i + 1] = Sym(")") THEN b + 1 ELSE b
    BY <1>1, <1>2, <1>4, Zenon
  <1>10. Depth(s, i) = a - b /\ Depth(s, i + 1) = Cardinality(Opens(s, i + 1)) - Cardinality(Closes(s, i + 1))
    BY <1>5, Zenon
  <1> HIDE DEF a, b
  <1> QED
    BY <1>6, <1>7, <1>8, <1>9, <1>10 DEF Deeper

LEMMA DepthZero == ASSUME NEW s PROVE Depth(s, 0) = 0
PROOF
  <1>1. {j \in 1 .. 0 : s[j] = Sym("(")} = {} /\ {j \in 1 .. 0 : s[j] = Sym(")")} = {}
    OBVIOUS
  <1> QED
    BY <1>1, FS_EmptySet DEF Depth

\* Between tokens without parentheses the depth is one.
LEMMA DepthSame ==
  ASSUME NEW s, NEW a \in Nat, NEW b \in Nat, a =< b, \A i \in a + 1 .. b : Deeper(s[i]) = 0
  PROVE  Depth(s, a) = Depth(s, b)
PROOF
  <1> DEFINE T == {k \in Nat : Depth(s, a + k) = Depth(s, a)}
  <1>1. 0 \in T
    OBVIOUS
  <1>2. ASSUME NEW k \in 0 .. (b - a) - 1, k \in T PROVE k + 1 \in T
    <2>1. a + k \in Nat /\ (a + k) + 1 \in a + 1 .. b /\ a + (k + 1) = (a + k) + 1 /\ k + 1 \in Nat
      OBVIOUS
    <2>2. Depth(s, a + k) \in Int /\ Depth(s, (a + k) + 1) = Depth(s, a + k) + Deeper(s[(a + k) + 1])
      BY <2>1, DepthStep
    <2>3. Deeper(s[(a + k) + 1]) = 0
      BY <2>1, Zenon
    <2>4. Depth(s, (a + k) + 1) = Depth(s, a + k)
      BY <2>2, <2>3
    <2> QED
      BY <1>2, <2>1, <2>4, Zenon
  <1>3. \A k \in 0 .. b - a : k \in T
    <2>1. b - a \in Nat
      OBVIOUS
    <2> HIDE DEF T
    <2> QED
      BY <1>1, <1>2, <2>1, UpTo
  <1>4. b - a \in T
    <2>1. b - a \in 0 .. b - a
      OBVIOUS
    <2> HIDE DEF T
    <2> QED
      BY <1>3, <2>1, Zenon
  <1>5. a + (b - a) = b
    OBVIOUS
  <1> QED
    BY <1>4, <1>5

\* The recursive function of Split.
LEMMA SplitDef ==
  ASSUME NEW list, Len(list) \in Nat
  PROVE  /\ Split(list)[0] = [columns |-> <<>>, current |-> <<>>, depth |-> 0]
         /\ \A i \in 1 .. Len(list) : Split(list)[i] = SplitNext(Split(list)[i-1], list[i])
PROOF
  <1> DEFINE Begin == [columns |-> <<>>, current |-> <<>>, depth |-> 0]
             Then(v, i) == IF i = 0 THEN Begin ELSE SplitNext(v, list[i])
             Splits(f) == f = [i \in 0 .. Len(list) |-> IF i = 0 THEN Begin ELSE SplitNext(f[i-1], list[i])]
             T == {n \in Nat : \E f : \A i \in 0 .. n : f[i] = Then(f[i-1], i)}
  <1>1. 0 \in T
    <2> DEFINE f == [i \in {0} |-> Begin]
    <2>1. \A i \in 0 .. 0 : f[i] = Then(f[i-1], i)
      <3> HIDE DEF Begin
      <3> QED
        OBVIOUS
    <2> HIDE DEF f, Then
    <2> QED
      BY <2>1
  <1>2. ASSUME NEW n \in 0 .. Len(list) - 1, n \in T PROVE n + 1 \in T
    <2> HIDE DEF Then
    <2>1. PICK f : \A i \in 0 .. n : f[i] = Then(f[i-1], i)
      BY <1>2
    <2> DEFINE g == [i \in -1 .. n + 1 |-> IF i = n + 1 THEN Then(f[n], i) ELSE f[i]]
    <2>2. \A i \in 0 .. n + 1 : g[i] = Then(g[i-1], i)
      BY <2>1
    <2> HIDE DEF g
    <2> QED
      BY <2>2
  <1>3. \A i \in 0 .. Len(list) : i \in T
    <2> HIDE DEF T
    <2> QED
      BY <1>1, <1>2, UpTo
  <1> HIDE DEF Begin
  <1>4. \E f : Splits(f)
    <2>0. Len(list) \in T
      <3>1. Len(list) \in 0 .. Len(list)
        OBVIOUS
      <3> QED
        BY <1>3, <3>1, Zenon
    <2>1. PICK f : \A i \in 0 .. Len(list) : f[i] = Then(f[i-1], i)
      <3> HIDE DEF Then
      <3> QED
        BY <2>0, Zenon
    <2> DEFINE g == [i \in 0 .. Len(list) |-> f[i]]
    <2>2. \A i \in 0 .. Len(list) : g[i] = IF i = 0 THEN Begin ELSE SplitNext(g[i-1], list[i])
      BY <2>1
    <2>3. g = [i \in 0 .. Len(list) |-> IF i = 0 THEN Begin ELSE SplitNext(g[i-1], list[i])]
      <3> HIDE DEF g
      <3>1. g = [i \in 0 .. Len(list) |-> g[i]]
        BY DEF g
      <3> QED
        BY <2>2, <3>1
    <2> HIDE DEF g
    <2> QED
      BY <2>3, Zenon
  <1>5. PICK f : f = CHOOSE g : Splits(g)
    OBVIOUS
  <1>6. Splits(f)
    BY <1>4, <1>5, Zenon
  <1>7. Split(list) = f
    BY <1>5, Zenon DEF Split, Begin
  <1>8. \A i \in 0 .. Len(list) : f[i] = IF i = 0 THEN Begin ELSE SplitNext(f[i-1], list[i])
    BY <1>6, Zenon
  <1>9. f[0] = Begin
    BY <1>8
  <1>10. \A i \in 1 .. Len(list) : f[i] = SplitNext(f[i-1], list[i])
    <2>1. \A i \in 1 .. Len(list) : i \in 0 .. Len(list) /\ i # 0
      OBVIOUS
    <2> QED
      BY <1>8, <2>1, Zenon
  <1> QED
    BY <1>7, <1>9, <1>10, Zenon DEF Begin

-----------------------------------------------------------------------------
(* The columns of a select list. *)

\* Line breaks around a slice are nothing.
NoLines(s, F) == \A i \in 1 .. Len(F) : s[i] = Line => F[i] = <<>>

\* What Trim cuts off means nothing.
LEMMA TrimSpan ==
  ASSUME NEW X, NEW s, NEW F \in Seq(Seq(X)), NoLines(s, F),
         NEW a \in Int, NEW b \in Int, NEW m \in Int, NEW n \in Int, 1 =< a, b =< Len(F), Trims(s, a, b, m, n)
  PROVE  Span(F, m, n) = Span(F, a, b)
PROOF
  <1>0. Len(F) \in Nat
    BY LenProperties
  <1>1. a =< m /\ n =< b /\ m =< n + 1 /\ (\A i \in a .. m - 1 : s[i] = Line) /\ \A i \in n + 1 .. b : s[i] = Line
    BY DEF Trims
  <1>2. (\A i \in a .. m - 1 : F[i] = <<>>) /\ \A i \in n + 1 .. b : F[i] = <<>>
    <2>1. (\A i \in a .. m - 1 : i \in 1 .. Len(F)) /\ \A i \in n + 1 .. b : i \in 1 .. Len(F)
      BY <1>0, <1>1
    <2> QED
      BY <1>1, <2>1, Zenon DEF NoLines
  <1>3. Span(F, a, m - 1) = <<>> /\ Span(F, n + 1, b) = <<>>
    <2>1. m - 1 \in Int /\ m - 1 =< Len(F) /\ n + 1 \in Int /\ 1 =< n + 1 /\ b =< Len(F)
      BY <1>0, <1>1
    <2> QED
      BY <1>2, <2>1, SpanNone, Zenon
  <1>4. Span(F, a, b) = Span(F, a, m - 1) \o Span(F, m, b) /\ Span(F, m, b) = Span(F, m, n) \o Span(F, n + 1, b)
    <2>1. a \in 1 .. Len(F) + 1 /\ m - 1 \in a - 1 .. Len(F) /\ b \in m - 1 .. Len(F) /\ (m - 1) + 1 = m
          /\ m \in 1 .. Len(F) + 1 /\ n \in m - 1 .. Len(F) /\ b \in n .. Len(F)
      BY <1>0, <1>1
    <2> QED
      BY <2>1, SpanSplit, ZenonT(30)
  <1>5. Span(F, m, n) \in Seq(X)
    <2>1. 1 =< m /\ n =< Len(F)
      BY <1>0, <1>1
    <2> QED
      BY <2>1, SpanType, Zenon
  <1> QED
    BY <1>3, <1>4, <1>5, ConcatEmptySeq

\* The select list's end.
LEMMA ListEndIs ==
  ASSUME NEW s, Statement(s), PlainClauses(s)
  PROVE  /\ ListEnd(s) \in FirstFrom(s) .. Len(s) /\ s[ListEnd(s)] = Kw("FROM")
         /\ (Depth(s, FirstFrom(s)) = 0 => ListEnd(s) = FirstFrom(s))
PROOF
  <1> DEFINE at == {i \in DOMAIN s : IsFrom(s, i) /\ Depth(s, i) = 0}
             g == FirstFrom(s)
             e == ListEnd(s)
  <1>0. g \in 3 .. Len(s) - 1 /\ Len(s) \in Nat /\ s[g] = Kw("FROM") /\ \A i \in 1 .. g - 1 : s[i] # Kw("FROM")
    BY FromFound
  <1>1. DOMAIN s = 1 .. Len(s)
    BY LenProperties DEF Statement
  <1>2. at # {} /\ at \subseteq Nat
    BY <1>0, <1>1 DEF PlainClauses
  <1>3. PICK i \in at : \A j \in at : i =< j
    <2> HIDE DEF at
    <2> QED
      BY <1>2, Least, Zenon
  <1>4. \A j \in 1 .. i - 1 : IsFrom(s, j) => Depth(s, j) # 0
    <2> SUFFICES ASSUME NEW j \in 1 .. i - 1, IsFrom(s, j), Depth(s, j) = 0 PROVE FALSE
      OBVIOUS
    <2>1. j \in at
      BY DEF IsFrom
    <2>2. i =< j /\ i \in Nat
      BY <1>2, <1>3, <2>1
    <2> QED
      BY <2>2
  <1>5. e \in DOMAIN s /\ IsFrom(s, e) /\ Depth(s, e) = 0 /\ \A j \in 1 .. e - 1 : IsFrom(s, j) => Depth(s, j) # 0
    <2>1. \E k \in DOMAIN s : /\ IsFrom(s, k) /\ Depth(s, k) = 0
                              /\ \A j \in 1 .. k - 1 : IsFrom(s, j) => Depth(s, j) # 0
      BY <1>3, <1>4, Zenon
    <2> QED
      BY <2>1, Zenon DEF ListEnd
  <1> HIDE DEF g, e
  <1>6. s[e] = Kw("FROM") /\ e \in 1 .. Len(s)
    BY <1>1, <1>5 DEF IsFrom
  <1>7. ~ (e < g)
    BY <1>0, <1>6
  <1>8. Depth(s, g) = 0 => e = g
    <2> SUFFICES ASSUME Depth(s, g) = 0, e # g PROVE FALSE
      OBVIOUS
    <2>1. g \in 1 .. e - 1 /\ g \in DOMAIN s
      BY <1>0, <1>1, <1>6, <1>7
    <2>2. IsFrom(s, g)
      BY <1>0, <2>1 DEF IsFrom
    <2> QED
      BY <1>5, <2>1, <2>2, Zenon
  <1> QED
    BY <1>0, <1>6, <1>7, <1>8 DEF g, e

\* A column between two cuts.
Column(s, c, d) == c \in Cuts(s) /\ d \in Cuts(s) /\ c < d /\ \A k \in c + 1 .. d - 1 : k \notin Cuts(s)

\* Cuts are positions of the list, outside parentheses but for its end.
LEMMA CutIs ==
  ASSUME NEW s, Statement(s), PlainClauses(s), s[1] = Kw("SELECT")
  PROVE  /\ FirstFrom(s) \in Nat /\ Len(s) \in Nat /\ FirstFrom(s) =< Len(s) - 1 /\ FirstFrom(s) >= 3
         /\ \A c \in Cuts(s) : c \in 1 .. FirstFrom(s) /\ (c = FirstFrom(s) \/ Depth(s, c) = 0)
                               /\ (c = 1 \/ c = FirstFrom(s) \/ s[c] = Comma)
         /\ \A k \in 2 .. FirstFrom(s) - 1 : s[k] = Comma /\ Depth(s, k) = 0 => k \in Cuts(s)
PROOF
  <1>1. FirstFrom(s) \in 3 .. Len(s) - 1 /\ Len(s) \in Nat
    BY FromFound
  <1>2. Depth(s, 1) = 0
    <2>1. Depth(s, 0) = 0 /\ Depth(s, 0 + 1) = Depth(s, 0) + Deeper(s[0 + 1])
      BY DepthStep, DepthZero
    <2>2. Deeper(s[1]) = 0
      BY DEF Deeper, Kw, Sym
    <2> QED
      BY <2>1, <2>2
  <1> QED
    BY <1>1, <1>2 DEF Cuts

\* Without a parenthesis.
LEMMA FlatTokens ==
  /\ Deeper(Comma) = 0 /\ Deeper(Line) = 0 /\ \A w : Deeper(Kw(w)) = 0
  /\ \A t : t[1] \in {"ref", "name", "kw", "quoted"} => Deeper(t) = 0
  /\ \A t : t # Sym("(") /\ t # Sym(")") => Deeper(t) = 0
BY DEF Deeper, Comma, Line, Sym, Kw

\* Next to a token that is a column by itself there are line breaks only.
LEMMA AloneIn ==
  ASSUME NEW s, Statement(s), PlainClauses(s), s[1] = Kw("SELECT"), NEW c, NEW d, Column(s, c, d),
         NEW i \in c + 1 .. d - 1, Alone(s, i), Deeper(s[i]) = 0
  PROVE  \A j \in c + 1 .. d - 1 : j = i \/ s[j] = Line
PROOF
  <1> DEFINE g == FirstFrom(s)
             e == ListEnd(s)
  <1>0. g \in Nat /\ c \in 1 .. g /\ d \in 1 .. g /\ c < d /\ (\A k \in c + 1 .. d - 1 : k \notin Cuts(s))
        /\ \A k \in 2 .. g - 1 : s[k] = Comma /\ Depth(s, k) = 0 => k \in Cuts(s)
    BY CutIs DEF Column
  <1>1. e \in g .. Len(s) /\ Len(s) \in Nat
    BY ListEndIs, CutIs
  <1> HIDE DEF g, e
  <1>2. Depth(s, i) = 0
    BY DEF Alone
  <1>3. PICK l \in 1 .. i - 1, r \in i + 1 .. e :
          /\ l = 1 \/ s[l] = Comma
          /\ r = e \/ s[r] = Comma
          /\ \A j \in l + 1 .. r - 1 : j = i \/ s[j] = Line
    BY Zenon DEF Alone, e
  <1>4. l =< c
    <2> SUFFICES ASSUME ~ (l =< c) PROVE FALSE
      OBVIOUS
    <2>1. l \in c + 1 .. d - 1 /\ l \in 2 .. g - 1 /\ l # 1 /\ l \in Nat /\ i \in Nat /\ l =< i
      BY <1>0
    <2>2. \A k \in l + 1 .. i : Deeper(s[k]) = 0
      <3>1. \A k \in l + 1 .. i : k \in l + 1 .. r - 1
        BY <1>0
      <3> QED
        BY <1>3, <3>1, FlatTokens, Zenon
    <2>3. Depth(s, l) = 0
      BY <1>2, <2>1, <2>2, DepthSame
    <2> QED
      BY <1>0, <1>3, <2>1, <2>3, Zenon
  <1>5. r >= d
    <2> SUFFICES ASSUME ~ (r >= d) PROVE FALSE
      OBVIOUS
    <2>1. r \in c + 1 .. d - 1 /\ r \in 2 .. g - 1 /\ r # e /\ r \in Nat /\ i \in Nat /\ i =< r
      BY <1>0, <1>1
    <2>2. \A k \in i + 1 .. r : Deeper(s[k]) = 0
      <3> SUFFICES ASSUME NEW k \in i + 1 .. r PROVE Deeper(s[k]) = 0
        OBVIOUS
      <3>1. k = r \/ (k \in l + 1 .. r - 1 /\ k # i)
        BY <1>0, <2>1
      <3>2. s[r] = Comma
        BY <1>3, <2>1
      <3>3. s[k] = Comma \/ s[k] = Line
        BY <1>3, <3>1, <3>2, Zenon
      <3> QED
        BY <3>3, FlatTokens, Zenon
    <2>3. Depth(s, r) = 0
      BY <1>2, <2>1, <2>2, DepthSame
    <2> QED
      BY <1>0, <1>3, <2>1, <2>3, Zenon
  <1>6. \A j \in c + 1 .. d - 1 : j \in l + 1 .. r - 1
    BY <1>0, <1>4, <1>5
  <1> QED
    BY <1>3, <1>6, Zenon

\* The only token between two cuts is a column by itself.
LEMMA AloneHere ==
  ASSUME NEW s, Statement(s), PlainClauses(s), s[1] = Kw("SELECT"), NEW c, NEW d, Column(s, c, d),
         NEW i \in c + 1 .. d - 1, \A j \in c + 1 .. d - 1 : j = i \/ s[j] = Line, Deeper(s[i]) = 0
  PROVE  Alone(s, i)
PROOF
  <1> DEFINE g == FirstFrom(s)
             e == ListEnd(s)
  <1>0. g \in Nat /\ c \in 1 .. g /\ d \in 1 .. g /\ c < d
    BY CutIs DEF Column
  <1>1. Depth(s, c) = 0 /\ (c = 1 \/ s[c] = Comma) /\ (d = g \/ s[d] = Comma)
    <2>1. c # g /\ d # 1
      BY <1>0
    <2> QED
      BY <2>1, CutIs, Zenon DEF Column
  <1>2. e \in g .. Len(s) /\ Len(s) \in Nat /\ (Depth(s, g) = 0 => e = g) /\ s[g] = Kw("FROM")
    BY ListEndIs, CutIs, FromFound
  <1> HIDE DEF g, e
  <1>3. \A k \in c + 1 .. d - 1 : Deeper(s[k]) = 0
    BY FlatTokens, Zenon
  <1>4. Depth(s, i) = 0
    <2>1. c \in Nat /\ i \in Nat /\ c =< i /\ \A k \in c + 1 .. i : k \in c + 1 .. d - 1
      BY <1>0
    <2> QED
      BY <1>1, <1>3, <2>1, DepthSame
  <1>5. d = e \/ s[d] = Comma
    <2> SUFFICES ASSUME d = g PROVE d = e
      BY <1>1
    <2>1. c \in Nat /\ d \in Nat /\ c =< d /\ \A k \in c + 1 .. d : k = d \/ k \in c + 1 .. d - 1
      BY <1>0
    <2>2. Deeper(s[d]) = 0
      BY <1>2, FlatTokens, Zenon
    <2>3. \A k \in c + 1 .. d : Deeper(s[k]) = 0
      BY <1>3, <2>1, <2>2, Zenon
    <2>4. Depth(s, d) = 0
      BY <1>1, <2>1, <2>3, DepthSame
    <2> QED
      BY <1>2, <2>4
  <1>6. c \in 1 .. i - 1 /\ d \in i + 1 .. e
    BY <1>0, <1>2
  <1> QED
    BY <1>1, <1>4, <1>5, <1>6, Zenon DEF Alone, e

-----------------------------------------------------------------------------
(* What the tokens between two cuts mean, and what the parser makes of them. *)

\* A plain statement, its tokens and a schema.
Given(X, s, sch) == /\ s \in Seq(X) /\ Tokens(X) /\ Statement(s) /\ Plain(s)
                    /\ Schema(sch) /\ SchemaTokens(X, sch) /\ Filled(sch)

\* The facts of Given the proofs need.
LEMMA GivenIs ==
  ASSUME NEW X, NEW s, NEW sch, Given(X, s, sch)
  PROVE  /\ s \in Seq(X) /\ Tokens(X) /\ Statement(s) /\ Schema(sch) /\ Filled(sch)
         /\ \A c \in Pairs(sch) : Flat(c) \in X
         /\ Comma \in X /\ (\A t \in X : Read(t) \in X) /\ NoQuotedRef(s)
         /\ s[1] = Kw("SELECT") /\ PlainWords(s) /\ PlainClauses(s) /\ PlainColumns(s)
         /\ FirstFrom(s) \in Nat /\ Len(s) \in Nat /\ FirstFrom(s) =< Len(s) - 1 /\ FirstFrom(s) >= 3
         /\ DOMAIN s = 1 .. Len(s)
PROOF
  <1>1. s \in Seq(X) /\ Tokens(X) /\ Statement(s) /\ Schema(sch) /\ SchemaTokens(X, sch) /\ Filled(sch)
        /\ s[1] = Kw("SELECT") /\ PlainWords(s) /\ PlainClauses(s) /\ PlainColumns(s)
    BY Zenon DEF Given, Plain
  <1>2. NoQuotedRef(s)
    BY <1>1, Zenon DEF PlainWords, NoQuotedRef
  <1>3. Comma \in X /\ (\A t \in X : Read(t) \in X) /\ \A c \in Pairs(sch) : Flat(c) \in X
    BY <1>1 DEF Tokens, SchemaTokens
  <1>4. DOMAIN s = 1 .. Len(s)
    BY <1>1, LenProperties
  <1> QED
    BY <1>1, <1>2, <1>3, <1>4, CutIs, Zenon

\* The pieces of what a statement means.
Pieces(s, sch) ==
  [i \in DOMAIN s |-> IF i < FirstFrom(s) THEN OneLine(ListToken(s, i, sch)) ELSE Reads(s)[i]]

StandsForGroup(s, i, sch) == Alone(s, i) /\ s[i][1] = "ref" /\ s[i][3] = All /\ HasGroup(sch, s[i][2])
StandsForColumn(s, i, sch) == Alone(s, i) /\ s[i][1] = "name" /\ ~Internal(s[i][2]) /\ Cardinality(Owners(sch, s[i][2])) = 1

\* ListToken by its three cases.
LEMMA ListTokenIs ==
  ASSUME NEW s, NEW i, NEW sch
  PROVE  /\ StandsForGroup(s, i, sch) => ListToken(s, i, sch) = Join(Named(GroupColumns(sch, s[i][2])))
         /\ StandsForColumn(s, i, sch) => ListToken(s, i, sch) = <<Flat(CHOOSE c \in Owners(sch, s[i][2]) : TRUE)>>
         /\ ~StandsForGroup(s, i, sch) /\ ~StandsForColumn(s, i, sch) => ListToken(s, i, sch) = <<Read(s[i])>>
PROOF
  <1> DEFINE A == StandsForGroup(s, i, sch)
             B == StandsForColumn(s, i, sch)
             x == Join(Named(GroupColumns(sch, s[i][2])))
             y == <<Flat(CHOOSE c \in Owners(sch, s[i][2]) : TRUE)>>
             z == <<Read(s[i])>>
  <1>1. ListToken(s, i, sch) = CASE A -> x [] B -> y [] OTHER -> z
    BY Zenon DEF ListToken, StandsForGroup, StandsForColumn
  <1>2. ~(A /\ B)
    BY DEF StandsForGroup, StandsForColumn
  <1> HIDE DEF A, B, x, y, z
  <1>3. /\ A => ListToken(s, i, sch) = x
        /\ B => ListToken(s, i, sch) = y
        /\ ~A /\ ~B => ListToken(s, i, sch) = z
    BY <1>1, <1>2
  <1> QED
    BY <1>3, Zenon DEF A, B, x, y, z

\* A token stands for tokens.
LEMMA ListTokenType ==
  ASSUME NEW X, NEW s, NEW sch, Given(X, s, sch), NEW i \in DOMAIN s
  PROVE  ListToken(s, i, sch) \in Seq(X)
PROOF
  <1>0. Comma \in X /\ (\A t \in X : Read(t) \in X) /\ Schema(sch) /\ \A c \in Pairs(sch) : Flat(c) \in X
    BY GivenIs, Zenon
  <1>1. CASE StandsForGroup(s, i, sch)
    <2>1. GroupColumns(sch, s[i][2]) \in Seq(Pairs(sch))
      BY <1>0, <1>1, GroupColumnsType, Zenon DEF StandsForGroup
    <2>2. Named(GroupColumns(sch, s[i][2])) \in Seq(Seq(X))
      BY <1>0, <2>1, NamedType, Zenon
    <2>3. Join(Named(GroupColumns(sch, s[i][2]))) \in Seq(X)
      BY <1>0, <2>2, JoinType, Zenon
    <2> QED
      BY <1>1, <2>3, ListTokenIs, Zenon
  <1>2. CASE StandsForColumn(s, i, sch)
    <2>1. Flat(CHOOSE c \in Owners(sch, s[i][2]) : TRUE) \in X
      BY <1>0, <1>2, OwnerType, Zenon DEF StandsForColumn
    <2>2. <<Flat(CHOOSE c \in Owners(sch, s[i][2]) : TRUE)>> \in Seq(X)
      BY <2>1, Single, Zenon
    <2> QED
      BY <1>2, <2>2, ListTokenIs, Zenon
  <1>3. CASE ~StandsForGroup(s, i, sch) /\ ~StandsForColumn(s, i, sch)
    <2>1. s[i] \in X
      <3>1. s \in Seq(X) /\ DOMAIN s = 1 .. Len(s)
        BY GivenIs, Zenon
      <3> QED
        BY <3>1, ElementOfSeq, Zenon
    <2>2. <<Read(s[i])>> \in Seq(X)
      BY <1>0, <2>1, Single, Zenon
    <2> QED
      BY <1>3, <2>2, ListTokenIs, Zenon
  <1> QED
    BY <1>1, <1>2, <1>3

LEMMA ReadPiece ==
  ASSUME NEW t
  PROVE  OneLine(<<Read(t)>>) = IF t = Line THEN <<>> ELSE <<Read(t)>>
BY OneLineOne, ReadLine, Zenon

\* A piece is what its token stands for; after the first FROM, the token as it reads.
LEMMA PieceIs ==
  ASSUME NEW X, NEW s, NEW sch, Given(X, s, sch), NEW i \in 1 .. Len(s)
  PROVE  /\ i < FirstFrom(s) => Pieces(s, sch)[i] = OneLine(ListToken(s, i, sch))
         /\ ~ (i < FirstFrom(s)) => Pieces(s, sch)[i] = Reads(s)[i]
         /\ ~StandsForGroup(s, i, sch) /\ ~StandsForColumn(s, i, sch) => Pieces(s, sch)[i] = Reads(s)[i]
         /\ s[i] = Line => Pieces(s, sch)[i] = <<>> /\ Reads(s)[i] = <<>>
         /\ s[i] # Line => Reads(s)[i] = <<Read(s[i])>>
PROOF
  <1>0. s \in Seq(X) /\ (\A t \in X : Read(t) \in X) /\ DOMAIN s = 1 .. Len(s) /\ Len(s) \in Nat
    BY GivenIs, Zenon
  <1>1. Reads(s)[i] = IF s[i] = Line THEN <<>> ELSE <<Read(s[i])>>
    BY <1>0, ReadsType, Zenon
  <1>2. Pieces(s, sch)[i] = IF i < FirstFrom(s) THEN OneLine(ListToken(s, i, sch)) ELSE Reads(s)[i]
    BY <1>0, Zenon DEF Pieces
  <1>3. ASSUME ~StandsForGroup(s, i, sch), ~StandsForColumn(s, i, sch)
        PROVE  Pieces(s, sch)[i] = Reads(s)[i]
    <2>1. ListToken(s, i, sch) = <<Read(s[i])>>
      BY <1>3, ListTokenIs, Zenon
    <2>2. OneLine(ListToken(s, i, sch)) = Reads(s)[i]
      BY <1>1, <2>1, ReadPiece, Zenon
    <2> QED
      BY <1>2, <2>2, Zenon
  <1>4. ASSUME s[i] = Line
        PROVE  Pieces(s, sch)[i] = <<>> /\ Reads(s)[i] = <<>>
    <2>1. ~StandsForGroup(s, i, sch) /\ ~StandsForColumn(s, i, sch)
      BY <1>4 DEF StandsForGroup, StandsForColumn, Line, Sym
    <2> QED
      BY <1>1, <1>3, <1>4, <2>1, Zenon
  <1>5. /\ i < FirstFrom(s) => Pieces(s, sch)[i] = OneLine(ListToken(s, i, sch))
        /\ ~ (i < FirstFrom(s)) => Pieces(s, sch)[i] = Reads(s)[i]
        /\ s[i] # Line => Reads(s)[i] = <<Read(s[i])>>
    BY <1>1, <1>2, Zenon
  <1> QED
    BY <1>3, <1>4, <1>5, Zenon

\* Each piece is a sequence of tokens.
LEMMA PiecesType ==
  ASSUME NEW X, NEW s, NEW sch, Given(X, s, sch)
  PROVE  /\ Pieces(s, sch) \in Seq(Seq(X)) /\ Len(Pieces(s, sch)) = Len(s)
         /\ Reads(s) \in Seq(Seq(X)) /\ Len(Reads(s)) = Len(s)
PROOF
  <1>0. s \in Seq(X) /\ (\A t \in X : Read(t) \in X) /\ DOMAIN s = 1 .. Len(s) /\ Len(s) \in Nat
    BY GivenIs, Zenon
  <1>1. Reads(s) \in Seq(Seq(X)) /\ Len(Reads(s)) = Len(s)
    BY <1>0, ReadsType, Zenon
  <1> DEFINE C(i) == IF i < FirstFrom(s) THEN OneLine(ListToken(s, i, sch)) ELSE Reads(s)[i]
             P == Pieces(s, sch)
  <1>2. P = [i \in 1 .. Len(s) |-> C(i)]
    BY <1>0, Zenon DEF Pieces
  <1>3. \A i \in 1 .. Len(s) : C(i) \in Seq(X)
    <2> SUFFICES ASSUME NEW i \in 1 .. Len(s) PROVE C(i) \in Seq(X)
      OBVIOUS
    <2>1. OneLine(ListToken(s, i, sch)) \in Seq(X)
      BY <1>0, ListTokenType, OneLineType, Zenon
    <2>2. Reads(s)[i] \in Seq(X)
      BY <1>1, ElementOfSeq, Zenon
    <2> QED
      BY <2>1, <2>2, Zenon
  <1>4. P \in Seq(Seq(X)) /\ Len(P) = Len(s)
    <2> HIDE DEF C, P
    <2> QED
      BY <1>0, <1>2, <1>3
  <1> QED
    BY <1>1, <1>4, Zenon

\* One column of the list is what ParseColumn makes of its only token.
OneColumn(t) ==
  CASE t[1] = "ref" /\ t[3] = All -> <<"group", t[2]>>
    [] t[1] = "ref" /\ t[3] # All -> <<"column", t[2], t[3]>>
    [] t[1] = "name" -> <<"unqualified", t[2]>>
    [] OTHER -> <<"other">>

\* The text between two cuts, and what the parser makes of it.
Text(s, c, d) == Trim(SubSeq(s, c + 1, d - 1))
IsCall(s, c, d) == \E k \in c + 1 .. d - 1 : s[k] = Sym("(")
ParsedAs(s, c, d, m, n) ==
  ParseColumn(Text(s, c, d)) = IF IsCall(s, c, d) \/ Underscored(SubSeq(s, m, n))
                               THEN <<"text", SubSeq(s, m, n)>>
                               ELSE IF m # n THEN <<"other">> ELSE OneColumn(s[m])
Parsed(s, c, d) ==
  \E m, n \in Int : /\ Trims(s, c + 1, d - 1, m, n) /\ m =< n
                    /\ Underscored(SubSeq(s, m, n)) => m # n
                    /\ ParsedAs(s, c, d, m, n)

\* ParseColumn on the text between two cuts.
LEMMA ColumnParsed ==
  ASSUME NEW X, NEW s, NEW sch, Given(X, s, sch), NEW c, NEW d, Column(s, c, d)
  PROVE  /\ Text(s, c, d) \in Seq(X) /\ Text(s, c, d) # <<>> /\ c \in 1 .. FirstFrom(s) /\ d \in 1 .. FirstFrom(s)
         /\ Parsed(s, c, d)
PROOF
  <1> DEFINE g == FirstFrom(s)
             a == c + 1
             b == d - 1
             part == Trim(SubSeq(s, a, b))
  <1>0. /\ s \in Seq(X) /\ Len(s) \in Nat /\ g \in Nat /\ g =< Len(s) - 1 /\ DOMAIN s = 1 .. Len(s)
        /\ PlainWords(s)
    BY GivenIs, Zenon
  <1>1. c \in 1 .. g /\ d \in 1 .. g /\ c < d
    <2>1. Statement(s) /\ PlainClauses(s) /\ s[1] = Kw("SELECT")
      BY GivenIs, Zenon
    <2> QED
      BY <2>1, CutIs, Zenon DEF Column
  <1> HIDE DEF g
  <1>2. a \in Int /\ b \in Int /\ 1 =< a /\ a =< b + 1 /\ b =< Len(s)
    BY <1>0, <1>1
  <1>3. \E k \in a .. b : s[k] # Line
    BY <1>1, GivenIs, Zenon DEF PlainColumns, Column
  <1> HIDE DEF a, b
  <1>4. PICK p, q \in Int : Trims(s, a, b, p, q) /\ part = SubSeq(s, p, q)
    BY <1>0, <1>2, TrimSlice, Zenon
  <1>5. a =< p /\ q =< b /\ p =< q + 1
        /\ (\A i \in a .. p - 1 : s[i] = Line) /\ \A i \in q + 1 .. b : s[i] = Line
    BY <1>4, Zenon DEF Trims
  <1>6. p =< q
    <2> SUFFICES ASSUME ~ (p =< q) PROVE FALSE
      OBVIOUS
    <2>1. PICK k \in a .. b : s[k] # Line
      BY <1>3
    <2>2. k \in a .. p - 1 \/ k \in q + 1 .. b
      BY <1>2, <1>5
    <2> QED
      BY <1>5, <2>1, <2>2, Zenon
  <1>7. part \in Seq(X) /\ Len(part) = q - p + 1 /\ \A i \in 1 .. q - p + 1 : part[i] = s[p + i - 1]
    <2>1. 1 =< p /\ q =< Len(s)
      BY <1>2, <1>5
    <2> HIDE DEF part
    <2>2. SubSeq(s, p, q) \in Seq(X) /\ Len(SubSeq(s, p, q)) = (IF p =< q THEN q - p + 1 ELSE 0)
          /\ \A i \in 1 .. q - p + 1 : SubSeq(s, p, q)[i] = s[p + i - 1]
      BY <1>0, <2>1, SliceType
    <2> QED
      BY <1>4, <1>6, <2>2, Zenon
  <1> HIDE DEF part
  <1>8. First(part, {"AS"}) = 0
    <2> SUFFICES ASSUME NEW k, Found(part, {"AS"}, k) PROVE FALSE
      BY <1>7, FirstIs, Zenon
    <2>1. k \in 2 .. Len(part) - 1 /\ IsWord(part[k], {"AS"})
      BY Zenon DEF Found
    <2>2. k \in 1 .. q - p + 1 /\ p + k - 1 \in 1 .. Len(s)
      BY <1>0, <1>2, <1>5, <1>7, <2>1
    <2>3. part[k] = s[p + k - 1] /\ p + k - 1 \in DOMAIN s
      BY <1>0, <1>7, <2>2, Zenon
    <2>4. ~IsWord(part[k], {"UNION", "AS"})
      BY <1>0, <2>3, Zenon DEF PlainWords
    <2> QED
      BY <2>1, <2>4 DEF IsWord
  <1> DEFINE text == Trim(Before(part, First(part, {"AS"})))
  <1>9. text = Trim(SubSeq(s, p, q))
    BY <1>4, <1>8, Zenon DEF Before
  <1>10. PICK m, n \in Int : Trims(s, p, q, m, n) /\ Trim(SubSeq(s, p, q)) = SubSeq(s, m, n)
    <2>1. 1 =< p /\ p =< q + 1 /\ q =< Len(s)
      BY <1>2, <1>5
    <2> QED
      BY <1>0, <2>1, TrimSlice, Zenon
  <1>11. p =< m /\ n =< q /\ m =< n + 1 /\ (m =< n => s[m] # Line /\ s[n] # Line)
         /\ (\A i \in p .. m - 1 : s[i] = Line) /\ \A i \in n + 1 .. q : s[i] = Line
    BY <1>10, Zenon DEF Trims
  <1>12. Trims(s, a, b, m, n)
    <2>1. \A i \in a .. m - 1 : i \in a .. p - 1 \/ i \in p .. m - 1
      BY <1>2, <1>5, <1>11
    <2>2. \A i \in n + 1 .. b : i \in n + 1 .. q \/ i \in q + 1 .. b
      BY <1>2, <1>5, <1>11
    <2>3. a =< m /\ n =< b
      BY <1>2, <1>5, <1>11
    <2> QED
      BY <1>5, <1>11, <2>1, <2>2, <2>3, Zenon DEF Trims
  <1>13. m =< n
    <2> SUFFICES ASSUME ~ (m =< n) PROVE FALSE
      OBVIOUS
    <2>1. PICK k \in a .. b : s[k] # Line
      BY <1>3
    <2>2. k \in a .. m - 1 \/ k \in n + 1 .. b
      BY <1>2, <1>11
    <2> QED
      BY <1>12, <2>1, <2>2, Zenon DEF Trims
  <1>14. /\ text \in Seq(X) /\ Len(text) = n - m + 1 /\ DOMAIN text = 1 .. n - m + 1
         /\ \A i \in 1 .. n - m + 1 : text[i] = s[m + i - 1]
    <2>1. 1 =< m /\ n =< Len(s)
      BY <1>2, <1>5, <1>11
    <2> HIDE DEF part, text
    <2>2. SubSeq(s, m, n) \in Seq(X) /\ Len(SubSeq(s, m, n)) = (IF m =< n THEN n - m + 1 ELSE 0)
          /\ \A i \in 1 .. n - m + 1 : SubSeq(s, m, n)[i] = s[m + i - 1]
      BY <1>0, <2>1, SliceType
    <2>3. text \in Seq(X) /\ Len(text) = n - m + 1 /\ \A i \in 1 .. n - m + 1 : text[i] = s[m + i - 1]
      BY <1>9, <1>10, <1>13, <2>2, Zenon
    <2>4. DOMAIN text = 1 .. Len(text)
      BY <2>3, LenProperties, Zenon
    <2> QED
      BY <2>3, <2>4, Zenon
  <1>15. text = SubSeq(s, m, n)
    BY <1>9, <1>10, Zenon
  <1>16. ParseColumn(part) = IF Sym("(") \in ToSet(text) \/ Underscored(text) THEN <<"text", text>>
                             ELSE IF Len(text) # 1 THEN <<"other">> ELSE OneColumn(text[1])
    BY Zenon DEF ParseColumn, OneColumn
  <1> HIDE DEF text
  <1>17. Sym("(") \in ToSet(text) <=> IsCall(s, c, d)
    <2>1. ASSUME NEW i \in DOMAIN text, text[i] = Sym("(") PROVE IsCall(s, c, d)
      <3>1. m + i - 1 \in a .. b /\ text[i] = s[m + i - 1]
        <4>1. i \in 1 .. n - m + 1
          BY <1>14, <2>1
        <4>2. a =< m /\ n =< b
          BY <1>12, Zenon DEF Trims
        <4>3. m + i - 1 \in a .. b
          BY <1>2, <4>1, <4>2
        <4> QED
          BY <1>14, <4>1, <4>3, Zenon
      <3> QED
        BY <2>1, <3>1, Zenon DEF IsCall, a, b
    <2>2. ASSUME NEW k \in a .. b, s[k] = Sym("(") PROVE \E i \in DOMAIN text : text[i] = Sym("(")
      <3>1. s[k] # Line
        BY <2>2 DEF Line, Sym
      <3>2. ~ (k \in a .. m - 1) /\ ~ (k \in n + 1 .. b)
        BY <1>12, <3>1, Zenon DEF Trims
      <3>3. k - m + 1 \in 1 .. n - m + 1 /\ m + (k - m + 1) - 1 = k
        BY <1>2, <3>2
      <3>4. text[k - m + 1] = s[m + (k - m + 1) - 1]
        BY <1>14, <3>3, Zenon
      <3> QED
        BY <1>14, <2>2, <3>3, <3>4, Zenon
    <2>3. Sym("(") \in ToSet(text) <=> \E i \in DOMAIN text : text[i] = Sym("(")
      BY DEF ToSet
    <2> QED
      BY <2>1, <2>2, <2>3, Zenon DEF IsCall, a, b
  <1>18. Len(text) # 1 <=> m # n
    BY <1>14
  <1>19. m = n => text[1] = s[m]
    <2> SUFFICES ASSUME m = n PROVE text[1] = s[m]
      OBVIOUS
    <2>1. 1 \in 1 .. n - m + 1 /\ m + 1 - 1 = m
      OBVIOUS
    <2>2. text[1] = s[m + 1 - 1]
      BY <1>14, <2>1, Zenon
    <2> QED
      BY <2>1, <2>2
  <1>20. ParseColumn(part) = IF IsCall(s, c, d) \/ Underscored(SubSeq(s, m, n))
                             THEN <<"text", SubSeq(s, m, n)>>
                             ELSE IF m # n THEN <<"other">> ELSE OneColumn(s[m])
    BY <1>15, <1>16, <1>17, <1>18, <1>19, Zenon
  <1>22. Underscored(SubSeq(s, m, n)) => m # n
    BY <1>15, <1>18, Zenon DEF Underscored
  <1>21. part # <<>>
    <2>1. Len(part) # 0
      BY <1>6, <1>7
    <2>2. Len(<<>>) = 0
      OBVIOUS
    <2> QED
      BY <2>1, <2>2, Zenon
  <1> QED
    BY <1>1, <1>7, <1>12, <1>13, <1>20, <1>21, <1>22, Zenon DEF Parsed, ParsedAs, Text, part, a, b, g

-----------------------------------------------------------------------------
(* One column: what Translate makes of it is what it means. *)

\* What each kind of column becomes.
LEMMA ColumnBecomes ==
  ASSUME NEW sch
  PROVE  /\ \A p : TranslateColumn(<<"text", p>>, sch) = <<TranslateColumnRefs(p)>>
         /\ TranslateColumn(<<"other">>, sch) = Refused
         /\ \A g : TranslateColumn(<<"group", g>>, sch)
                     = IF HasGroup(sch, g) THEN Named(GroupColumns(sch, g)) ELSE Refused
         /\ \A g, n : TranslateColumn(<<"column", g, n>>, sch) = Named(<<<<g, n>>>>)
         /\ \A n : /\ Internal(n) => TranslateColumn(<<"unqualified", n>>, sch) = <<<<Name(n)>>>>
                   /\ ~Internal(n) /\ Cardinality(Owners(sch, n)) = 1 =>
                        TranslateColumn(<<"unqualified", n>>, sch) = Named(<<CHOOSE c \in Owners(sch, n) : TRUE>>)
                   /\ ~Internal(n) /\ Cardinality(Owners(sch, n)) # 1 =>
                        TranslateColumn(<<"unqualified", n>>, sch) = Refused
PROOF
  <1>1. ASSUME NEW p
        PROVE  TranslateColumn(<<"text", p>>, sch) = <<TranslateColumnRefs(p)>>
    BY DEF TranslateColumn
  <1>2. TranslateColumn(<<"other">>, sch) = Refused
    BY DEF TranslateColumn
  <1>3. ASSUME NEW g
        PROVE  TranslateColumn(<<"group", g>>, sch) = IF HasGroup(sch, g) THEN Named(GroupColumns(sch, g)) ELSE Refused
    BY DEF TranslateColumn
  <1>4. ASSUME NEW g, NEW n
        PROVE  TranslateColumn(<<"column", g, n>>, sch) = Named(<<<<g, n>>>>)
    BY DEF TranslateColumn
  <1>5. ASSUME NEW n
        PROVE  /\ Internal(n) => TranslateColumn(<<"unqualified", n>>, sch) = <<<<Name(n)>>>>
               /\ ~Internal(n) /\ Cardinality(Owners(sch, n)) = 1 =>
                    TranslateColumn(<<"unqualified", n>>, sch) = Named(<<CHOOSE c \in Owners(sch, n) : TRUE>>)
               /\ ~Internal(n) /\ Cardinality(Owners(sch, n)) # 1 =>
                    TranslateColumn(<<"unqualified", n>>, sch) = Refused
    <2> DEFINE u == <<"unqualified", n>>
               found == ResolveUnqualifiedColumn(sch, n)
    <2>1. u[1] = "unqualified" /\ u[2] = n
      OBVIOUS
    <2>2. /\ Internal(n) => TranslateColumn(u, sch) = <<<<Name(n)>>>>
          /\ ~Internal(n) => TranslateColumn(u, sch) = IF found = <<>> THEN Refused ELSE Named(found)
      <3> HIDE DEF u
      <3>1. u[1] # "text" /\ u[1] # "group" /\ u[1] # "column"
        BY <2>1
      <3> QED
        BY <2>1, <3>1, Zenon DEF TranslateColumn, Internal
    <2>3. /\ Cardinality(Owners(sch, n)) = 1 => found = <<CHOOSE c \in Owners(sch, n) : TRUE>>
          /\ Cardinality(Owners(sch, n)) # 1 => found = <<>>
      BY Zenon DEF ResolveUnqualifiedColumn
    <2>4. \A z : <<z>> # <<>>
      OBVIOUS
    <2> HIDE DEF found
    <2> QED
      BY <2>2, <2>3, <2>4, Zenon
  <1> QED
    BY <1>1, <1>2, <1>3, <1>4, <1>5, Zenon

LEMMA NamedOne == \A c : Named(<<c>>) = <<<<Flat(c)>>>>
BY DEF Named

\* A token that is a column by itself becomes what it stands for.
LEMMA TokenReadsRight ==
  ASSUME NEW X, NEW s, NEW sch, Given(X, s, sch), NEW m \in DOMAIN s, Alone(s, m)
  PROVE  LET t == TranslateColumn(OneColumn(s[m]), sch)
         IN t # Refused => t \in Seq(Seq(X)) /\ t # <<>> /\ Join(t) = ListToken(s, m, sch)
PROOF
  <1> DEFINE tok == s[m]
             t == TranslateColumn(OneColumn(tok), sch)
  <1>0. /\ s \in Seq(X) /\ Comma \in X /\ (\A u \in X : Read(u) \in X) /\ Schema(sch) /\ Filled(sch)
        /\ (\A c \in Pairs(sch) : Flat(c) \in X) /\ Statement(s) /\ DOMAIN s = 1 .. Len(s)
    BY GivenIs, Zenon
  <1>1. tok \in X /\ Read(tok) \in X
    BY <1>0, ElementOfSeq, Zenon
  <1>2. SUFFICES ASSUME t # Refused PROVE t \in Seq(Seq(X)) /\ t # <<>> /\ Join(t) = ListToken(s, m, sch)
    BY Zenon
  <1>3. ASSUME NEW u \in X, t = <<<<u>>>>, ListToken(s, m, sch) = <<u>>
        PROVE  t \in Seq(Seq(X)) /\ t # <<>> /\ Join(t) = ListToken(s, m, sch)
    <2>1. <<u>> \in Seq(X)
      BY Single, Zenon
    <2>2. <<<<u>>>> \in Seq(Seq(X)) /\ <<<<u>>>> # <<>>
      BY <2>1, Single, Zenon
    <2>3. Join(<<<<u>>>>) = <<u>>
      BY <1>0, <2>1, JoinOne, Zenon
    <2> QED
      BY <1>3, <2>2, <2>3, Zenon
  <1>4. CASE tok[1] = "ref" /\ tok[3] = All
    <2>1. OneColumn(tok) = <<"group", tok[2]>>
      BY <1>4, Zenon DEF OneColumn
    <2>2. t = IF HasGroup(sch, tok[2]) THEN Named(GroupColumns(sch, tok[2])) ELSE Refused
      BY <2>1, ColumnBecomes, Zenon
    <2>3. HasGroup(sch, tok[2]) /\ t = Named(GroupColumns(sch, tok[2]))
      BY <1>2, <2>2, Zenon
    <2>4. GroupColumns(sch, tok[2]) \in Seq(Pairs(sch)) /\ GroupColumns(sch, tok[2]) # <<>>
      BY <1>0, <2>3, GroupColumnsType, Zenon
    <2>5. t \in Seq(Seq(X)) /\ t # <<>>
      BY <1>0, <2>3, <2>4, NamedType, NamedNotRefused, Zenon
    <2>6. ListToken(s, m, sch) = Join(t)
      BY <1>4, <2>3, ListTokenIs, Zenon DEF StandsForGroup
    <2> QED
      BY <2>5, <2>6, Zenon
  <1>5. CASE tok[1] = "ref" /\ tok[3] # All
    <2>1. OneColumn(tok) = <<"column", tok[2], tok[3]>>
      BY <1>5, Zenon DEF OneColumn
    <2>2. t = <<<<Flat(<<tok[2], tok[3]>>)>>>>
      <3>1. t = Named(<<<<tok[2], tok[3]>>>>)
        <4>1. \A g, n : TranslateColumn(<<"column", g, n>>, sch) = Named(<<<<g, n>>>>)
          BY ColumnBecomes, Zenon
        <4>2. t = TranslateColumn(<<"column", tok[2], tok[3]>>, sch)
          BY <2>1, Zenon
        <4> HIDE DEF t, tok
        <4> QED
          BY <4>1, <4>2
      <3>2. \A g, n : Named(<<<<g, n>>>>) = <<<<Flat(<<g, n>>)>>>>
        BY NamedOne
      <3> HIDE DEF t
      <3> QED
        BY <3>1, <3>2
    <2>3. Flat(<<tok[2], tok[3]>>) = Read(tok)
      BY <1>5 DEF Flat, Read
    <2>4. "ref" # "name"
      OBVIOUS
    <2>5. ListToken(s, m, sch) = <<Read(tok)>>
      BY <1>5, <2>4, ListTokenIs, Zenon DEF StandsForGroup, StandsForColumn
    <2> QED
      BY <1>1, <1>3, <2>2, <2>3, <2>5, Zenon
  <1>6. CASE tok[1] = "name" /\ Internal(tok[2])
    <2>1. OneColumn(tok) = <<"unqualified", tok[2]>>
      BY <1>6 DEF OneColumn
    <2>2. t = <<<<Name(tok[2])>>>>
      BY <1>6, <2>1, ColumnBecomes, Zenon
    <2>3. tok = Name(tok[2])
      BY <1>0, <1>6, Zenon DEF Statement
    <2>4. Read(tok) = tok
      BY <1>6 DEF Read
    <2>5. ListToken(s, m, sch) = <<Read(tok)>>
      <3>1. "ref" # "name"
        OBVIOUS
      <3> QED
        BY <1>6, <3>1, ListTokenIs, Zenon DEF StandsForGroup, StandsForColumn
    <2> QED
      BY <1>1, <1>3, <2>2, <2>3, <2>4, <2>5, Zenon
  <1>7. CASE tok[1] = "name" /\ ~Internal(tok[2])
    <2> DEFINE c == CHOOSE c \in Owners(sch, tok[2]) : TRUE
    <2>1. OneColumn(tok) = <<"unqualified", tok[2]>>
      BY <1>7 DEF OneColumn
    <2>2. Cardinality(Owners(sch, tok[2])) = 1 /\ t = Named(<<c>>)
      BY <1>2, <1>7, <2>1, ColumnBecomes, ZenonT(30)
    <2>3. t = <<<<Flat(c)>>>>
      BY <2>2, NamedOne, Zenon
    <2>4. Flat(c) \in X
      BY <1>0, <2>2, OwnerType, Zenon
    <2>5. ListToken(s, m, sch) = <<Flat(c)>>
      BY <1>7, <2>2, ListTokenIs, Zenon DEF StandsForColumn
    <2> QED
      BY <1>3, <2>3, <2>4, <2>5, Zenon
  <1>8. CASE tok[1] # "name" /\ tok[1] # "ref"
    <2>1. OneColumn(tok) = <<"other">>
      BY <1>8, Zenon DEF OneColumn
    <2> QED
      BY <1>2, <2>1, ColumnBecomes, Zenon
  <1> QED
    BY <1>4, <1>5, <1>6, <1>7, <1>8, Zenon

\* Translator.TranslateColumn on one column of the list.
LEMMA ColumnReads ==
  ASSUME NEW X, NEW s, NEW sch, Given(X, s, sch), NEW c, NEW d, Column(s, c, d)
  PROVE  LET t == TranslateColumn(ParseColumn(Text(s, c, d)), sch)
         IN t # Refused => /\ t \in Seq(Seq(X)) /\ t # <<>>
                           /\ OneLine(Join(t)) = Span(Pieces(s, sch), c + 1, d - 1)
PROOF
  <1> DEFINE t == TranslateColumn(ParseColumn(Text(s, c, d)), sch)
             a == c + 1
             b == d - 1
             F == Pieces(s, sch)
             R == Reads(s)
             g == FirstFrom(s)
  <1>0. /\ s \in Seq(X) /\ Comma \in X /\ (\A u \in X : Read(u) \in X) /\ NoQuotedRef(s)
        /\ Statement(s) /\ DOMAIN s = 1 .. Len(s) /\ PlainClauses(s) /\ s[1] = Kw("SELECT")
        /\ Len(s) \in Nat /\ g \in Nat /\ g =< Len(s) - 1
    BY GivenIs, Zenon
  <1> HIDE DEF t, F, R
  <1>1. /\ F \in Seq(Seq(X)) /\ Len(F) = Len(s) /\ R \in Seq(Seq(X)) /\ Len(R) = Len(s)
        /\ \A i \in 1 .. Len(s) :
             /\ i < g => F[i] = OneLine(ListToken(s, i, sch))
             /\ ~StandsForGroup(s, i, sch) /\ ~StandsForColumn(s, i, sch) => F[i] = R[i]
             /\ s[i] = Line => F[i] = <<>> /\ R[i] = <<>>
    <2>1. /\ F \in Seq(Seq(X)) /\ Len(F) = Len(s) /\ R \in Seq(Seq(X)) /\ Len(R) = Len(s)
      BY PiecesType, Zenon DEF F, R
    <2>2. ASSUME NEW i \in 1 .. Len(s)
          PROVE  /\ i < g => F[i] = OneLine(ListToken(s, i, sch))
                 /\ ~StandsForGroup(s, i, sch) /\ ~StandsForColumn(s, i, sch) => F[i] = R[i]
                 /\ s[i] = Line => F[i] = <<>> /\ R[i] = <<>>
      BY <2>2, PieceIs, SMT DEF F, R
    <2> QED
      BY <2>1, <2>2, Zenon
  <1>2. c \in 1 .. g /\ d \in 1 .. g /\ c < d
    BY ColumnParsed, Zenon DEF Column
  <1> HIDE DEF g
  <1>3. a \in Int /\ b \in Int /\ 1 =< a /\ a =< b + 1 /\ b =< Len(s) /\ b < g
    BY <1>0, <1>2
  <1> HIDE DEF a, b
  <1>4. PICK m, n \in Int : /\ Trims(s, a, b, m, n) /\ m =< n
                            /\ Underscored(SubSeq(s, m, n)) => m # n
                            /\ ParsedAs(s, c, d, m, n)
    BY ColumnParsed, Zenon DEF Parsed, a, b
  <1> DEFINE passed == IsCall(s, c, d) \/ Underscored(SubSeq(s, m, n))
  <1>5. a =< m /\ n =< b /\ m =< n + 1 /\ (m =< n => s[m] # Line /\ s[n] # Line)
        /\ (\A i \in a .. m - 1 : s[i] = Line) /\ \A i \in n + 1 .. b : s[i] = Line
    BY <1>4, Zenon DEF Trims
  <1>6. SUFFICES ASSUME t # Refused
                 PROVE  t \in Seq(Seq(X)) /\ t # <<>> /\ OneLine(Join(t)) = Span(F, a, b)
    BY Zenon DEF t, F, a, b
  <1>7. CASE passed
    <2> DEFINE u == TranslateColumnRefs(SubSeq(s, m, n))
    <2>1. t = <<u>>
      BY <1>4, <1>7, ColumnBecomes, Zenon DEF t, ParsedAs
    <2>2. u \in Seq(X) /\ OneLine(u) = Span(R, m, n)
      <3>1. 1 =< m /\ n =< Len(s)
        BY <1>3, <1>5
      <3> QED
        BY <1>0, <3>1, SliceReads, Zenon DEF R
    <2>3. Span(R, m, n) = Span(R, a, b)
      <3>1. NoLines(s, R)
        BY <1>1, Zenon DEF NoLines
      <3>2. R \in Seq(Seq(X)) /\ a \in Int /\ b \in Int /\ 1 =< a /\ b =< Len(R) /\ Trims(s, a, b, m, n)
        BY <1>1, <1>3, <1>4
      <3> QED
        BY <3>1, <3>2, TrimSpan, SMTT(60)
    <2>4. \A i \in a .. b : F[i] = R[i]
      <3> SUFFICES ASSUME NEW i \in a .. b PROVE F[i] = R[i]
        OBVIOUS
      <3>1. i \in 1 .. Len(s)
        BY <1>3
      <3>2. ASSUME Alone(s, i), s[i][1] \in {"ref", "name"} PROVE FALSE
        <4>1. Deeper(s[i]) = 0
          BY <3>2, FlatTokens
        <4>2. \A j \in a .. b : j = i \/ s[j] = Line
          BY <1>0, <3>2, <4>1, AloneIn, ZenonT(30) DEF a, b
        <4>3. CASE IsCall(s, c, d)
          <5>1. PICK k \in a .. b : s[k] = Sym("(")
            BY <4>3, Zenon DEF IsCall, a, b
          <5>2. s[k] # Line /\ s[k][1] # "ref" /\ s[k][1] # "name"
            BY <5>1 DEF Sym, Line
          <5> QED
            BY <3>2, <4>2, <5>2
        <4>4. CASE Underscored(SubSeq(s, m, n))
          <5>1. m # n /\ s[m] # Line /\ s[n] # Line /\ m \in a .. b /\ n \in a .. b
            BY <1>3, <1>4, <1>5, <4>4
          <5> QED
            BY <4>2, <5>1, Zenon
        <4> QED
          BY <1>7, <4>3, <4>4, Zenon
      <3>3. ~StandsForGroup(s, i, sch) /\ ~StandsForColumn(s, i, sch)
        BY <3>2 DEF StandsForGroup, StandsForColumn
      <3> QED
        BY <1>1, <3>1, <3>3, Zenon
    <2>5. Span(F, a, b) = Span(R, a, b)
      <3>1. b =< Len(F) /\ b =< Len(R)
        BY <1>1, <1>3
      <3> QED
        BY <1>1, <1>3, <2>4, <3>1, SpanSame, ZenonT(60)
    <2>6. t \in Seq(Seq(X)) /\ t # <<>> /\ Join(t) = u
      BY <1>0, <2>1, <2>2, Single, JoinOne, Zenon
    <2> QED
      BY <2>2, <2>3, <2>5, <2>6, Zenon
  <1>8. CASE ~passed
    <2>1. m = n /\ t = TranslateColumn(OneColumn(s[m]), sch)
      <3>1. m # n => t = Refused
        BY <1>4, <1>8, ColumnBecomes, Zenon DEF t, ParsedAs
      <3> QED
        BY <1>4, <1>6, <1>8, <3>1, Zenon DEF t, ParsedAs
    <2>2. m \in a .. b /\ m \in 1 .. Len(s) /\ m < g /\ \A i \in a .. b : i = m \/ s[i] = Line
      BY <1>0, <1>3, <1>5, <2>1
    <2>3. s[m][1] \in {"ref", "name"}
      <3> SUFFICES ASSUME s[m][1] # "ref", s[m][1] # "name" PROVE FALSE
        OBVIOUS
      <3>1. OneColumn(s[m]) = <<"other">>
        BY Zenon DEF OneColumn
      <3> QED
        BY <1>6, <2>1, <3>1, ColumnBecomes, Zenon
    <2>4. Deeper(s[m]) = 0
      BY <2>3, FlatTokens
    <2>5. Alone(s, m)
      BY <1>0, <2>2, <2>4, AloneHere, Zenon DEF a, b
    <2>6. t \in Seq(Seq(X)) /\ t # <<>> /\ Join(t) = ListToken(s, m, sch)
      BY <1>0, <1>6, <2>1, <2>2, <2>5, TokenReadsRight, Zenon
    <2>7. \A i \in a .. b : i = m \/ F[i] = <<>>
      <3> SUFFICES ASSUME NEW i \in a .. b, i # m PROVE F[i] = <<>>
        OBVIOUS
      <3>1. i \in 1 .. Len(s)
        BY <1>3
      <3> QED
        BY <1>1, <2>2, <3>1, Zenon
    <2>8. Span(F, a, b) = F[m]
      <3>1. b =< Len(F)
        BY <1>1, <1>3
      <3> QED
        BY <1>1, <1>3, <2>2, <2>7, <3>1, SpanSingle, Zenon
    <2> QED
      BY <1>1, <2>2, <2>6, <2>8, Zenon
  <1> QED
    BY <1>7, <1>8

-----------------------------------------------------------------------------
(* The columns of a list, one after the other. *)

\* What Translate makes of the parts of a list.
Becomes(P, sch) == [i \in DOMAIN P |-> TranslateColumn(ParseColumn(P[i]), sch)]

\* Translate takes the parts one by one.
LEMMA BecomesAppend ==
  ASSUME NEW sch, NEW S, NEW P \in Seq(S), NEW x \in S
  PROVE  /\ Becomes(Append(P, x), sch) = Append(Becomes(P, sch), TranslateColumn(ParseColumn(x), sch))
         /\ ToSet(Becomes(Append(P, x), sch))
              = ToSet(Becomes(P, sch)) \cup {TranslateColumn(ParseColumn(x), sch)}
PROOF
  <1> DEFINE G(y) == TranslateColumn(ParseColumn(y), sch)
             Q == Append(P, x)
             C == Becomes(P, sch)
             D == Becomes(Q, sch)
             n == Len(P)
  <1>1. C = [i \in DOMAIN P |-> G(P[i])] /\ D = [i \in DOMAIN Q |-> G(Q[i])]
    BY Zenon DEF Becomes
  <1>2. n \in Nat /\ DOMAIN P = 1 .. n /\ DOMAIN Q = 1 .. n + 1 /\ Q[n + 1] = x /\ \A i \in 1 .. n : Q[i] = P[i]
    OBVIOUS
  <1> DEFINE U == {G(P[i]) : i \in 1 .. n} \cup {G(x)}
  <1> HIDE DEF G, Q, C, D, n
  <1>3. C \in Seq(U) /\ Len(C) = n
    BY <1>1, <1>2
  <1>4. D = Append(C, G(x))
    <2> DEFINE A == Append(C, G(x))
    <2> HIDE DEF U
    <2>1. A \in Seq(U) /\ Len(A) = n + 1 /\ A[n + 1] = G(x) /\ \A i \in 1 .. n : A[i] = C[i]
      <3>1. G(x) \in U
        BY Zenon DEF U
      <3> QED
        BY <1>3, <3>1, AppendProperties
    <2>2. DOMAIN D = 1 .. n + 1 /\ D[n + 1] = G(x) /\ \A i \in 1 .. n : D[i] = C[i]
      BY <1>1, <1>2
    <2>3. DOMAIN A = 1 .. n + 1 /\ A = [i \in DOMAIN A |-> A[i]] /\ D = [i \in DOMAIN D |-> D[i]]
      BY <1>1, <2>1, LenProperties
    <2>4. \A i \in 1 .. n + 1 : A[i] = D[i]
      <3> HIDE DEF A
      <3> QED
        BY <1>2, <2>1, <2>2
    <2> HIDE DEF A
    <2>5. A = D
      BY <2>2, <2>3, <2>4
    <2> QED
      BY <2>5 DEF A
  <1>5. ToSet(D) = ToSet(C) \cup {G(x)}
    <2>1. ToSet(D) = {D[i] : i \in DOMAIN D} /\ ToSet(C) = {C[i] : i \in DOMAIN C}
      BY Zenon DEF ToSet
    <2>2. DOMAIN D = 1 .. n + 1 /\ DOMAIN C = 1 .. n
      BY <1>1, <1>2
    <2>3. D[n + 1] = G(x) /\ \A i \in 1 .. n : D[i] = C[i]
      BY <1>1, <1>2
    <2> HIDE DEF U
    <2> QED
      BY <1>2, <2>1, <2>2, <2>3
  <1> QED
    BY <1>4, <1>5, Zenon DEF G, Q, C, D

\* Each part is a column of the list.
Texts(s, P) == \A k \in 1 .. Len(P) : \E c, d : Column(s, c, d) /\ P[k] = Text(s, c, d)
\* The columns before position c mean what the tokens there mean.
ListRead(X, s, sch, C, c) ==
  /\ C \in Seq(Seq(Seq(X))) /\ FlattenSeq(C) # <<>>
  /\ OneLine(Join(FlattenSeq(C))) = Span(Pieces(s, sch), 2, c - 1)
Parts(X, s, sch, P, c) ==
  /\ P \in Seq(Seq(X)) /\ Texts(s, P)
  /\ c = 1 => P = <<>>
  /\ c # 1 => P # <<>> /\ (Refused \notin ToSet(Becomes(P, sch)) => ListRead(X, s, sch, Becomes(P, sch), c))

LEMMA CommaIs == Comma[1] # "ref" /\ Comma[1] # "name" /\ Comma # Line
BY DEF Comma, Sym, Line

\* A column more.
LEMMA PartsAdd ==
  ASSUME NEW X, NEW s, NEW sch, Given(X, s, sch), NEW c, NEW d, Column(s, c, d),
         NEW P, Parts(X, s, sch, P, c)
  PROVE  Parts(X, s, sch, Append(P, Text(s, c, d)), d)
PROOF
  <1> DEFINE x == Text(s, c, d)
             t == TranslateColumn(ParseColumn(x), sch)
             C == Becomes(P, sch)
             Q == Append(P, x)
             D == Becomes(Q, sch)
             F == Pieces(s, sch)
             g == FirstFrom(s)
  <1>1. x \in Seq(X) /\ c \in 1 .. g /\ d \in 1 .. g /\ c < d
    BY ColumnParsed, Zenon DEF Column
  <1>2. P \in Seq(Seq(X)) /\ Texts(s, P)
    BY Zenon DEF Parts
  <1>3. D = Append(C, t) /\ ToSet(D) = ToSet(C) \cup {t}
    <2>1. \A u \in Seq(X) : /\ Becomes(Append(P, u), sch) = Append(Becomes(P, sch), TranslateColumn(ParseColumn(u), sch))
                           /\ ToSet(Becomes(Append(P, u), sch))
                                = ToSet(Becomes(P, sch)) \cup {TranslateColumn(ParseColumn(u), sch)}
      BY <1>2, BecomesAppend
    <2> HIDE DEF x
    <2> QED
      BY <1>1, <2>1, Zenon
  <1>4. t # Refused => /\ t \in Seq(Seq(X)) /\ t # <<>>
                       /\ OneLine(Join(t)) = Span(F, c + 1, d - 1)
    BY ColumnReads
  <1>5. F \in Seq(Seq(X)) /\ Len(F) = Len(s) /\ g \in Nat /\ Len(s) \in Nat /\ g =< Len(s) - 1
    BY GivenIs, PiecesType, Zenon
  <1>6. Comma \in X
    BY GivenIs, Zenon
  <1> HIDE DEF x, t, F, g
  <1>7. Q \in Seq(Seq(X)) /\ Q # <<>> /\ Len(Q) = Len(P) + 1 /\ Len(P) \in Nat /\ Q[Len(P) + 1] = x
        /\ \A k \in 1 .. Len(P) : Q[k] = P[k]
    BY <1>1, <1>2
  <1>8. Texts(s, Q)
    <2> HIDE DEF Q
    <2> SUFFICES ASSUME NEW k \in 1 .. Len(Q) PROVE \E c1, d1 : Column(s, c1, d1) /\ Q[k] = Text(s, c1, d1)
      BY Zenon DEF Texts
    <2>1. k \in 1 .. Len(P) \/ k = Len(P) + 1
      BY <1>7
    <2> QED
      BY <1>2, <1>7, <2>1, Zenon DEF Texts, x
  <1> HIDE DEF Q, C, D
  <1>9. ASSUME Refused \notin ToSet(D) PROVE ListRead(X, s, sch, D, d)
    <2>1. Refused \notin ToSet(C) /\ t # Refused
      BY <1>3, <1>9
    <2>2. t \in Seq(Seq(X)) /\ t # <<>> /\ OneLine(Join(t)) = Span(F, c + 1, d - 1)
      BY <1>4, <2>1, Zenon
    <2>3. CASE c = 1
      <3>1. P = <<>>
        BY <2>3, Zenon DEF Parts
      <3>2. C = <<>>
        BY <3>1 DEF C, Becomes
      <3>3. D = <<t>>
        BY <1>3, <3>2
      <3>4. FlattenSeq(D) = t /\ D \in Seq(Seq(Seq(X)))
        BY <2>2, <3>3, FlattenOne, Single, Zenon
      <3> QED
        BY <2>2, <2>3, <3>4 DEF ListRead, F
    <2>4. CASE c # 1
      <3> DEFINE A == FlattenSeq(C)
      <3>1. ListRead(X, s, sch, C, c)
        BY <2>1, <2>4, Zenon DEF Parts, C
      <3>2. C \in Seq(Seq(Seq(X))) /\ A # <<>> /\ OneLine(Join(A)) = Span(F, 2, c - 1)
        BY <3>1, Zenon DEF ListRead, F
      <3>3. A \in Seq(Seq(X))
        BY <3>2, FlattenType, Zenon
      <3> HIDE DEF A
      <3>4. FlattenSeq(D) = A \o t
        BY <1>3, <2>2, <3>2, FlattenAppend, Zenon DEF A
      <3>5. Join(A \o t) = Join(A) \o (<<Comma>> \o Join(t))
        BY <1>6, <2>2, <3>2, <3>3, JoinConcat, Zenon
      <3>6. Join(A) \in Seq(X) /\ Join(t) \in Seq(X) /\ <<Comma>> \in Seq(X)
        BY <1>6, <2>2, <3>3, JoinType, Single, Zenon
      <3>7. <<Comma>> \o Join(t) \in Seq(X)
        BY <3>6
      <3>8. OneLine(Join(A \o t)) = OneLine(Join(A)) \o OneLine(<<Comma>> \o Join(t))
        BY <3>5, <3>6, <3>7, OneLineConcat, Zenon
      <3>9. OneLine(<<Comma>> \o Join(t)) = OneLine(<<Comma>>) \o OneLine(Join(t))
        BY <3>6, OneLineConcat, Zenon
      <3>10. F[c] = OneLine(<<Comma>>)
        <4>1. s[c] = Comma /\ c \in 1 .. Len(s)
          <5>1. Statement(s) /\ PlainClauses(s) /\ s[1] = Kw("SELECT") /\ c \in Cuts(s) /\ d \in Cuts(s)
            BY GivenIs, Zenon DEF Column
          <5>2. c = 1 \/ c = g \/ s[c] = Comma
            BY <5>1, CutIs, Zenon DEF g
          <5>3. c # g
            BY <1>1, <1>5
          <5> QED
            BY <1>1, <1>5, <2>4, <5>2, <5>3
        <4>2. s[c][1] # "ref" /\ s[c][1] # "name" /\ s[c] # Line
          BY <4>1, CommaIs, Zenon
        <4>3. ~StandsForGroup(s, c, sch) /\ ~StandsForColumn(s, c, sch)
          BY <4>2, Zenon DEF StandsForGroup, StandsForColumn
        <4>4. F[c] = Reads(s)[c] /\ Reads(s)[c] = <<Read(s[c])>>
          BY <4>1, <4>2, <4>3, PieceIs DEF F
        <4>5. Read(s[c]) = s[c]
          BY <4>2, Zenon DEF Read
        <4>6. OneLine(<<Comma>>) = <<Comma>>
          BY <4>1, <4>2, OneLineOne, Zenon
        <4> QED
          BY <4>1, <4>4, <4>5, <4>6
      <3>11. Span(F, 2, d - 1) = Span(F, 2, c - 1) \o (Span(F, c, c) \o Span(F, c + 1, d - 1))
        <4>1. 2 \in 1 .. Len(F) + 1 /\ c - 1 \in 2 - 1 .. Len(F) /\ d - 1 \in c - 1 .. Len(F) /\ (c - 1) + 1 = c
              /\ c \in 1 .. Len(F) + 1 /\ c \in c - 1 .. Len(F) /\ d - 1 \in c .. Len(F)
          BY <1>1, <1>5, <2>4
        <4> QED
          BY <1>5, <4>1, SpanSplit, ZenonT(30)
      <3>12. Span(F, c, c) = F[c]
        <4>1. c \in 1 .. Len(F)
          BY <1>1, <1>5
        <4> QED
          BY <1>5, <4>1, SpanOne, Zenon
      <3>13. OneLine(Join(FlattenSeq(D))) = Span(F, 2, d - 1)
        BY <2>2, <3>2, <3>4, <3>8, <3>9, <3>10, <3>11, <3>12, Zenon
      <3>14. D \in Seq(Seq(Seq(X)))
        BY <1>3, <2>2, <3>2
      <3>15. FlattenSeq(D) # <<>>
        BY <2>2, <3>3, <3>4
      <3> QED
        BY <3>13, <3>14, <3>15, Zenon DEF ListRead, F
    <2> QED
      BY <2>3, <2>4
  <1>10. d # 1
    BY <1>1
  <1> QED
    BY <1>7, <1>8, <1>9, <1>10, Zenon DEF Parts, Q, D, x

-----------------------------------------------------------------------------
(* splitColumns. *)

\* What splitColumns has after a token: the columns before a cut, and the text since.
Have(P, cur, d) == [columns |-> P, current |-> cur, depth |-> d]

LEMMA HaveIs == \A P, cur, d : /\ Have(P, cur, d).columns = P /\ Have(P, cur, d).current = cur
                               /\ Have(P, cur, d).depth = d
BY DEF Have

\* SplitNext by its two cases.
LEMMA SplitNextIs ==
  ASSUME NEW P, NEW cur, NEW d, NEW t
  PROVE  /\ t = Comma /\ d = 0 => SplitNext(Have(P, cur, d), t) = Have(AddColumn(P, cur), <<>>, 0)
         /\ ~ (t = Comma /\ d = 0) => SplitNext(Have(P, cur, d), t) = Have(P, Append(cur, t), d + Deeper(t))
PROOF
  <1>1. Have(P, cur, d).columns = P /\ Have(P, cur, d).current = cur /\ Have(P, cur, d).depth = d
    BY DEF Have
  <1>2. t = Comma /\ d = 0 => SplitNext(Have(P, cur, d), t) = Have(AddColumn(P, cur), <<>>, 0)
    <2>1. t = Comma /\ d = 0 => SplitNext(Have(P, cur, d), t)
            = [columns |-> AddColumn(Have(P, cur, d).columns, Have(P, cur, d).current), current |-> <<>>, depth |-> 0]
      BY <1>1, Zenon DEF SplitNext
    <2> QED
      BY <1>1, <2>1, Zenon DEF Have
  <1>3. ASSUME ~ (t = Comma /\ d = 0)
        PROVE  SplitNext(Have(P, cur, d), t) = Have(P, Append(cur, t), d + Deeper(t))
    <2>1. SplitNext(Have(P, cur, d), t)
            = [Have(P, cur, d) EXCEPT !.current = Append(@, t), !.depth = @ + Deeper(t)]
      BY <1>1, <1>3, Zenon DEF SplitNext
    <2> DEFINE n == Append(cur, t)
               m == d + Deeper(t)
    <2>2. [Have(P, cur, d) EXCEPT !.current = Append(@, t), !.depth = @ + Deeper(t)]
            = [Have(P, cur, d) EXCEPT !.current = n, !.depth = m]
      BY <1>1
    <2> HIDE DEF n, m
    <2>3. [Have(P, cur, d) EXCEPT !.current = n] = Have(P, n, d) /\ [Have(P, n, d) EXCEPT !.depth = m] = Have(P, n, m)
      BY DEF Have
    <2>4. [Have(P, cur, d) EXCEPT !.current = n, !.depth = m] = [[Have(P, cur, d) EXCEPT !.current = n] EXCEPT !.depth = m]
      OBVIOUS
    <2> QED
      BY <2>1, <2>2, <2>3, <2>4 DEF n, m
  <1> QED
    BY <1>2, <1>3, Zenon

Since(X, s, sch, e, c, i, P) ==
  /\ c \in 1 .. i + 1 /\ c \in Cuts(s) /\ \A k \in c + 1 .. i + 1 : k \notin Cuts(s)
  /\ e = Have(P, SubSeq(s, c + 1, i + 1), Depth(s, i + 1))
  /\ Parts(X, s, sch, P, c)
HasRead(X, s, sch, e, i) == \E c, P : Since(X, s, sch, e, c, i, P)

\* A column is not empty.
LEMMA ColumnAdded ==
  ASSUME NEW X, NEW s, NEW sch, Given(X, s, sch), NEW c, NEW d, Column(s, c, d), NEW P
  PROVE  AddColumn(P, SubSeq(s, c + 1, d - 1)) = Append(P, Text(s, c, d))
PROOF
  <1>1. Text(s, c, d) # <<>>
    BY ColumnParsed, Zenon
  <1> QED
    BY <1>1, Zenon DEF AddColumn, Text

\* splitColumns keeps this with each token.
LEMMA SplitStep ==
  ASSUME NEW X, NEW s, NEW sch, Given(X, s, sch), NEW i \in 1 .. FirstFrom(s) - 2, NEW e,
         HasRead(X, s, sch, e, i - 1)
  PROVE  HasRead(X, s, sch, SplitNext(e, s[i + 1]), i)
PROOF
  <1> DEFINE g == FirstFrom(s)
             t == s[i + 1]
  <1>0. s \in Seq(X) /\ g \in Nat /\ Len(s) \in Nat /\ g =< Len(s) - 1 /\ Statement(s) /\ PlainClauses(s)
        /\ s[1] = Kw("SELECT")
    BY GivenIs, Zenon
  <1>1. PICK c, P : Since(X, s, sch, e, c, i - 1, P)
    BY Zenon DEF HasRead
  <1> HIDE DEF g
  <1>2. i \in Int /\ i >= 1 /\ i + 1 < g /\ (i - 1) + 1 = i /\ i + 1 < Len(s) /\ i \in Nat
    <2>1. i \in 1 .. g - 2
      BY DEF g
    <2> QED
      BY <1>0, <2>1
  <1>3. /\ c \in 1 .. i /\ c \in Cuts(s) /\ \A k \in c + 1 .. i : k \notin Cuts(s)
        /\ e = Have(P, SubSeq(s, c + 1, i), Depth(s, i))
        /\ Parts(X, s, sch, P, c)
    <2> DEFINE j == (i - 1) + 1
    <2>1. /\ c \in 1 .. j /\ c \in Cuts(s) /\ \A k \in c + 1 .. j : k \notin Cuts(s)
          /\ e = Have(P, SubSeq(s, c + 1, j), Depth(s, j))
          /\ Parts(X, s, sch, P, c)
      BY <1>1, Zenon DEF Since
    <2>2. j = i
      BY <1>2
    <2> HIDE DEF j
    <2> QED
      BY <2>1, <2>2
  <1>4. Depth(s, i) \in Int /\ Depth(s, i + 1) = Depth(s, i) + Deeper(s[i + 1])
    BY <1>2, DepthStep, Zenon
  <1>5. CASE t = Comma /\ Depth(s, i) = 0
    <2>1. Depth(s, i + 1) = 0
      BY <1>4, <1>5, FlatTokens
    <2>2. i + 1 \in Cuts(s)
      <3>1. i + 1 \in 2 .. g - 1
        BY <1>0, <1>2
      <3> QED
        BY <1>5, <2>1, <3>1, Zenon DEF Cuts, g
    <2>3. Column(s, c, i + 1)
      <3>1. c < i + 1 /\ (i + 1) - 1 = i
        BY <1>2, <1>3
      <3> QED
        BY <1>3, <2>2, <3>1 DEF Column
    <2>4. SplitNext(e, t) = Have(AddColumn(P, SubSeq(s, c + 1, i)), <<>>, 0)
      <3>1. \A cur, d : t = Comma /\ d = 0 => SplitNext(Have(P, cur, d), t) = Have(AddColumn(P, cur), <<>>, 0)
        BY SplitNextIs
      <3> QED
        BY <1>3, <1>5, <3>1, Zenon
    <2>5. AddColumn(P, SubSeq(s, c + 1, i)) = Append(P, Text(s, c, i + 1))
      <3>1. AddColumn(P, SubSeq(s, c + 1, (i + 1) - 1)) = Append(P, Text(s, c, i + 1))
        BY <2>3, ColumnAdded, Zenon
      <3>2. (i + 1) - 1 = i
        BY <1>2
      <3> QED
        BY <3>1, <3>2
    <2> DEFINE Q == Append(P, Text(s, c, i + 1))
    <2>6. Parts(X, s, sch, Q, i + 1)
      BY <1>3, <2>3, PartsAdd, Zenon
    <2>7. SubSeq(s, (i + 1) + 1, i + 1) = <<>>
      BY <1>2, SubSeqEmpty
    <2> HIDE DEF Q
    <2>8. SplitNext(e, t) = Have(Q, SubSeq(s, (i + 1) + 1, i + 1), Depth(s, i + 1))
      BY <2>1, <2>4, <2>5, <2>7, Zenon DEF Q
    <2>9. i + 1 \in 1 .. i + 1 /\ \A k \in (i + 1) + 1 .. i + 1 : k \notin Cuts(s)
      BY <1>2
    <2>10. Since(X, s, sch, SplitNext(e, t), i + 1, i, Q)
      BY <2>2, <2>6, <2>8, <2>9, Zenon DEF Since
    <2> QED
      BY <2>10, Zenon DEF HasRead
  <1>6. CASE ~ (t = Comma /\ Depth(s, i) = 0)
    <2>1. i + 1 \notin Cuts(s)
      <3> SUFFICES ASSUME i + 1 \in Cuts(s) PROVE FALSE
        OBVIOUS
      <3>1. i + 1 # 1 /\ i + 1 # g
        BY <1>0, <1>2
      <3>2. s[i + 1] = Comma /\ Depth(s, i + 1) = 0
        BY <3>1, Zenon DEF Cuts, g
      <3>3. Depth(s, i) = 0
        BY <1>4, <3>2, FlatTokens
      <3> QED
        BY <1>6, <3>2, <3>3, Zenon
    <2>2. SplitNext(e, t) = Have(P, Append(SubSeq(s, c + 1, i), t), Depth(s, i) + Deeper(t))
      <3>1. \A cur, d : ~ (t = Comma /\ d = 0) => SplitNext(Have(P, cur, d), t) = Have(P, Append(cur, t), d + Deeper(t))
        BY SplitNextIs
      <3> QED
        BY <1>3, <1>6, <3>1, Zenon
    <2>3. Append(SubSeq(s, c + 1, i), t) = SubSeq(s, c + 1, i + 1)
      <3>1. c + 1 \in 1 .. Len(s) /\ i + 1 \in c + 1 .. Len(s) /\ (i + 1) - 1 = i
        BY <1>0, <1>2, <1>3
      <3>2. SubSeq(s, c + 1, i + 1) = SubSeq(s, c + 1, (i + 1) - 1) \o <<s[i + 1]>>
        BY <1>0, <3>1, SubSeqRecursiveSecond, Zenon
      <3>3. SubSeq(s, c + 1, i) \in Seq(X) /\ t \in X
        <4>1. 1 =< c + 1 /\ i =< Len(s) /\ c + 1 \in Int /\ i + 1 \in 1 .. Len(s)
          BY <1>2, <1>3
        <4> QED
          BY <1>0, <1>2, <4>1, SliceType, ElementOfSeq
      <3>4. Append(SubSeq(s, c + 1, i), t) = SubSeq(s, c + 1, i) \o <<t>>
        BY <3>3, AppendIsConcat
      <3> QED
        BY <3>1, <3>2, <3>4
    <2>4. c \in 1 .. i + 1 /\ \A k \in c + 1 .. i + 1 : k \notin Cuts(s)
      <3>1. c \in 1 .. i + 1 /\ \A k \in c + 1 .. i + 1 : k \in c + 1 .. i \/ k = i + 1
        BY <1>2, <1>3
      <3> QED
        BY <1>3, <2>1, <3>1, Zenon
    <2>5. Since(X, s, sch, SplitNext(e, t), c, i, P)
      BY <1>3, <1>4, <2>2, <2>3, <2>4, Zenon DEF Since
    <2> QED
      BY <2>5, Zenon DEF HasRead
  <1> QED
    BY <1>5, <1>6

\* splitColumns of a plain statement's list.
LEMMA SplitReads ==
  ASSUME NEW X, NEW s, NEW sch, Given(X, s, sch)
  PROVE  Parts(X, s, sch, SplitColumns(SubSeq(s, 2, FirstFrom(s) - 1)), FirstFrom(s))
PROOF
  <1> DEFINE g == FirstFrom(s)
             list == SubSeq(s, 2, g - 1)
             split == Split(list)
             T == {i \in Nat : HasRead(X, s, sch, split[i], i)}
  <1>0. s \in Seq(X) /\ g \in Nat /\ Len(s) \in Nat /\ g =< Len(s) - 1 /\ g >= 3 /\ Statement(s)
        /\ s[1] = Kw("SELECT")
    BY GivenIs, Zenon
  <1>1. list \in Seq(X) /\ Len(list) = g - 2 /\ (\A i \in 1 .. g - 2 : list[i] = s[i + 1])
        /\ g - 2 \in Nat
    <2> HIDE DEF g
    <2>1. 2 \in Int /\ g - 1 \in Int /\ 1 =< 2 /\ g - 1 =< Len(s)
      BY <1>0
    <2>2. list \in Seq(X) /\ Len(list) = (IF 2 =< g - 1 THEN (g - 1) - 2 + 1 ELSE 0)
          /\ \A i \in 1 .. (g - 1) - 2 + 1 : list[i] = s[2 + i - 1]
      BY <1>0, <2>1, SliceType
    <2> HIDE DEF list
    <2> QED
      BY <1>0, <2>2, SMTT(30)
  <1>2. /\ split[0] = Have(<<>>, <<>>, 0)
        /\ \A i \in 1 .. g - 2 : split[i] = SplitNext(split[i-1], list[i])
    BY <1>1, SplitDef DEF Have
  <1> HIDE DEF split, list
  <1>3. HasRead(X, s, sch, split[0], 0)
    <2>1. 1 \in Cuts(s)
      BY DEF Cuts
    <2>2. Depth(s, 0 + 1) = 0
      <3>1. Deeper(s[1]) = 0
        BY <1>0, FlatTokens
      <3>2. Depth(s, 0 + 1) = Depth(s, 0) + Deeper(s[0 + 1])
        BY DepthStep
      <3> QED
        BY <3>1, <3>2, DepthZero
    <2>3. Parts(X, s, sch, <<>>, 1)
      BY DEF Parts, Texts
    <2>4. SubSeq(s, 1 + 1, 0 + 1) = <<>>
      BY SubSeqEmpty
    <2>5. split[0] = Have(<<>>, SubSeq(s, 1 + 1, 0 + 1), Depth(s, 0 + 1))
      BY <1>2, <2>2, <2>4, Zenon
    <2>6. 1 \in 1 .. 0 + 1 /\ \A k \in 1 + 1 .. 0 + 1 : k \notin Cuts(s)
      OBVIOUS
    <2>7. Since(X, s, sch, split[0], 1, 0, <<>>)
      BY <2>1, <2>3, <2>5, <2>6, Zenon DEF Since
    <2> QED
      BY <2>7, Zenon DEF HasRead
  <1>4. ASSUME NEW j \in 0 .. (g - 2) - 1, j \in T PROVE j + 1 \in T
    <2>1. j \in Nat /\ j + 1 \in Nat /\ j + 1 \in 1 .. g - 2 /\ (j + 1) - 1 = j
      <3> HIDE DEF g
      <3> QED
        BY <1>0, <1>4
    <2>2. HasRead(X, s, sch, split[(j + 1) - 1], (j + 1) - 1)
      BY <1>4, <2>1
    <2>3. HasRead(X, s, sch, SplitNext(split[(j + 1) - 1], s[(j + 1) + 1]), j + 1)
      BY <2>1, <2>2, SplitStep, Zenon
    <2>4. split[j + 1] = SplitNext(split[(j + 1) - 1], s[(j + 1) + 1])
      BY <1>1, <1>2, <2>1, Zenon
    <2> QED
      BY <2>1, <2>3, <2>4
  <1>5. HasRead(X, s, sch, split[g - 2], g - 2)
    <2>1. 0 \in T
      BY <1>3
    <2> HIDE DEF T
    <2>2. \A i \in 0 .. g - 2 : i \in T
      <3>1. ASSUME NEW n \in Nat, n = g - 2 PROVE \A i \in 0 .. n : i \in T
        BY <1>4, <2>1, <3>1, UpTo
      <3> QED
        BY <1>1, <3>1
    <2>3. g - 2 \in 0 .. g - 2
      BY <1>1
    <2>4. g - 2 \in T
      BY <2>2, <2>3, Zenon
    <2> QED
      BY <2>4, Zenon DEF T
  <1>6. PICK c, P : Since(X, s, sch, split[g - 2], c, g - 2, P)
    BY <1>5, Zenon DEF HasRead
  <1> HIDE DEF g
  <1>7. /\ c \in 1 .. g - 1 /\ c \in Cuts(s) /\ (\A k \in c + 1 .. g - 1 : k \notin Cuts(s))
        /\ split[g - 2] = Have(P, SubSeq(s, c + 1, g - 1), Depth(s, g - 1))
        /\ Parts(X, s, sch, P, c)
    <2> DEFINE j == (g - 2) + 1
    <2>1. /\ c \in 1 .. j /\ c \in Cuts(s) /\ (\A k \in c + 1 .. j : k \notin Cuts(s))
          /\ split[g - 2] = Have(P, SubSeq(s, c + 1, j), Depth(s, j))
          /\ Parts(X, s, sch, P, c)
      BY <1>6, Zenon DEF Since
    <2>2. j = g - 1
      BY <1>0
    <2> HIDE DEF j
    <2> QED
      BY <2>1, <2>2
  <1>8. Column(s, c, g)
    <2>1. g \in Cuts(s)
      BY DEF Cuts, g
    <2>2. c < g
      BY <1>0, <1>7
    <2> QED
      BY <1>7, <2>1, <2>2, Zenon DEF Column
  <1>9. AddColumn(P, SubSeq(s, c + 1, g - 1)) = Append(P, Text(s, c, g))
    BY <1>8, ColumnAdded, Zenon
  <1>10. Parts(X, s, sch, Append(P, Text(s, c, g)), g)
    BY <1>7, <1>8, PartsAdd, Zenon
  <1>11. split[g - 2].columns = P /\ split[g - 2].current = SubSeq(s, c + 1, g - 1)
    <2>1. \A h, Q, cur, d : h = Have(Q, cur, d) => h.columns = Q /\ h.current = cur
      BY HaveIs
    <2> DEFINE cur == SubSeq(s, c + 1, g - 1)
               d == Depth(s, g - 1)
               h == split[g - 2]
    <2>2. h = Have(P, cur, d)
      BY <1>7
    <2> HIDE DEF cur, d, h
    <2>3. h.columns = P /\ h.current = cur
      BY <2>1, <2>2
    <2> QED
      BY <2>3 DEF h, cur
  <1>12. SplitColumns(list) = AddColumn(split[g - 2].columns, split[g - 2].current)
    BY <1>1, Zenon DEF SplitColumns, split
  <1> QED
    BY <1>9, <1>10, <1>11, <1>12, Zenon DEF list, g

-----------------------------------------------------------------------------
(* The list and the clauses together. *)

\* OneLine of each of the sequences.
Lined(S) == [i \in DOMAIN S |-> OneLine(S[i])]

LEMMA LinedType ==
  ASSUME NEW X, NEW S \in Seq(Seq(X))
  PROVE  Lined(S) \in Seq(Seq(X)) /\ Len(Lined(S)) = Len(S) /\ \A i \in 1 .. Len(S) : Lined(S)[i] = OneLine(S[i])
PROOF
  <1>1. DOMAIN S = 1 .. Len(S) /\ Len(S) \in Nat
    BY LenProperties
  <1>2. \A i \in 1 .. Len(S) : OneLine(S[i]) \in Seq(X)
    <2> SUFFICES ASSUME NEW i \in 1 .. Len(S) PROVE OneLine(S[i]) \in Seq(X)
      OBVIOUS
    <2>1. S[i] \in Seq(X)
      BY ElementOfSeq
    <2> QED
      BY <2>1, OneLineType, Zenon
  <1> DEFINE G(i) == OneLine(S[i])
             n == Len(S)
  <1>3. Lined(S) = [i \in 1 .. n |-> G(i)]
    BY <1>1, Zenon DEF Lined
  <1> HIDE DEF G, n
  <1>4. \A i \in 1 .. n : G(i) \in Seq(X)
    BY <1>2, Zenon DEF G, n
  <1>5. Lined(S) \in Seq(Seq(X)) /\ Len(Lined(S)) = n /\ \A i \in 1 .. n : Lined(S)[i] = G(i)
    <2> DEFINE f == [i \in 1 .. n |-> G(i)]
    <2>1. f \in Seq(Seq(X)) /\ Len(f) = n /\ \A i \in 1 .. n : f[i] = G(i)
      BY <1>1, <1>4 DEF n
    <2> HIDE DEF f
    <2>2. Lined(S) = f
      BY <1>3 DEF f
    <2> QED
      BY <2>1, <2>2
  <1> QED
    BY <1>5 DEF G, n

\* Line breaks are left out sequence by sequence.
LEMMA OneLineFlatten ==
  ASSUME NEW X, NEW S \in Seq(Seq(X))
  PROVE  OneLine(FlattenSeq(S)) = FlattenSeq(Lined(S))
PROOF
  <1> DEFINE O == Lined(S)
             T == {i \in Nat : OneLine(FlattenSeq(SubSeq(S, 1, i))) = FlattenSeq(SubSeq(O, 1, i))}
  <1>1. O \in Seq(Seq(X)) /\ Len(O) = Len(S) /\ (\A i \in 1 .. Len(S) : O[i] = OneLine(S[i])) /\ Len(S) \in Nat
    BY LinedType, LenProperties, Zenon
  <1> HIDE DEF O
  <1>2. 0 \in T
    <2>1. SubSeq(S, 1, 0) = <<>> /\ SubSeq(O, 1, 0) = <<>>
      BY SubSeqEmpty
    <2> QED
      BY <2>1, FlattenEmpty, OneLineEmpty
  <1>3. ASSUME NEW i \in 0 .. Len(S) - 1, i \in T PROVE i + 1 \in T
    <2>0. i \in Nat /\ i + 1 \in Nat /\ i + 1 \in 1 .. Len(S) /\ i \in 0 .. Len(O) - 1
      BY <1>1
    <2> DEFINE A == SubSeq(S, 1, i)
               B == SubSeq(O, 1, i)
    <2>1. A \in Seq(Seq(X)) /\ S[i + 1] \in Seq(X) /\ SubSeq(S, 1, i + 1) = Append(A, S[i + 1])
      BY <2>0, Prefix
    <2>2. B \in Seq(Seq(X)) /\ O[i + 1] \in Seq(X) /\ SubSeq(O, 1, i + 1) = Append(B, O[i + 1])
      BY <1>1, <2>0, Prefix
    <2>3. OneLine(FlattenSeq(A)) = FlattenSeq(B)
      BY <1>3
    <2> HIDE DEF A, B
    <2>4. FlattenSeq(Append(A, S[i + 1])) = FlattenSeq(A) \o S[i + 1]
          /\ FlattenSeq(Append(B, O[i + 1])) = FlattenSeq(B) \o O[i + 1]
      BY <2>1, <2>2, FlattenAppend, Zenon
    <2>5. FlattenSeq(A) \in Seq(X)
      BY <2>1, FlattenType, Zenon
    <2>6. OneLine(FlattenSeq(A) \o S[i + 1]) = OneLine(FlattenSeq(A)) \o OneLine(S[i + 1])
      BY <2>1, <2>5, OneLineConcat, Zenon
    <2>7. O[i + 1] = OneLine(S[i + 1])
      BY <1>1, <2>0, Zenon
    <2>8. OneLine(FlattenSeq(SubSeq(S, 1, i + 1))) = FlattenSeq(SubSeq(O, 1, i + 1))
      BY <2>1, <2>2, <2>3, <2>4, <2>6, <2>7, Zenon
    <2> QED
      BY <2>0, <2>8
  <1>4. Len(S) \in T
    <2> HIDE DEF T
    <2>1. \A i \in 0 .. Len(S) : i \in T
      BY <1>1, <1>2, <1>3, UpTo
    <2> QED
      BY <1>1, <2>1
  <1>5. SubSeq(S, 1, Len(S)) = S /\ SubSeq(O, 1, Len(S)) = O
    BY <1>1, SubSeqFull
  <1> QED
    BY <1>4, <1>5 DEF O

\* Translate of a plain statement, put together from its parts.
Listed(s, sch) ==
  IF Trim(SubSeq(s, 2, FirstFrom(s) - 1)) = <<Star>> THEN <<<<<<Name(RowID)>>>>, Named(AllColumns(sch))>>
  ELSE Becomes(SplitColumns(SubSeq(s, 2, FirstFrom(s) - 1)), sch)

\* Translate refuses, or puts the list and the clauses together.
LEMMA TranslateIs ==
  ASSUME NEW s, NEW sch, Statement(s), Plain(s)
  PROVE  /\ Parse(s) = ParseSelect(s) /\ Parse(s).type = "SELECT"
         /\ ~Known(Parse(s), sch) \/ Refused \in ToSet(Listed(s, sch)) => Translate(Parse(s), s, sch) = <<>>
         /\ ~ (~Known(Parse(s), sch) \/ Refused \in ToSet(Listed(s, sch))) =>
              Translate(Parse(s), s, sch)
                = <<Kw("SELECT")>> \o Join(FlattenSeq(Listed(s, sch))) \o <<Kw("FROM"), TableName>>
                  \o WhereClause(s) \o TrailingClauses(s)
PROOF
  <1> DEFINE q == ParseSelect(s)
             list == SubSeq(s, 2, FirstFrom(s) - 1)
             star == Trim(list) = <<Star>>
             parts == SplitColumns(list)
             whole == <<<<<<Name(RowID)>>>>, Named(AllColumns(sch))>>
             columns == IF q.all THEN whole
                        ELSE [i \in DOMAIN q.columns |-> TranslateColumn(q.columns[i], sch)]
  <1>0. PlainClauses(s) /\ s[1] = Kw("SELECT")
    BY Zenon DEF Plain
  <1>1. Parse(s) = q
    <2>1. Kw("SELECT") # Kw("INSERT") /\ Kw("SELECT") # Kw("UPDATE") /\ Kw("SELECT") # Kw("DELETE")
      BY DEF Kw
    <2> HIDE DEF q
    <2>2. Parse(s) = ParseSelect(s)
      BY <1>0, <2>1 DEF Parse
    <2> QED
      BY <2>2, Zenon DEF q
  <1>2. q.type = "SELECT" /\ q.all = star /\ q.columns = (IF star THEN <<>> ELSE ParseColumnList(list))
    BY <1>0, SelectIs, Zenon
  <1>3. columns = Listed(s, sch)
    <2>1. CASE star
      BY <1>2, <2>1, Zenon DEF Listed
    <2>2. CASE ~star
      <3> HIDE DEF parts
      <3>1. q.columns = [i \in DOMAIN parts |-> ParseColumn(parts[i])]
        BY <1>2, <2>2, Zenon DEF ParseColumnList, parts
      <3> HIDE DEF q, star
      <3>2. [i \in DOMAIN q.columns |-> TranslateColumn(q.columns[i], sch)] = Becomes(parts, sch)
        BY <3>1 DEF Becomes
      <3>3. columns = Becomes(parts, sch)
        BY <1>2, <2>2, <3>2, Zenon
      <3>4. Listed(s, sch) = Becomes(parts, sch)
        BY <2>2, Zenon DEF Listed, star, parts
      <3> QED
        BY <3>3, <3>4, Zenon
    <2> QED
      BY <2>1, <2>2
  <1>4. Translate(q, s, sch)
          = IF ~Known(q, sch) \/ Refused \in ToSet(columns) THEN <<>>
            ELSE <<Kw("SELECT")>> \o Join(FlattenSeq(columns)) \o <<Kw("FROM"), TableName>>
                 \o WhereClause(s) \o TrailingClauses(s)
    <2>1. Translate(q, s, sch) = TranslateSelect(q, s, sch)
      BY <1>2, Zenon DEF Translate
    <2> QED
      BY <2>1, Zenon DEF TranslateSelect, WhereClause, TrailingClauses
  <1> HIDE DEF columns, q
  <1>5. Translate(q, s, sch)
          = IF ~Known(q, sch) \/ Refused \in ToSet(Listed(s, sch)) THEN <<>>
            ELSE <<Kw("SELECT")>> \o Join(FlattenSeq(Listed(s, sch))) \o <<Kw("FROM"), TableName>>
                 \o WhereClause(s) \o TrailingClauses(s)
    BY <1>3, <1>4
  <1> DEFINE K == ~Known(q, sch) \/ Refused \in ToSet(Listed(s, sch))
             v == <<Kw("SELECT")>> \o Join(FlattenSeq(Listed(s, sch))) \o <<Kw("FROM"), TableName>>
                  \o WhereClause(s) \o TrailingClauses(s)
  <1>6. Translate(q, s, sch) = IF K THEN <<>> ELSE v
    BY <1>5
  <1> HIDE DEF K, v
  <1>7. (K => Translate(q, s, sch) = <<>>) /\ (~K => Translate(q, s, sch) = v)
    BY <1>6
  <1> QED
    BY <1>1, <1>2, <1>7, Zenon DEF K, v, q

AllRead(sch) == Join(<<<<Name(RowID)>>>> \o Named(AllColumns(sch)))
IsStar(s) == Trim(SubSeq(s, 2, FirstFrom(s) - 1)) = <<Star>>

\* The list * is translated into the columns of the schema.
LEMMA StarListed ==
  ASSUME NEW X, NEW s, NEW sch, Given(X, s, sch), IsStar(s)
  PROVE  /\ Join(FlattenSeq(Listed(s, sch))) = AllRead(sch) /\ AllRead(sch) \in Seq(X)
         /\ Refused \notin ToSet(Listed(s, sch))
PROOF
  <1> DEFINE r == <<<<Name(RowID)>>>>
             n == Named(AllColumns(sch))
  <1>0. /\ Comma \in X /\ Name(RowID) \in X /\ Schema(sch) /\ \A c \in Pairs(sch) : Flat(c) \in X
    BY GivenIs, Zenon DEF Tokens
  <1>1. Listed(s, sch) = <<r, n>>
    BY Zenon DEF Listed, IsStar
  <1>2. AllColumns(sch) \in Seq(Pairs(sch))
    BY <1>0, AllColumnsType, Zenon
  <1>3. n \in Seq(Seq(X)) /\ n # Refused
    BY <1>0, <1>2, NamedType, NamedNotRefused, Zenon
  <1>4. <<Name(RowID)>> \in Seq(X) /\ r \in Seq(Seq(X))
    BY <1>0, Single, Zenon
  <1>5. r # Refused
    BY DEF Refused
  <1> HIDE DEF r, n
  <1>6. <<r, n>> = <<r>> \o <<n>> /\ <<r>> \in Seq(Seq(Seq(X))) /\ <<n>> \in Seq(Seq(Seq(X)))
    BY <1>3, <1>4, PairConcat, Single
  <1>7. FlattenSeq(<<r>> \o <<n>>) = FlattenSeq(<<r>>) \o FlattenSeq(<<n>>)
    BY <1>6, FlattenConcat, Zenon
  <1>8. FlattenSeq(<<r>>) = r /\ FlattenSeq(<<n>>) = n
    BY <1>3, <1>4, FlattenOne, Zenon
  <1>9. Join(FlattenSeq(Listed(s, sch))) = Join(r \o n) /\ Join(r \o n) = AllRead(sch)
    BY <1>1, <1>6, <1>7, <1>8, Zenon DEF AllRead, r, n
  <1>10. Join(r \o n) \in Seq(X)
    <2>1. r \o n \in Seq(Seq(X))
      BY <1>3, <1>4
    <2> QED
      BY <1>0, <2>1, JoinType, Zenon
  <1>11. Refused \notin ToSet(<<r, n>>)
    BY <1>3, <1>5 DEF ToSet
  <1> QED
    BY <1>1, <1>9, <1>10, <1>11, Zenon

\* What is selected, of a list of columns.
LEMMA ListListed ==
  ASSUME NEW X, NEW s, NEW sch, Given(X, s, sch), ~IsStar(s), Refused \notin ToSet(Listed(s, sch))
  PROVE  /\ Join(FlattenSeq(Listed(s, sch))) \in Seq(X)
         /\ OneLine(Join(FlattenSeq(Listed(s, sch)))) = Span(Pieces(s, sch), 2, FirstFrom(s) - 1)
PROOF
  <1> DEFINE g == FirstFrom(s)
             P == SplitColumns(SubSeq(s, 2, g - 1))
             C == Becomes(P, sch)
  <1>1. Listed(s, sch) = C
    BY Zenon DEF Listed, IsStar
  <1>2. Parts(X, s, sch, P, g)
    BY SplitReads, Zenon
  <1>3. g # 1 /\ Comma \in X
    <2>1. g \in Nat /\ g >= 3 /\ Comma \in X
      BY GivenIs, Zenon
    <2> HIDE DEF g
    <2> QED
      BY <2>1
  <1> HIDE DEF g, P
  <1>4. ListRead(X, s, sch, C, g)
    BY <1>1, <1>2, <1>3, Zenon DEF Parts
  <1>5. C \in Seq(Seq(Seq(X))) /\ OneLine(Join(FlattenSeq(C))) = Span(Pieces(s, sch), 2, g - 1)
    BY <1>4, Zenon DEF ListRead
  <1>6. FlattenSeq(C) \in Seq(Seq(X))
    BY <1>5, FlattenType, Zenon
  <1>7. Join(FlattenSeq(C)) \in Seq(X)
    BY <1>3, <1>6, JoinType, Zenon
  <1> QED
    BY <1>1, <1>5, <1>7, Zenon DEF g

\* A list that is * has no parentheses.
LEMMA StarEnd ==
  ASSUME NEW s, Statement(s), PlainClauses(s), s[1] = Kw("SELECT")
  PROVE  /\ IsStar(s) <=> Trim(SubSeq(s, 2, ListEnd(s) - 1)) = <<Star>>
         /\ IsStar(s) => ListEnd(s) = FirstFrom(s)
PROOF
  <1> DEFINE g == FirstFrom(s)
             L == ListEnd(s)
  <1>1. /\ g \in Nat /\ Len(s) \in Nat /\ g =< Len(s) - 1 /\ g >= 3 /\ s[g] = Kw("FROM")
        /\ L \in g .. Len(s) /\ s[L] = Kw("FROM") /\ (Depth(s, g) = 0 => L = g)
        /\ s \in Seq(ToSet(s))
    BY CutIs, FromFound, ListEndIs, Zenon DEF Statement
  <1>2. IsStar(s) => L = g
    <2> SUFFICES ASSUME IsStar(s) PROVE Depth(s, g) = 0
      BY <1>1
    <2> HIDE DEF g, L
    <2>1. 2 \in Int /\ g - 1 \in Int /\ 1 =< 2 /\ 2 =< (g - 1) + 1 /\ g - 1 =< Len(s)
      BY <1>1
    <2>2. Trim(SubSeq(s, 2, g - 1)) = <<Star>>
      BY Zenon DEF IsStar, g
    <2>3. \E m \in 2 .. g - 1 : s[m] = Star /\ \A i \in 2 .. g - 1 : i = m \/ s[i] = Line
      <3>1. s \in Seq(ToSet(s))
        BY <1>1
      <3>2. \E m \in 2 .. g - 1 :
              s[m] = Star /\ Star # Line /\ \A i \in 2 .. g - 1 : i = m \/ s[i] = Line
        <4> DEFINE b == g - 1
        <4>1. b \in Int /\ 1 =< 2 /\ 2 =< b + 1 /\ b =< Len(s) /\ Trim(SubSeq(s, 2, b)) = <<Star>>
          BY <2>1, <2>2
        <4> HIDE DEF b
        <4>2. \E m \in 2 .. b : s[m] = Star /\ Star # Line /\ \A i \in 2 .. b : i = m \/ s[i] = Line
          BY <3>1, <4>1, TrimOne
        <4> QED
          BY <4>2 DEF b
      <3> QED
        BY <3>2, Zenon
    <2>4. Deeper(Star) = 0 /\ Deeper(Line) = 0 /\ Deeper(Kw("SELECT")) = 0 /\ Deeper(Kw("FROM")) = 0
      BY DEF Deeper, Star, Line, Sym, Kw
    <2>5. \A i \in 0 + 1 .. g : Deeper(s[i]) = 0
      <3> SUFFICES ASSUME NEW i \in 0 + 1 .. g PROVE Deeper(s[i]) = 0
        OBVIOUS
      <3>1. i = 1 \/ i = g \/ i \in 2 .. g - 1
        BY <1>1
      <3> QED
        BY <1>1, <2>3, <2>4, <3>1, Zenon DEF g
    <2>6. Depth(s, 0) = Depth(s, g)
      <3>1. 0 \in Nat /\ g \in Nat /\ 0 =< g
        BY <1>1
      <3> QED
        BY <2>5, <3>1, DepthSame, Zenon
    <2> QED
      BY <2>6, DepthZero
  <1>3. ASSUME Trim(SubSeq(s, 2, L - 1)) = <<Star>> PROVE L = g
    <2> SUFFICES ASSUME L # g PROVE FALSE
      OBVIOUS
    <2> HIDE DEF g, L
    <2>1. 2 \in Int /\ L - 1 \in Int /\ 1 =< 2 /\ 2 =< (L - 1) + 1 /\ L - 1 =< Len(s) /\ g \in 2 .. L - 1
      BY <1>1
    <2>2. \E m \in 2 .. L - 1 : s[m] = Star /\ \A i \in 2 .. L - 1 : i = m \/ s[i] = Line
      <3> DEFINE b == L - 1
      <3>1. b \in Int /\ 1 =< 2 /\ 2 =< b + 1 /\ b =< Len(s) /\ s \in Seq(ToSet(s))
            /\ Trim(SubSeq(s, 2, b)) = <<Star>>
        BY <1>1, <1>3, <2>1
      <3> HIDE DEF b
      <3>2. \E m \in 2 .. b : s[m] = Star /\ Star # Line /\ \A i \in 2 .. b : i = m \/ s[i] = Line
        BY <3>1, TrimOne
      <3> QED
        BY <3>2 DEF b
    <2>3. Kw("FROM") # Star /\ Kw("FROM") # Line
      BY DEF Kw, Star, Line, Sym
    <2> QED
      BY <1>1, <2>1, <2>2, <2>3, Zenon
  <1> QED
    BY <1>2, <1>3, Zenon DEF IsStar

-----------------------------------------------------------------------------
(* The meaning of a statement, in its parts. *)

\* What follows the list, read token by token.
RestOf(s) == [i \in 1 .. Len(s) - ListEnd(s) + 1 |-> Read(s[ListEnd(s) + i - 1])]

\* That rest is a span of the pieces.
LEMMA RestReads ==
  ASSUME NEW X, NEW s, NEW sch, Given(X, s, sch)
  PROVE  RestOf(s) \in Seq(X) /\ OneLine(RestOf(s)) = Span(Reads(s), ListEnd(s), Len(s))
PROOF
  <1> DEFINE L == ListEnd(s)
             u == SubSeq(s, L, Len(s))
             n == Len(s) - L + 1
  <1>0. /\ s \in Seq(X) /\ (\A t \in X : Read(t) \in X) /\ NoQuotedRef(s) /\ DOMAIN s = 1 .. Len(s)
        /\ L \in FirstFrom(s) .. Len(s) /\ Len(s) \in Nat /\ FirstFrom(s) \in Nat /\ FirstFrom(s) >= 3
    BY GivenIs, ListEndIs, Zenon
  <1> HIDE DEF L
  <1>1. L \in Int /\ Len(s) \in Int /\ 1 =< L /\ Len(s) =< Len(s) /\ L =< Len(s) /\ n = Len(s) - L + 1 /\ n \in Nat
    BY <1>0
  <1>2. u \in Seq(X) /\ Len(u) = n /\ \A i \in 1 .. n : u[i] = s[L + i - 1]
    <2> HIDE DEF u
    <2>1. u \in Seq(X) /\ Len(u) = (IF L =< Len(s) THEN n ELSE 0)
          /\ \A i \in 1 .. n : u[i] = s[L + i - 1]
      BY <1>0, <1>1, SliceType, ZenonT(30) DEF u
    <2> QED
      BY <1>1, <2>1
  <1>3. TranslateColumnRefs(u) \in Seq(X) /\ OneLine(TranslateColumnRefs(u)) = Span(Reads(s), L, Len(s))
    BY <1>0, <1>1, SliceReads
  <1>4. \A i \in 1 .. n : TranslateToken(u[i]) = Read(s[L + i - 1])
    <2> SUFFICES ASSUME NEW i \in 1 .. n PROVE TranslateToken(u[i]) = Read(s[L + i - 1])
      OBVIOUS
    <2>1. u[i] = s[L + i - 1] /\ L + i - 1 \in DOMAIN s
      <3>1. L + i - 1 \in 1 .. Len(s)
        BY <1>1
      <3> QED
        BY <1>0, <1>2, <3>1, Zenon
    <2>2. s[L + i - 1][1] = "quoted" => s[L + i - 1][2][1] # "ref"
      BY <1>0, <2>1, Zenon DEF NoQuotedRef
    <2> QED
      BY <2>1, <2>2, TokenReads, Zenon
  <1>5. TranslateColumnRefs(u) = [i \in DOMAIN u |-> TranslateToken(u[i])] /\ DOMAIN u = 1 .. n
    BY <1>2, LenProperties, Zenon DEF TranslateColumnRefs
  <1>6. RestOf(s) = [i \in 1 .. n |-> Read(s[L + i - 1])]
    BY Zenon DEF RestOf, L
  <1> HIDE DEF u, n
  <1>7. RestOf(s) = TranslateColumnRefs(u)
    BY <1>4, <1>5, <1>6, Zenon
  <1> QED
    BY <1>3, <1>7, Zenon DEF L

\* The tokens of the list, read one by one.
ListOf(s, sch) == [i \in 1 .. ListEnd(s) - 2 |-> ListToken(s, i + 1, sch)]

\* The list, without its line breaks, is a span of the pieces.
LEMMA ListReads ==
  ASSUME NEW X, NEW s, NEW sch, Given(X, s, sch)
  PROVE  /\ FlattenSeq(ListOf(s, sch)) \in Seq(X)
         /\ OneLine(FlattenSeq(ListOf(s, sch))) = Span(Pieces(s, sch), 2, ListEnd(s) - 1)
PROOF
  <1> DEFINE L == ListEnd(s)
             g == FirstFrom(s)
             F == Pieces(s, sch)
             M == ListOf(s, sch)
             n == L - 2
  <1>0. /\ s \in Seq(X) /\ DOMAIN s = 1 .. Len(s)
        /\ L \in g .. Len(s) /\ Len(s) \in Nat /\ g \in Nat /\ g >= 3 /\ PlainColumns(s)
    BY GivenIs, ListEndIs, Zenon
  <1>1. F \in Seq(Seq(X)) /\ Len(F) = Len(s)
    BY PiecesType, Zenon
  <1> HIDE DEF L, g, F
  <1>2. n \in Nat /\ L \in Int /\ L >= 3 /\ L =< Len(s)
    BY <1>0
  <1>3. \A i \in 1 .. n : ListToken(s, i + 1, sch) \in Seq(X) /\ OneLine(ListToken(s, i + 1, sch)) = F[i + 1]
    <2> SUFFICES ASSUME NEW i \in 1 .. n
                 PROVE  ListToken(s, i + 1, sch) \in Seq(X) /\ OneLine(ListToken(s, i + 1, sch)) = F[i + 1]
      OBVIOUS
    <2> DEFINE k == i + 1
    <2>1. k \in 1 .. Len(s) /\ (k < g \/ k \in g .. L)
      BY <1>0, <1>2
    <2> HIDE DEF k
    <2>2. ListToken(s, k, sch) \in Seq(X)
      BY <1>0, <2>1, ListTokenType, Zenon
    <2>3. OneLine(ListToken(s, k, sch)) = F[k]
      <3>1. CASE k < g
        BY <2>1, <3>1, PieceIs, ZenonT(30) DEF F, g
      <3>2. CASE k \in g .. L
        <4>1. Alone(s, k) => s[k][1] # "name" /\ (s[k][1] = "ref" => s[k][3] # All)
          BY <1>0, <3>2, Zenon DEF PlainColumns, g, L
        <4>2. ~StandsForGroup(s, k, sch) /\ ~StandsForColumn(s, k, sch)
          BY <4>1, Zenon DEF StandsForGroup, StandsForColumn
        <4>3. ListToken(s, k, sch) = <<Read(s[k])>>
          BY <4>2, ListTokenIs, Zenon
        <4>4. F[k] = Reads(s)[k]
          <5>1. k \in 1 .. Len(s)
            BY <2>1, Zenon
          <5>2. Pieces(s, sch)[k] = Reads(s)[k]
            BY <4>2, <5>1, PieceIs, ZenonT(60)
          <5> QED
            BY <5>2, Zenon DEF F
        <4>5. OneLine(<<Read(s[k])>>) = Reads(s)[k]
          <5>1. s[k] = Line => Reads(s)[k] = <<>>
            BY <2>1, PieceIs, Zenon
          <5>2. s[k] # Line => Reads(s)[k] = <<Read(s[k])>>
            BY <2>1, PieceIs, Zenon
          <5> QED
            BY <5>1, <5>2, ReadPiece, Zenon
        <4> QED
          BY <4>3, <4>4, <4>5, Zenon
      <3> QED
        BY <2>1, <3>1, <3>2
    <2> QED
      BY <2>2, <2>3, Zenon DEF k
  <1>4. M \in Seq(Seq(X)) /\ Len(M) = n /\ \A i \in 1 .. n : M[i] = ListToken(s, i + 1, sch)
    <2> DEFINE G(i) == ListToken(s, i + 1, sch)
    <2>1. M = [i \in 1 .. n |-> G(i)]
      BY Zenon DEF ListOf, L
    <2>2. \A i \in 1 .. n : G(i) \in Seq(X)
      BY <1>3, Zenon
    <2> HIDE DEF G, M, n
    <2>3. M \in Seq(Seq(X)) /\ Len(M) = n /\ \A i \in 1 .. n : M[i] = G(i)
      <3> DEFINE f == [i \in 1 .. n |-> G(i)]
      <3>1. f \in Seq(Seq(X)) /\ Len(f) = n /\ \A i \in 1 .. n : f[i] = G(i)
        BY <1>2, <2>2
      <3> HIDE DEF f
      <3>2. M = f
        BY <2>1 DEF f
      <3> QED
        BY <3>1, <3>2
    <2> QED
      BY <2>3, Zenon DEF G
  <1> HIDE DEF M, n
  <1>5. Lined(M) \in Seq(Seq(X)) /\ Len(Lined(M)) = n /\ \A i \in 1 .. n : Lined(M)[i] = F[i + 1]
    <2>1. Lined(M) \in Seq(Seq(X)) /\ Len(Lined(M)) = Len(M) /\ \A i \in 1 .. Len(M) : Lined(M)[i] = OneLine(M[i])
      BY <1>4, LinedType, Zenon
    <2> QED
      BY <1>3, <1>4, <2>1, Zenon
  <1>6. SubSeq(F, 2, L - 1) \in Seq(Seq(X)) /\ Len(SubSeq(F, 2, L - 1)) = n
        /\ \A i \in 1 .. n : SubSeq(F, 2, L - 1)[i] = F[i + 1]
    <2> DEFINE S == SubSeq(F, 2, L - 1)
    <2>1. 2 \in Int /\ L - 1 \in Int /\ 1 =< 2 /\ L - 1 =< Len(F)
      BY <1>1, <1>2
    <2>2. S \in Seq(Seq(X)) /\ Len(S) = (IF 2 =< L - 1 THEN (L - 1) - 2 + 1 ELSE 0)
          /\ \A i \in 1 .. (L - 1) - 2 + 1 : S[i] = F[2 + i - 1]
      BY <1>1, <2>1, SliceType, SMTT(30)
    <2> HIDE DEF S
    <2>3. S \in Seq(Seq(X)) /\ Len(S) = n /\ \A i \in 1 .. n : S[i] = F[i + 1]
      BY <1>2, <2>2 DEF n
    <2> QED
      BY <2>3, Zenon DEF S
  <1>7. Lined(M) = SubSeq(F, 2, L - 1)
    <2> DEFINE A == Lined(M)
               B == SubSeq(F, 2, L - 1)
    <2>1. Len(A) = Len(B) /\ A \in Seq(Seq(X)) /\ B \in Seq(Seq(X)) /\ \A i \in 1 .. Len(A) : A[i] = B[i]
      BY <1>5, <1>6, Zenon
    <2> HIDE DEF A, B
    <2>2. A = B
      BY <2>1, SeqEqual
    <2> QED
      BY <2>2 DEF A, B
  <1>8. OneLine(FlattenSeq(M)) = FlattenSeq(SubSeq(F, 2, L - 1)) /\ FlattenSeq(M) \in Seq(X)
    BY <1>4, <1>7, OneLineFlatten, FlattenType, Zenon
  <1> QED
    BY <1>8, Zenon DEF Span, M, F, L

\* The meaning is SELECT, the list, and the rest from the first FROM on.
LEMMA MeaningReads ==
  ASSUME NEW X, NEW s, NEW sch, Given(X, s, sch)
  PROVE  LET R == Span(Reads(s), FirstFrom(s), Len(s))
         IN /\ Meaning(s, sch) \in Seq(X)
            /\ IsStar(s) => OneLine(Meaning(s, sch)) = (<<Kw("SELECT")>> \o OneLine(AllRead(sch))) \o R
            /\ ~IsStar(s) => OneLine(Meaning(s, sch))
                               = (<<Kw("SELECT")>> \o Span(Pieces(s, sch), 2, FirstFrom(s) - 1)) \o R
PROOF
  <1> DEFINE g == FirstFrom(s)
             L == ListEnd(s)
             R == Span(Reads(s), g, Len(s))
             F == Pieces(s, sch)
             G == Reads(s)
             sel == <<Kw("SELECT")>>
             mid == IF IsStar(s) THEN AllRead(sch) ELSE FlattenSeq(ListOf(s, sch))
             rest == RestOf(s)
  <1>0. /\ Statement(s) /\ PlainClauses(s) /\ s[1] = Kw("SELECT") /\ Kw("SELECT") \in X
        /\ L \in g .. Len(s) /\ Len(s) \in Nat /\ g \in Nat /\ g >= 3 /\ g =< Len(s) - 1
    BY GivenIs, ListEndIs, Zenon DEF Tokens
  <1>1. F \in Seq(Seq(X)) /\ Len(F) = Len(s) /\ G \in Seq(Seq(X)) /\ Len(G) = Len(s)
    BY PiecesType, Zenon
  <1>2. \A i \in 1 .. Len(s) : ~ (i < g) => F[i] = G[i]
    BY PieceIs, ZenonT(60)
  <1>3. Meaning(s, sch) = (sel \o mid) \o rest
    <2>1. IsStar(s) <=> Trim(SubSeq(s, 2, L - 1)) = <<Star>>
      BY <1>0, StarEnd, Zenon
    <2> QED
      BY <2>1, Zenon DEF Meaning, AllRead, ListOf, RestOf
  <1>4. rest \in Seq(X) /\ OneLine(rest) = Span(G, L, Len(s))
    BY RestReads, Zenon
  <1>5. mid \in Seq(X)
    BY StarListed, ListReads, Zenon
  <1>6. sel \in Seq(X) /\ OneLine(sel) = sel
    <2>1. Kw("SELECT") # Line
      BY DEF Kw, Line, Sym
    <2> QED
      BY <1>0, <2>1, Single, OneLineOne, Zenon
  <1>7. IsStar(s) => L = g /\ mid = AllRead(sch)
    BY <1>0, StarEnd, Zenon
  <1>8. ~IsStar(s) => OneLine(mid) = Span(F, 2, L - 1)
    BY ListReads, Zenon
  <1> HIDE DEF g, L, F, G, sel, mid, rest
  <1>9. sel \o mid \in Seq(X) /\ (sel \o mid) \o rest \in Seq(X)
        /\ OneLine((sel \o mid) \o rest) = (OneLine(sel) \o OneLine(mid)) \o OneLine(rest)
    <2>1. sel \o mid \in Seq(X) /\ OneLine(sel \o mid) = OneLine(sel) \o OneLine(mid)
      BY <1>5, <1>6, ConcatProperties, OneLineConcat, Zenon
    <2>2. (sel \o mid) \o rest \in Seq(X) /\ OneLine((sel \o mid) \o rest) = OneLine(sel \o mid) \o OneLine(rest)
      BY <1>4, <2>1, ConcatProperties, OneLineConcat, Zenon
    <2> QED
      BY <2>1, <2>2, Zenon
  <1>10. CASE IsStar(s)
    BY <1>3, <1>4, <1>6, <1>7, <1>9, <1>10, Zenon DEF G, g, sel
  <1>11. CASE ~IsStar(s)
    <2> DEFINE a == Span(F, 2, g - 1)
               b == Span(G, g, L - 1)
               c == Span(G, L, Len(s))
    <2>0. /\ 2 \in 1 .. Len(F) + 1 /\ g - 1 \in 2 - 1 .. Len(F) /\ L - 1 \in g - 1 .. Len(F) /\ (g - 1) + 1 = g
          /\ g \in 1 .. Len(G) + 1 /\ L - 1 \in g - 1 .. Len(G) /\ Len(s) \in L - 1 .. Len(G) /\ (L - 1) + 1 = L
          /\ g \in Int /\ L - 1 \in Int /\ L - 1 =< Len(F) /\ L - 1 =< Len(G) /\ 1 =< g /\ g - 1 \in Int
          /\ g - 1 =< Len(F) /\ L \in Int /\ Len(s) \in Int /\ 1 =< L /\ Len(s) =< Len(G) /\ 2 \in Int /\ 1 =< 2
      BY <1>0, <1>1
    <2>1. Span(F, 2, L - 1) = a \o Span(F, g, L - 1)
      <3>1. Span(F, 2, L - 1) = Span(F, 2, g - 1) \o Span(F, (g - 1) + 1, L - 1)
        BY <1>1, <2>0, SpanSplit
      <3>2. (g - 1) + 1 = g
        BY <2>0
      <3> QED
        BY <3>1, <3>2
    <2>2. Span(F, g, L - 1) = b
      <3>1. \A i \in g .. L - 1 : F[i] = G[i]
        <4>1. \A i \in g .. L - 1 : i \in 1 .. Len(s) /\ ~ (i < g)
          BY <1>0
        <4> QED
          BY <1>2, <4>1, Zenon
      <3> QED
        BY <1>1, <2>0, <3>1, SpanSame, SMTT(30)
    <2>3. Span(G, g, Len(s)) = b \o c
      <3>1. Span(G, g, Len(s)) = Span(G, g, L - 1) \o Span(G, (L - 1) + 1, Len(s))
        BY <1>1, <2>0, SpanSplit
      <3>2. (L - 1) + 1 = L
        BY <2>0
      <3> QED
        BY <3>1, <3>2
    <2>4. a \in Seq(X) /\ b \in Seq(X) /\ c \in Seq(X)
      BY <1>1, <2>0, SpanType, Zenon
    <2> HIDE DEF a, b, c
    <2>5. (sel \o (a \o b)) \o c = (sel \o a) \o (b \o c)
      <3>1. sel \o (a \o b) = (sel \o a) \o b /\ sel \o a \in Seq(X)
        <4>1. sel \in Seq(X)
          BY <1>6
        <4>2. sel \o a \in Seq(X)
          BY <2>4, <4>1, ConcatProperties
        <4>3. sel \o (a \o b) = (sel \o a) \o b
          BY <2>4, <4>1, ConcatAssociative, SMTT(30)
        <4> QED
          BY <4>2, <4>3
      <3>2. ((sel \o a) \o b) \o c = (sel \o a) \o (b \o c)
        BY <2>4, <3>1, ConcatAssociative, SMTT(30)
      <3> QED
        BY <3>1, <3>2, Zenon
    <2>6. OneLine((sel \o mid) \o rest) = (sel \o a) \o Span(G, g, Len(s))
      BY <1>4, <1>6, <1>8, <1>9, <1>11, <2>1, <2>2, <2>3, <2>5, Zenon DEF c
    <2> QED
      BY <1>3, <1>9, <1>11, <2>6, Zenon DEF a, F, G, g, sel
  <1> QED
    BY <1>10, <1>11

-----------------------------------------------------------------------------
(* The translation is the meaning. *)

\* The tokens of a statement, and what they can become.
LEMMA TokensExist ==
  ASSUME NEW s, NEW sch, Statement(s), Plain(s), Schema(sch), Filled(sch)
  PROVE  \E X : Given(X, s, sch)
PROOF
  <1> DEFINE X0 == ToSet(s) \cup {Flat(c) : c \in Pairs(sch)}
                   \cup {Comma, TableName, Name(RowID), Kw("SELECT"), Kw("FROM"), Kw("WHERE")}
             X == X0 \cup {Read(t) : t \in X0}
  <1>1. \A t : Read(Read(t)) = Read(t)
    <2> SUFFICES ASSUME NEW t PROVE Read(Read(t)) = Read(t)
      OBVIOUS
    <2>1. CASE t[1] = "ref"
      <3>1. Read(t) = Name(FlatName(t[2], t[3]))
        BY <2>1, Zenon DEF Read
      <3>2. Read(t)[1] # "ref"
        BY <3>1 DEF Name
      <3> QED
        BY <3>2, Zenon DEF Read
    <2>2. CASE t[1] # "ref"
      BY <2>2, Zenon DEF Read
    <2> QED
      BY <2>1, <2>2
  <1>2. \A t \in X : Read(t) \in X
    <2> HIDE DEF X0
    <2> QED
      BY <1>1, Zenon
  <1>3. s \in Seq(X)
    <2>1. s \in Seq(ToSet(s)) /\ ToSet(s) \subseteq X
      BY DEF Statement
    <2> HIDE DEF X, X0
    <2> QED
      BY <2>1
  <1>4. Tokens(X)
    <2>1. {Comma, TableName, Name(RowID), Kw("SELECT"), Kw("FROM"), Kw("WHERE")} \subseteq X
      OBVIOUS
    <2> QED
      BY <1>2, <2>1 DEF Tokens
  <1>5. SchemaTokens(X, sch)
    BY DEF SchemaTokens
  <1> HIDE DEF X
  <1> QED
    BY <1>3, <1>4, <1>5, Zenon DEF Given

\* Translator.Translate of a plain statement is the statement as it reads.
LEMMA TranslateReads ==
  ASSUME NEW X, NEW s, NEW sch, Given(X, s, sch), Known(Parse(s), sch), Refused \notin ToSet(Listed(s, sch))
  PROVE  /\ Translate(Parse(s), s, sch) \in Seq(X) /\ Translate(Parse(s), s, sch) # <<>>
         /\ OneLine(Translate(Parse(s), s, sch)) = OneLine(Meaning(s, sch))
PROOF
  <1> DEFINE t == Translate(Parse(s), s, sch)
             sel == <<Kw("SELECT")>>
             j == Join(FlattenSeq(Listed(s, sch)))
             from == <<Kw("FROM"), TableName>>
             w == WhereClause(s)
             e == TrailingClauses(s)
             R == Span(Reads(s), FirstFrom(s), Len(s))
  <1>0. /\ s \in Seq(X) /\ Tokens(X) /\ Statement(s) /\ Plain(s) /\ PlainWords(s) /\ PlainClauses(s)
    BY GivenIs, Zenon DEF Given
  <1>1. t = sel \o j \o from \o w \o e
    BY <1>0, TranslateIs, Zenon
  <1>2. j \in Seq(X) /\ IF IsStar(s) THEN OneLine(j) = OneLine(AllRead(sch))
                        ELSE OneLine(j) = Span(Pieces(s, sch), 2, FirstFrom(s) - 1)
    BY StarListed, ListListed, Zenon
  <1>3. /\ w \in Seq(X) /\ e \in Seq(X) /\ Clauses(s) \in Seq(X) /\ OneLine(Clauses(s)) = R
        /\ Clauses(s) = (from \o w) \o e
    <2>1. ParseSelect(s).table = <<TableName>>
      BY <1>0, TranslateIs, Zenon DEF Known
    <2> QED
      BY <1>0, <2>1, ClausesRead, Zenon DEF Clauses
  <1>4. sel \in Seq(X) /\ OneLine(sel) = sel /\ from \in Seq(X) /\ sel # <<>>
    <2>1. Kw("SELECT") # Line
      BY DEF Kw, Line, Sym
    <2>2. Kw("SELECT") \in X /\ Kw("FROM") \in X /\ TableName \in X
      BY <1>0 DEF Tokens
    <2> QED
      BY <2>1, <2>2, OneLineOne
  <1> HIDE DEF t, sel, j, from, w, e, R
  <1>5. t = (sel \o j) \o Clauses(s) /\ sel \o j \in Seq(X)
    <2>1. sel \o j \in Seq(X) /\ from \o w \in Seq(X)
      BY <1>2, <1>3, <1>4
    <2> DEFINE a == sel \o j
               b == from \o w
    <2>4. a \in Seq(X) /\ b \in Seq(X) /\ from \in Seq(X) /\ w \in Seq(X) /\ e \in Seq(X)
      BY <1>3, <1>4, <2>1
    <2>2. (a \o from) \o w = a \o (from \o w)
      <3> HIDE DEF a, b
      <3> QED
        BY <2>4, ConcatAssociative, SMTT(30)
    <2>3. (a \o b) \o e = a \o (b \o e)
      <3> HIDE DEF a, b
      <3> QED
        BY <2>4, ConcatAssociative, SMTT(30)
    <2> QED
      BY <1>1, <1>3, <2>1, <2>2, <2>3, Zenon
  <1>6. t \in Seq(X) /\ OneLine(t) = (sel \o OneLine(j)) \o R
    <2>1. OneLine(sel \o j) = sel \o OneLine(j)
      BY <1>2, <1>4, OneLineConcat, Zenon
    <2>2. OneLine((sel \o j) \o Clauses(s)) = OneLine(sel \o j) \o OneLine(Clauses(s))
      BY <1>3, <1>5, OneLineConcat, Zenon
    <2>3. (sel \o j) \o Clauses(s) \in Seq(X)
      BY <1>3, <1>5
    <2> QED
      BY <1>3, <1>5, <2>1, <2>2, <2>3, Zenon
  <1>7. OneLine(t) = OneLine(Meaning(s, sch))
    <2>1. CASE IsStar(s)
      <3>1. OneLine(Meaning(s, sch)) = (sel \o OneLine(AllRead(sch))) \o R
        BY <2>1, MeaningReads DEF sel, R
      <3> QED
        BY <1>2, <1>6, <2>1, <3>1, Zenon
    <2>2. CASE ~IsStar(s)
      <3>1. OneLine(Meaning(s, sch)) = (sel \o Span(Pieces(s, sch), 2, FirstFrom(s) - 1)) \o R
        BY <2>2, MeaningReads DEF sel, R
      <3> QED
        BY <1>2, <1>6, <2>2, <3>1, Zenon
    <2> QED
      BY <2>1, <2>2
  <1>8. t # <<>>
    <2>1. Len((sel \o j) \o Clauses(s)) = Len(sel) + Len(j) + Len(Clauses(s))
      BY <1>2, <1>3, <1>4
    <2>2. Len(sel) = 1 /\ Len(j) \in Nat /\ Len(Clauses(s)) \in Nat
      BY <1>2, <1>3 DEF sel
    <2>3. Len(t) # 0
      BY <1>5, <2>1, <2>2
    <2> QED
      BY <2>3
  <1> QED
    BY <1>6, <1>7, <1>8, Zenon DEF t

\* The first half of TranslatedRight.
LEMMA TranslatedReads ==
  ASSUME NEW s, NEW sch, Statement(s), Schema(sch), Filled(sch), Plain(s), Translate(Parse(s), s, sch) # <<>>
  PROVE  OneLine(Translate(Parse(s), s, sch)) = OneLine(Meaning(s, sch))
PROOF
  <1>1. PICK X : Given(X, s, sch)
    BY TokensExist, Zenon
  <1>2. Known(Parse(s), sch) /\ Refused \notin ToSet(Listed(s, sch))
    BY TranslateIs, Zenon
  <1> QED
    BY <1>1, <1>2, TranslateReads, Zenon

-----------------------------------------------------------------------------
(* Statements that are to be answered. *)

\* A slice with one token.
LEMMA TrimToOne ==
  ASSUME NEW X, NEW s \in Seq(X), NEW a \in Int, NEW b \in Int, 1 =< a, a =< b, b =< Len(s),
         s[a] # Line, \A i \in a + 1 .. b : s[i] = Line
  PROVE  Trim(SubSeq(s, a, b)) = <<s[a]>>
PROOF
  <1>1. PICK m, n \in Int : Trims(s, a, b, m, n) /\ Trim(SubSeq(s, a, b)) = SubSeq(s, m, n)
    <2>1. a =< b + 1
      OBVIOUS
    <2> QED
      BY <2>1, TrimSlice, Zenon
  <1>2. a =< m /\ n =< b /\ m =< n + 1 /\ (m =< n => s[m] # Line /\ s[n] # Line)
        /\ (\A i \in a .. m - 1 : s[i] = Line) /\ \A i \in n + 1 .. b : s[i] = Line
    BY <1>1, Zenon DEF Trims
  <1>3. m = a
    <2>1. ~ (a \in a .. m - 1)
      BY <1>2, Zenon
    <2> QED
      BY <1>2, <2>1
  <1>4. n = a
    <2>1. ~ (a \in n + 1 .. b)
      BY <1>2, Zenon
    <2>2. a =< n
      BY <2>1
    <2>3. ~ (n \in a + 1 .. b)
      BY <1>2, <1>3, <2>2
    <2> QED
      BY <1>2, <2>2, <2>3
  <1>5. Len(s) \in Nat /\ a \in 1 .. Len(s)
    BY LenProperties
  <1>6. SubSeq(s, a, a) \in Seq(X) /\ Len(SubSeq(s, a, a)) = 1 /\ SubSeq(s, a, a)[1] = s[a]
    <2>1. SubSeq(s, a, a) \in Seq(X) /\ Len(SubSeq(s, a, a)) = (IF a =< a THEN a - a + 1 ELSE 0)
          /\ \A i \in 1 .. a - a + 1 : SubSeq(s, a, a)[i] = s[a + i - 1]
      BY <1>5, SliceType
    <2> DEFINE u == SubSeq(s, a, a)
    <2> HIDE DEF u
    <2>2. u \in Seq(X) /\ Len(u) = 1 /\ u[1] = s[a]
      BY <2>1 DEF u
    <2> QED
      BY <2>2 DEF u
  <1>7. SubSeq(s, a, a) = <<s[a]>>
    <2> DEFINE u == SubSeq(s, a, a)
    <2> HIDE DEF u
    <2>1. u \in Seq(X) /\ Len(u) = 1 /\ u[1] = s[a]
      BY <1>6 DEF u
    <2>2. u = <<s[a]>>
      BY <2>1
    <2> QED
      BY <2>2 DEF u
  <1> QED
    BY <1>1, <1>3, <1>4, <1>7, Zenon

\* The table of a statement that is supported.
LEMMA TableFound ==
  ASSUME NEW s, NEW sch, Statement(s), Supported(s, sch)
  PROVE  Parse(s).table = <<TableName>>
PROOF
  <1> DEFINE g == FirstFrom(s)
             after == After(s, g)
             e == First(after, TableEnds)
             X == ToSet(s)
  <1>0. /\ Plain(s) /\ Spaced(s) /\ s[g + 1] = TableName /\ s \in Seq(X)
        /\ (\A i \in g + 2 .. Len(s) : s[i] = Line) \/ (g + 2 < Len(s) /\ IsWord(s[g + 2], TableEnds))
    BY Zenon DEF Supported, Statement
  <1>1. /\ PlainClauses(s) /\ s[1] = Kw("SELECT") /\ Parse(s) = ParseSelect(s)
        /\ g \in Nat /\ Len(s) \in Nat /\ g =< Len(s) - 1 /\ g >= 3 /\ DOMAIN s = 1 .. Len(s)
    BY <1>0, TranslateIs, CutIs, LenProperties, Zenon DEF Plain
  <1>2. Parse(s).table = Trim(Before(after, e))
    BY <1>1, SelectIs, Zenon
  <1> HIDE DEF g, after, e
  <1>3. g \in 0 .. Len(s) /\ g + 1 \in Int /\ 1 =< g + 1 /\ g + 1 =< Len(s)
    BY <1>1
  <1>4. after \in Seq(X) /\ Len(after) = Len(s) - g
    BY <1>0, <1>3, AfterIs, Zenon DEF after
  <1>5. \/ e = 0 /\ \A i : ~Found(after, TableEnds, i)
        \/ Found(after, TableEnds, e) /\ \A i : Found(after, TableEnds, i) => e =< i
    BY <1>4, FirstIs, Zenon DEF e
  <1>6. TableName # Line
    BY DEF TableName, Name, Line, Sym
  <1>7. CASE \A i \in g + 2 .. Len(s) : s[i] = Line
    <2>1. e = 0
      <3> SUFFICES ASSUME Found(after, TableEnds, e) PROVE FALSE
        BY <1>5, Zenon
      <3>1. e \in 2 .. Len(after) - 1
        BY Zenon DEF Found
      <3>2. e \in Int /\ g + e \in g + 2 .. Len(s)
        BY <1>1, <1>4, <3>1
      <3>3. Found(s, TableEnds, g + e)
        BY <1>0, <1>3, <3>2, FoundAfter, Zenon DEF after
      <3>4. IsWord(Line, TableEnds)
        BY <1>7, <3>2, <3>3, Zenon DEF Found
      <3> QED
        BY <3>4, NoWord, Zenon
    <2>2. Before(after, 0) = SubSeq(s, g + 1, Len(s))
      <3>1. 0 \in 0 .. Len(s) - g
        BY <1>1
      <3>2. Before(After(s, g), 0) = SubSeq(s, g + 1, IF 0 = 0 THEN Len(s) ELSE g + 0 - 1)
        BY <1>0, <1>3, <3>1, BeforeIs
      <3> QED
        BY <3>2, Zenon DEF after
    <2>3. \A i \in (g + 1) + 1 .. Len(s) : s[i] = Line
      <3>1. \A i \in (g + 1) + 1 .. Len(s) : i \in g + 2 .. Len(s)
        BY <1>1
      <3> QED
        BY <1>7, <3>1, Zenon
    <2>4. Len(s) \in Int /\ Len(s) =< Len(s)
      BY <1>1
    <2>5. Trim(SubSeq(s, g + 1, Len(s))) = <<s[g + 1]>>
      BY <1>0, <1>3, <1>6, <2>3, <2>4, TrimToOne, Zenon
    <2> QED
      BY <1>0, <1>2, <2>1, <2>2, <2>5, Zenon
  <1>8. CASE g + 2 < Len(s) /\ IsWord(s[g + 2], TableEnds)
    <2>1. Found(s, TableEnds, g + 2)
      <3>1. g + 2 \in 2 .. Len(s) - 1 /\ g + 2 \in DOMAIN s /\ g + 3 \in DOMAIN s /\ (g + 2) + 1 = g + 3
            /\ (g + 2) - 1 = g + 1 /\ (g + 3) - 1 = g + 2 /\ g + 2 # 1
        BY <1>1, <1>8
      <3>2. s[g + 3] # Line
        <4> SUFFICES ASSUME s[g + 3] = Line PROVE FALSE
          OBVIOUS
        <4>1. \A j \in {(g + 3) - 1, (g + 3) + 1} \cap DOMAIN s : s[j][1] # "kw" \/ j = 1
          BY <1>0, <3>1, Zenon DEF Spaced
        <4>2. g + 2 \in {(g + 3) - 1, (g + 3) + 1} \cap DOMAIN s
          BY <3>1
        <4>3. s[g + 2][1] # "kw"
          BY <3>1, <4>1, <4>2, Zenon
        <4> QED
          BY <1>8, <4>3, Zenon DEF IsWord
      <3>3. s[(g + 2) - 1] # Line /\ s[(g + 2) + 1] # Line
        BY <1>0, <1>6, <3>1, <3>2
      <3> QED
        BY <1>8, <3>1, <3>3, Zenon DEF Found
    <2>2. Found(after, TableEnds, 2)
      <3>1. 2 \in Int /\ 2 >= 2
        OBVIOUS
      <3> QED
        BY <1>0, <1>3, <2>1, <3>1, FoundAfter, Zenon DEF after
    <2>3. e = 2
      <3>1. Found(after, TableEnds, e) /\ e =< 2
        BY <1>5, <2>2, Zenon
      <3>2. e \in 2 .. Len(after) - 1
        BY <3>1, Zenon DEF Found
      <3> QED
        BY <1>1, <1>4, <3>1, <3>2
    <2>4. Before(after, 2) = SubSeq(s, g + 1, g + 1)
      <3>1. 2 \in 0 .. Len(s) - g /\ g + 2 - 1 = g + 1
        BY <1>1, <1>8
      <3>2. Before(After(s, g), 2) = SubSeq(s, g + 1, IF 2 = 0 THEN Len(s) ELSE g + 2 - 1)
        BY <1>0, <1>3, <3>1, BeforeIs
      <3>3. 2 # 0
        OBVIOUS
      <3> QED
        BY <3>1, <3>2, <3>3 DEF after
    <2>5. \A i \in (g + 1) + 1 .. g + 1 : s[i] = Line
      BY <1>1
    <2>6. Trim(SubSeq(s, g + 1, g + 1)) = <<s[g + 1]>>
      BY <1>0, <1>3, <1>6, <2>5, TrimToOne
    <2> QED
      BY <1>0, <1>2, <2>3, <2>4, <2>6, Zenon
  <1> QED
    BY <1>0, <1>7, <1>8

\* A column that ValidateQuery lets pass.
ValidColumn(c, sch) ==
  CASE c[1] = "group" -> HasGroup(sch, c[2])
    [] c[1] = "column" -> <<c[2], c[3]>> \in ToSet(AllColumns(sch))
    [] OTHER -> TRUE

\* ValidColumn for each kind of column.
LEMMA ValidIs ==
  ASSUME NEW sch
  PROVE  /\ \A p : ValidColumn(<<"text", p>>, sch) /\ ValidColumn(<<"unqualified", p>>, sch)
         /\ \A g : HasGroup(sch, g) => ValidColumn(<<"group", g>>, sch)
         /\ \A g, n : <<g, n>> \in ToSet(AllColumns(sch)) => ValidColumn(<<"column", g, n>>, sch)
BY DEF ValidColumn

\* A token that is a column the schema has.
LEMMA TokenAccepted ==
  ASSUME NEW s, NEW sch, Schema(sch), Filled(sch), NEW m, Has(sch, s[m])
  PROVE  /\ TranslateColumn(OneColumn(s[m]), sch) # Refused /\ ValidColumn(OneColumn(s[m]), sch)
         /\ Deeper(s[m]) = 0
PROOF
  <1> DEFINE tok == s[m]
             t == TranslateColumn(OneColumn(tok), sch)
  <1>0. \A u : <<<<u>>>> # Refused
    BY DEF Refused
  <1>1. tok[1] \in {"ref", "name"}
    BY DEF Has
  <1>2. Deeper(tok) = 0
    BY <1>1, FlatTokens
  <1>3. CASE tok[1] = "ref" /\ tok[3] = All
    <2>1. HasGroup(sch, tok[2])
      BY <1>3 DEF Has
    <2>2. OneColumn(tok) = <<"group", tok[2]>>
      BY <1>3, Zenon DEF OneColumn
    <2>3. t = Named(GroupColumns(sch, tok[2]))
      BY <2>1, <2>2, ColumnBecomes, Zenon
    <2>4. Named(GroupColumns(sch, tok[2])) # Refused
      <3> DEFINE X == {Flat(c) : c \in Pairs(sch)}
      <3>1. \A c \in Pairs(sch) : Flat(c) \in X
        OBVIOUS
      <3>2. GroupColumns(sch, tok[2]) \in Seq(Pairs(sch))
        BY <2>1, GroupColumnsType, Zenon
      <3> HIDE DEF X
      <3> QED
        BY <3>1, <3>2, NamedNotRefused, Zenon
    <2>5. ValidColumn(OneColumn(tok), sch)
      BY <2>1, <2>2, ValidIs, Zenon
    <2> QED
      BY <1>2, <2>3, <2>4, <2>5, Zenon
  <1>4. CASE tok[1] = "ref" /\ tok[3] # All
    <2>1. <<tok[2], tok[3]>> \in ToSet(AllColumns(sch))
      BY <1>4 DEF Has
    <2>2. OneColumn(tok) = <<"column", tok[2], tok[3]>>
      BY <1>4, Zenon DEF OneColumn
    <2>3. t # Refused
      <3>1. \A g, n : TranslateColumn(<<"column", g, n>>, sch) = Named(<<<<g, n>>>>)
        BY ColumnBecomes, Zenon
      <3>2. \A g, n : Named(<<<<g, n>>>>) # Refused
        BY <1>0, NamedOne
      <3> QED
        BY <2>2, <3>1, <3>2, Zenon
    <2>4. ValidColumn(OneColumn(tok), sch)
      <3>1. \A g, n : <<g, n>> \in ToSet(AllColumns(sch)) => ValidColumn(<<"column", g, n>>, sch)
        BY ValidIs, Zenon
      <3> QED
        BY <2>1, <2>2, <3>1, Zenon
    <2> QED
      BY <1>2, <2>3, <2>4, Zenon
  <1>5. CASE tok[1] = "name"
    <2>1. Internal(tok[2]) \/ Cardinality(Owners(sch, tok[2])) = 1
      BY <1>5 DEF Has
    <2>2. OneColumn(tok) = <<"unqualified", tok[2]>>
      BY <1>5 DEF OneColumn
    <2>3. Internal(tok[2]) => t = <<<<Name(tok[2])>>>>
      BY <2>2, ColumnBecomes, Zenon
    <2>4. ~Internal(tok[2]) => t = <<<<Flat(CHOOSE c \in Owners(sch, tok[2]) : TRUE)>>>>
      BY <2>1, <2>2, ColumnBecomes, NamedOne, Zenon
    <2>5. ValidColumn(OneColumn(tok), sch)
      BY <2>2, ValidIs, Zenon
    <2> QED
      BY <1>0, <1>2, <2>3, <2>4, <2>5, Zenon
  <1> QED
    BY <1>1, <1>3, <1>4, <1>5

\* A column of a supported statement is neither refused nor unknown.
LEMMA ColumnAccepted ==
  ASSUME NEW X, NEW s, NEW sch, Given(X, s, sch), Supported(s, sch), ~IsStar(s),
         NEW c, NEW d, Column(s, c, d)
  PROVE  /\ TranslateColumn(ParseColumn(Text(s, c, d)), sch) # Refused
         /\ ValidColumn(ParseColumn(Text(s, c, d)), sch)
PROOF
  <1> DEFINE g == FirstFrom(s)
             a == c + 1
             b == d - 1
             p == ParseColumn(Text(s, c, d))
  <1>0. /\ s \in Seq(X) /\ Statement(s) /\ DOMAIN s = 1 .. Len(s) /\ PlainClauses(s) /\ s[1] = Kw("SELECT")
        /\ Len(s) \in Nat /\ g \in Nat /\ g =< Len(s) - 1 /\ Schema(sch) /\ Filled(sch)
    BY GivenIs, Zenon
  <1>1. c \in 1 .. g /\ d \in 1 .. g /\ c < d /\ c \in Cuts(s) /\ d \in Cuts(s) /\ \A k \in a .. b : k \notin Cuts(s)
    BY ColumnParsed, Zenon DEF Column
  <1>2. \A i \in (2 .. g - 1) \ Cuts(s) :
             \/ s[i] = Line
             \/ Alone(s, i) /\ Has(sch, s[i])
             \/ \E j \in 2 .. g - 1 : s[j] = Sym("(") /\ (i .. j \cup j .. i) \cap Cuts(s) = {}
    BY Zenon DEF Supported, IsStar
  <1> HIDE DEF g
  <1>3. a \in Int /\ b \in Int /\ 1 =< a /\ b =< Len(s) /\ b < g
    BY <1>0, <1>1
  <1> HIDE DEF a, b
  <1>4. PICK m, n \in Int : /\ Trims(s, a, b, m, n) /\ m =< n
                            /\ Underscored(SubSeq(s, m, n)) => m # n
                            /\ ParsedAs(s, c, d, m, n)
    BY ColumnParsed, Zenon DEF Parsed, a, b
  <1>5. a =< m /\ n =< b /\ s[m] # Line /\ s[n] # Line
    BY <1>4, Zenon DEF Trims
  <1>6. CASE IsCall(s, c, d)
    <2> DEFINE u == SubSeq(s, m, n)
    <2>1. p = <<"text", u>>
      BY <1>4, <1>6, Zenon DEF ParsedAs
    <2>2. u \in Seq(X) /\ Len(u) = n - m + 1
      <3>1. 1 =< m /\ n =< Len(s)
        BY <1>3, <1>5
      <3>2. u \in Seq(X) /\ Len(u) = IF m =< n THEN n - m + 1 ELSE 0
        BY <1>0, <3>1, SliceType
      <3> HIDE DEF u
      <3> QED
        BY <1>4, <3>2
    <2>3. TranslateColumn(p, sch) = <<TranslateColumnRefs(u)>>
      BY <2>1, ColumnBecomes, Zenon
    <2>4. TranslateColumnRefs(u) # <<>>
      <3>1. 1 \in DOMAIN u
        <4> HIDE DEF u
        <4>1. DOMAIN u = 1 .. Len(u)
          BY <2>2, LenProperties, Zenon
        <4> QED
          BY <1>4, <2>2, <4>1
      <3> HIDE DEF u
      <3>2. DOMAIN TranslateColumnRefs(u) = DOMAIN u
        BY DEF TranslateColumnRefs
      <3>3. DOMAIN <<>> = {}
        OBVIOUS
      <3> QED
        BY <3>1, <3>2, <3>3
    <2> HIDE DEF u
    <2>5. <<TranslateColumnRefs(u)>> # Refused
      BY <2>4 DEF Refused
    <2>6. ValidColumn(p, sch)
      BY <2>1, ValidIs, Zenon
    <2> QED
      BY <2>3, <2>5, <2>6, Zenon
  <1>7. CASE ~IsCall(s, c, d)
    <2>1. m \in a .. b /\ n \in a .. b /\ m \in 2 .. g - 1
      <3>1. m =< n /\ m \in Int /\ n \in Int
        BY <1>4
      <3>2. a =< m /\ n =< b
        BY <1>5
      <3>3. c >= 1 /\ c \in Int /\ g \in Int /\ a = c + 1 /\ a \in Int /\ b \in Int /\ b < g
        BY <1>0, <1>1, <1>3 DEF a
      <3> QED
        BY <3>1, <3>2, <3>3
    <2>2. ASSUME NEW j \in 2 .. g - 1, s[j] = Sym("("), (m .. j \cup j .. m) \cap Cuts(s) = {}
          PROVE FALSE
      <3>1. ~ (c \in j .. m) /\ ~ (d \in m .. j)
        BY <1>1, <2>2
      <3>2. j \in a .. b
        BY <1>1, <2>1, <3>1 DEF a, b
      <3> QED
        BY <1>7, <2>2, <3>2, Zenon DEF IsCall, a, b
    <2>3. Alone(s, m) /\ Has(sch, s[m])
      <3>1. m \notin Cuts(s)
        BY <1>1, <2>1, Zenon
      <3>2. m \in (2 .. g - 1) \ Cuts(s)
        BY <2>1, <3>1
      <3> QED
        BY <1>2, <1>5, <2>2, <3>2, Zenon
    <2>4. TranslateColumn(OneColumn(s[m]), sch) # Refused /\ ValidColumn(OneColumn(s[m]), sch) /\ Deeper(s[m]) = 0
      BY <1>0, <2>3, TokenAccepted, Zenon
    <2>5. \A j \in a .. b : j = m \/ s[j] = Line
      BY <1>0, <2>1, <2>3, <2>4, AloneIn, ZenonT(30) DEF a, b
    <2>6. m = n
      BY <1>5, <2>1, <2>5, Zenon
    <2>7. p = OneColumn(s[m])
      <3>1. ~Underscored(SubSeq(s, m, n))
        BY <1>4, <2>6, Zenon
      <3> QED
        BY <1>4, <1>7, <2>6, <3>1, Zenon DEF ParsedAs
    <2> QED
      BY <2>4, <2>7, Zenon
  <1> QED
    BY <1>6, <1>7

\* A supported statement passes ValidateQuery, and Translate refuses none of its columns.
LEMMA SupportedPasses ==
  ASSUME NEW X, NEW s, NEW sch, Given(X, s, sch), Supported(s, sch), sch # Absent
  PROVE  ValidateQuery(Parse(s), sch) /\ Refused \notin ToSet(Listed(s, sch))
PROOF
  <1> DEFINE q == Parse(s)
             list == SubSeq(s, 2, FirstFrom(s) - 1)
             P == SplitColumns(list)
  <1>0. Statement(s) /\ Plain(s) /\ PlainClauses(s)
    BY GivenIs, Zenon DEF Given
  <1>1. Known(q, sch)
    BY <1>0, TableFound, Zenon DEF Known
  <1>2. q.columns = IF IsStar(s) THEN <<>> ELSE ParseColumnList(list)
    BY <1>0, TranslateIs, SelectIs, Zenon DEF IsStar
  <1>3. ValidateQuery(q, sch) <=> Known(q, sch) /\ \A i \in DOMAIN q.columns : ValidColumn(q.columns[i], sch)
    BY Zenon DEF ValidateQuery, ValidColumn
  <1>4. CASE IsStar(s)
    <2>1. Refused \notin ToSet(Listed(s, sch))
      BY <1>4, StarListed, Zenon
    <2>2. q.columns = <<>>
      BY <1>2, <1>4, Zenon
    <2> HIDE DEF q
    <2>3. DOMAIN q.columns = {}
      BY <2>2
    <2> QED
      BY <1>1, <1>3, <2>1, <2>3, Zenon DEF q
  <1>5. CASE ~IsStar(s)
    <2>1. P \in Seq(Seq(X)) /\ Texts(s, P)
      BY SplitReads, Zenon DEF Parts
    <2> HIDE DEF P
    <2>2. DOMAIN P = 1 .. Len(P)
      BY <2>1, LenProperties, Zenon
    <2>3. \A i \in DOMAIN P : /\ TranslateColumn(ParseColumn(P[i]), sch) # Refused
                              /\ ValidColumn(ParseColumn(P[i]), sch)
      <3> SUFFICES ASSUME NEW i \in DOMAIN P
                   PROVE  TranslateColumn(ParseColumn(P[i]), sch) # Refused /\ ValidColumn(ParseColumn(P[i]), sch)
        BY Zenon
      <3>1. PICK c, d : Column(s, c, d) /\ P[i] = Text(s, c, d)
        BY <2>1, <2>2, Zenon DEF Texts
      <3> QED
        BY <1>5, <3>1, ColumnAccepted, Zenon
    <2>4. q.columns = [i \in DOMAIN P |-> ParseColumn(P[i])]
      BY <1>2, <1>5, Zenon DEF ParseColumnList, P
    <2>5. Listed(s, sch) = [i \in DOMAIN P |-> TranslateColumn(ParseColumn(P[i]), sch)]
      BY <1>5, Zenon DEF Listed, IsStar, Becomes, P
    <2> HIDE DEF q
    <2>6. \A i \in DOMAIN q.columns : ValidColumn(q.columns[i], sch)
      BY <2>3, <2>4
    <2>7. Refused \notin ToSet(Listed(s, sch))
      BY <2>3, <2>5 DEF ToSet
    <2> QED
      BY <1>1, <1>3, <2>6, <2>7, Zenon DEF q
  <1> QED
    BY <1>4, <1>5

\* Binds looks at the tokens other than line breaks.
LEMMA BindsSame ==
  ASSUME NEW X, NEW s \in Seq(X), NEW t \in Seq(X), OneLine(s) = OneLine(t), NEW C, Binds(t, C)
  PROVE  Binds(s, C)
PROOF
  <1> SUFFICES ASSUME NEW i \in DOMAIN s
               PROVE  s[i][1] # "ref" /\ (s[i][1] = "name" => s[i] = TableName \/ s[i][2] \in C \cup {RowID})
    BY Zenon DEF Binds
  <1>1. ToSet(s) \ {Line} = ToSet(t) \ {Line}
    BY OneLineRange, Zenon
  <1>2. CASE s[i] = Line
    BY <1>2 DEF Line, Sym
  <1>3. CASE s[i] # Line
    <2>1. s[i] \in ToSet(s)
      BY DEF ToSet
    <2>2. s[i] \in ToSet(t)
      BY <1>1, <1>3, <2>1
    <2>3. PICK j \in DOMAIN t : t[j] = s[i]
      BY <2>2 DEF ToSet
    <2> QED
      BY <2>3, Zenon DEF Binds
  <1> QED
    BY <1>2, <1>3

\* Parse, ValidateQuery and Translate are right about every statement and schema:
\* what Translate makes of a plain SELECT is the statement as it reads, and
\* neither it nor ValidateQuery refuses a supported one.
THEOREM TranslatorIsRight == \A s \in Statements, sch \in Schemas : TranslatedRight(s, sch)
PROOF
  <1> SUFFICES ASSUME NEW s \in Statements, NEW sch \in Schemas, Filled(sch)
               PROVE  LET q == Parse(s)
                          translated == Translate(q, s, sch)
                      IN /\ Plain(s) /\ q.type = "SELECT" /\ translated # <<>> =>
                              OneLine(translated) = OneLine(Meaning(s, sch))
                         /\ Supported(s, sch) /\ Binds(Meaning(s, sch), FlatColumns(sch)) =>
                              /\ q.type = "SELECT" /\ ValidateQuery(q, sch)
                              /\ translated # <<>> /\ Binds(translated, FlatColumns(sch))
    BY Zenon DEF TranslatedRight
  <1>1. Statement(s)
    BY StatementShape, Zenon
  <1>2. Schema(sch) /\ sch # Absent
    BY QueryAssumption, Zenon DEF Schema
  <1>3. ASSUME Plain(s), Translate(Parse(s), s, sch) # <<>>
        PROVE  OneLine(Translate(Parse(s), s, sch)) = OneLine(Meaning(s, sch))
    BY <1>1, <1>2, <1>3, TranslatedReads, Zenon
  <1>4. ASSUME Supported(s, sch), Binds(Meaning(s, sch), FlatColumns(sch))
        PROVE  /\ Parse(s).type = "SELECT" /\ ValidateQuery(Parse(s), sch)
               /\ Translate(Parse(s), s, sch) # <<>> /\ Binds(Translate(Parse(s), s, sch), FlatColumns(sch))
    <2>1. Plain(s)
      BY <1>4, Zenon DEF Supported
    <2>2. PICK X : Given(X, s, sch)
      BY <1>1, <1>2, <2>1, TokensExist, Zenon
    <2>3. ValidateQuery(Parse(s), sch) /\ Refused \notin ToSet(Listed(s, sch))
      BY <1>2, <1>4, <2>2, SupportedPasses, Zenon
    <2>4. Known(Parse(s), sch)
      BY <2>3, Zenon DEF ValidateQuery
    <2>5. /\ Translate(Parse(s), s, sch) \in Seq(X) /\ Translate(Parse(s), s, sch) # <<>>
          /\ OneLine(Translate(Parse(s), s, sch)) = OneLine(Meaning(s, sch))
      BY <2>2, <2>3, <2>4, TranslateReads, Zenon
    <2>6. Meaning(s, sch) \in Seq(X)
      BY <2>2, MeaningReads
    <2>7. Binds(Translate(Parse(s), s, sch), FlatColumns(sch))
      BY <1>4, <2>5, <2>6, BindsSame, Zenon
    <2>8. Parse(s).type = "SELECT"
      BY <1>1, <2>1, TranslateIs, Zenon
    <2> QED
      BY <2>3, <2>5, <2>7, <2>8, Zenon
  <1> QED
    BY <1>3, <1>4, Zenon

-----------------------------------------------------------------------------
(* Types. *)

\* What the types rest on: a table being made has its schema, a request has a
\* statement, and has no result before its end.
Flow ==
  /\ admin = "create" => schema \in Schemas
  /\ admin = "drop" => schema # Absent
  /\ pc # "idle" => stmt \in Statements
  /\ pc # "done" => result = "none"

TypeInv == TypeOK /\ Flow

LEMMA TypesInit == Init => TypeInv
BY QueryAssumption DEF Init, TypeInv, TypeOK, Flow, Made

\* The types hold after each step of the catalog's.
LEMMA CatalogTypes == TypeInv /\ Catalog => TypeInv'
PROOF
  <1> SUFFICES ASSUME TypeInv PROVE Catalog => TypeInv'
    OBVIOUS
  <1> USE DEF TypeInv, TypeOK, Flow, request
  <1>1. CreateSchema => TypeInv'
    BY QueryAssumption DEF CreateSchema
  <1>2. CreateDuckDBTable => TypeInv'
    BY QueryAssumption DEF CreateDuckDBTable, Made
  <1>3. DropDuckDBTable => TypeInv'
    BY QueryAssumption DEF DropDuckDBTable
  <1>4. DropSchema => TypeInv'
    BY QueryAssumption DEF DropSchema
  <1> QED
    BY <1>1, <1>2, <1>3, <1>4 DEF Catalog

\* The types hold after each step of a request.
LEMMA RequestTypes == TypeInv /\ Request => TypeInv'
PROOF
  <1> SUFFICES ASSUME TypeInv PROVE Request => TypeInv'
    OBVIOUS
  <1>1. ASSUME NEW front \in Fronts, NEW s \in Statements, Receive(front, s)
        PROVE  TypeInv'
    <2>1. s # <<>> /\ (Parse(s).type = "panic" => s[1] = Kw("INSERT") \/ s[2] \in {Kw("FROM"), Kw("SET")})
      BY StatementShape, Panics DEF Statement
    <2>2. UNCHANGED <<schema, table, admin, changes>> /\ stmt' = s /\ pc = "idle"
          /\ seen' = {schema} \cup (IF admin = "idle" THEN {} ELSE {Absent}) /\ UNCHANGED since
      BY <1>1 DEF Receive, End
    <2>3. \/ pc' = "done" /\ result' = "refused" /\ UNCHANGED sql
          \/ pc' = "done" /\ result' = "panic" /\ Parse(s).type = "panic" /\ UNCHANGED sql
          \/ pc' = "run" /\ sql' = s /\ UNCHANGED result
          \/ pc' = "validate" /\ UNCHANGED <<sql, result>>
      BY <1>1 DEF Receive, End
    <2> QED
      BY <2>1, <2>2, <2>3 DEF TypeInv, TypeOK, Flow
  <1>2. Validate => TypeInv'
    BY DEF Validate, End, TypeInv, TypeOK, Flow
  <1>3. TranslateStep => TypeInv'
    BY DEF TranslateStep, End, TypeInv, TypeOK, Flow
  <1>4. Run => TypeInv'
    BY DEF Run, End, TypeInv, TypeOK, Flow
  <1>5. Return => TypeInv'
    BY DEF Return, TypeInv, TypeOK, Flow
  <1> QED
    BY <1>1, <1>2, <1>3, <1>4, <1>5 DEF Request

LEMMA TypesKept == TypeInv /\ [Next]_vars => TypeInv'
PROOF
  <1>1. TypeInv /\ UNCHANGED vars => TypeInv'
    BY DEF TypeInv, TypeOK, Flow, vars
  <1> QED
    BY <1>1, CatalogTypes, RequestTypes DEF Next

LEMMA TypesAlways == Spec => []TypeInv
BY TypesInit, TypesKept, PTL DEF Spec

\* In every reachable state the table, the request and its result are of their
\* types; DuckDB is given a text to run (Engine.Query returns on Translate's
\* error), and the slices of parser.go end before they begin in no other
\* statement than an INSERT or one with FROM or SET at its second word.
THEOREM QueryTypes == Spec => []TypeOK
BY TypesAlways, PTL DEF TypeInv

\* In every reachable state Translator.Translate of the request's statement, when
\* that is plain, is the statement as it reads, whatever the schema.
THEOREM PlainTranslated == Spec => []TranslatesPlain
PROOF
  <1>1. TypeInv => TranslatesPlain
    BY TranslatorIsRight, Zenon DEF TypeInv, TypeOK, Flow, TranslatesPlain
  <1> QED
    BY <1>1, TypesAlways, PTL

-----------------------------------------------------------------------------
(* Answers. *)

\* A request knows every schema the table has while it runs.
Witnessed ==
  /\ pc # "idle" => schema \in seen /\ (admin # "idle" => Absent \in seen)
  /\ IsFiniteSet(seen)

Translated(sch) == Translate(Parse(stmt), stmt, sch)

\* DuckDB has the table only while the schema is there and no one makes or drops
\* it, and has it as the schema says.
Standing ==
  /\ schema = Absent \/ admin # "idle" => table = Absent
  /\ table = Absent \/ table = FlatColumns(schema)

\* What DuckDB is given is the statement translated for one of the schemas since
\* then, of which the table has one if it has any.
FromOneSchema ==
  Plain(stmt) =>
    /\ pc \in {"validate", "translate"} => Parse(stmt).type = "SELECT"
    /\ pc = "run" =>
         /\ Parse(stmt).type = "SELECT" /\ sql # <<>>
         /\ \E sch \in since : sql = Translated(sch)
         /\ schema \in since \cup {Absent}

\* Of a table that stays as it is, a statement whose names it has is not refused.
Easy(sch) == /\ Supported(stmt, sch) /\ Filled(sch) /\ seen = {sch} /\ sch # Absent
             /\ table = FlatColumns(sch) /\ Accepts(Meaning(stmt, sch))
NotRefused ==
  \A sch \in Schemas :
    Easy(sch) => (pc = "run" => sql = Translated(sch)) /\ (pc = "done" => result = "answered")

AnswerInv == TypeInv /\ Witnessed /\ Standing /\ FromOneSchema /\ NotRefused

\* Translate makes no text without a schema.
LEMMA TranslatesWithSchema ==
  ASSUME NEW s, NEW sch, Plain(s), Parse(s).type = "SELECT", Translate(Parse(s), s, sch) # <<>>
  PROVE  sch # Absent
BY PlainIsSelect

\* The catalog's steps: those that change the schema or DuckDB's table while a
\* request runs leave Absent among what the table has been, or were begun with it.
LEMMA CatalogAnswers ==
  AnswerInv /\ Catalog => Witnessed' /\ Standing' /\ FromOneSchema' /\ NotRefused'
PROOF
  <1> SUFFICES ASSUME AnswerInv, Catalog
               PROVE  Witnessed' /\ Standing' /\ FromOneSchema' /\ NotRefused'
    OBVIOUS
  <1>1. UNCHANGED <<pc, stmt, sql, result>> /\ seen \subseteq seen'
    BY DEF Catalog, CreateSchema, CreateDuckDBTable, DropDuckDBTable, DropSchema, request
  <1>2. Witnessed'
    <2>1. \/ seen' = seen
          \/ \E x : seen' = seen \cup {x}
      BY DEF Catalog, CreateSchema, CreateDuckDBTable, DropDuckDBTable, DropSchema
    <2>2. IsFiniteSet(seen')
      BY <2>1, FS_AddElement DEF AnswerInv, Witnessed
    <2> QED
      BY <2>2, QueryAssumption DEF AnswerInv, Witnessed, Catalog, CreateSchema, CreateDuckDBTable,
         DropDuckDBTable, DropSchema, request
  <1>5. Standing'
    <2>1. \/ table' = Absent /\ schema' = schema
          \/ table' = table /\ table = Absent
          \/ table' = Made(schema) /\ schema' = schema /\ schema \in Schemas /\ admin' = "idle"
      BY DEF AnswerInv, TypeInv, Flow, Standing, Catalog, CreateSchema, CreateDuckDBTable,
         DropDuckDBTable, DropSchema
    <2> QED
      BY <2>1, QueryAssumption DEF Standing, Made
  <1>3. FromOneSchema'
    <2>1. ASSUME NEW sch PROVE Translated(sch)' = Translated(sch)
      BY <1>1, Zenon DEF Translated
    <2>2. since \subseteq since' /\ schema' \in since' \cup {Absent, schema}
      BY DEF Catalog, CreateSchema, CreateDuckDBTable, DropDuckDBTable, DropSchema
    <2> QED
      BY <1>1, <2>1, <2>2 DEF AnswerInv, FromOneSchema
  <1>4. NotRefused'
    <2> SUFFICES ASSUME NEW sch \in Schemas, Easy(sch)', pc # "idle"
                 PROVE  (pc = "run" => sql = Translated(sch)) /\ (pc = "done" => result = "answered")
      BY <1>1 DEF NotRefused, Translated
    <2>1. seen = {sch} /\ sch # Absent /\ admin = "idle"
      BY <1>1 DEF Easy, AnswerInv, Witnessed
    <2>2. UNCHANGED table
      BY <2>1 DEF Easy, Catalog, CreateSchema, CreateDuckDBTable, DropDuckDBTable, DropSchema
    <2>3. Easy(sch)
      BY <1>1, <2>1, <2>2 DEF Easy, Accepts
    <2> QED
      BY <2>3 DEF AnswerInv, NotRefused
  <1> QED
    BY <1>2, <1>3, <1>4, <1>5

\* A request's beginning.
LEMMA ReceiveAnswers ==
  ASSUME AnswerInv, NEW front \in Fronts, NEW s \in Statements, Receive(front, s)
  PROVE  Witnessed' /\ Standing' /\ FromOneSchema' /\ NotRefused'
PROOF
  <1>1. /\ pc = "idle" /\ stmt' = s /\ UNCHANGED <<schema, table, admin>>
        /\ seen' = {schema} \cup (IF admin = "idle" THEN {} ELSE {Absent})
    BY DEF Receive, End
  <1>2. result = "none"
    BY <1>1 DEF AnswerInv, TypeInv, Flow
  <1>3. \/ pc' = "done" /\ result' # "answered" /\ (s[1][2] # "SELECT" \/ Parse(s).type \in {"error", "panic"})
        \/ pc' = "run" /\ result' = "none" /\ s[1][2] # "SELECT"
        \/ pc' = "validate" /\ result' = "none" /\ Parse(s).type \notin {"error", "panic"}
    BY <1>2 DEF Receive, End
  <1>4. Witnessed'
    <2>1. seen' = {schema} \/ seen' = {schema} \cup {Absent}
      BY <1>1
    <2>2. IsFiniteSet({schema}) /\ IsFiniteSet({schema} \cup {Absent})
      BY FS_Singleton, FS_AddElement, Zenon
    <2> QED
      BY <1>1, <2>1, <2>2 DEF Witnessed
  <1>7. Standing'
    BY <1>1 DEF AnswerInv, Standing
  <1>5. FromOneSchema'
    BY <1>1, <1>3, PlainIsSelect DEF FromOneSchema
  <1>6. NotRefused'
    <2> SUFFICES ASSUME NEW sch \in Schemas, Easy(sch)'
                 PROVE  pc' = "validate"
      BY DEF NotRefused
    <2>1. Supported(s, sch) /\ Filled(sch) /\ Binds(Meaning(s, sch), FlatColumns(sch))
      BY <1>1, Zenon DEF Easy, Accepts
    <2>2. Parse(s).type = "SELECT"
      BY <2>1, TranslatorIsRight, Zenon DEF TranslatedRight
    <2>3. s[1][2] = "SELECT"
      BY <2>1 DEF Supported, Plain, Kw
    <2> QED
      BY <1>3, <2>2, <2>3
  <1> QED
    BY <1>4, <1>5, <1>6, <1>7

\* What TranslatorIsRight says of a request to a table that stays as it is.
LEMMA EasyTranslates ==
  ASSUME NEW sch \in Schemas, Easy(sch), stmt \in Statements
  PROVE  /\ ValidateQuery(Parse(stmt), sch)
         /\ Translated(sch) # <<>> /\ Binds(Translated(sch), FlatColumns(sch))
BY TranslatorIsRight, Zenon DEF TranslatedRight, Easy, Translated, Accepts

\* The steps of a request.
LEMMA RequestAnswers ==
  AnswerInv /\ Request => Witnessed' /\ Standing' /\ FromOneSchema' /\ NotRefused'
PROOF
  <1> SUFFICES ASSUME AnswerInv, Request
               PROVE  Witnessed' /\ Standing' /\ FromOneSchema' /\ NotRefused'
    OBVIOUS
  <1>1. CASE Validate \/ TranslateStep \/ Run
    <2>1. /\ UNCHANGED <<schema, table, admin, stmt, seen>>
          /\ pc \in {"validate", "translate", "run"} /\ pc' # "idle" /\ result = "none"
          /\ stmt \in Statements /\ schema \in seen
      BY <1>1 DEF Validate, TranslateStep, Run, End, AnswerInv, TypeInv, Flow, Witnessed
    <2>2. Witnessed' /\ Standing'
      BY <2>1 DEF AnswerInv, Witnessed, Standing
    <2>3. ASSUME NEW sch PROVE Translated(sch)' = Translated(sch) /\ (Easy(sch)' <=> Easy(sch))
      BY <2>1, Zenon DEF Translated, Easy, Accepts
    <2>4. ASSUME NEW sch \in Schemas, Easy(sch) PROVE sch = schema
      BY <2>1, <2>4 DEF Easy
    <2>5. CASE Validate
      <3>1. FromOneSchema'
        BY <2>1, <2>3, <2>5 DEF Validate, End, AnswerInv, FromOneSchema
      <3>2. NotRefused'
        BY <2>1, <2>3, <2>4, <2>5, EasyTranslates DEF Validate, End, NotRefused
      <3> QED
        BY <2>2, <3>1, <3>2
    <2>6. CASE TranslateStep
      <3>0. /\ sql' = Translated(schema) /\ pc = "translate"
            /\ \/ Translated(schema) # <<>> /\ pc' = "run" /\ UNCHANGED result
               \/ Translated(schema) = <<>> /\ pc' = "done" /\ result' = "refused"
        <4> DEFINE t == Translate(Parse(stmt), stmt, schema)
        <4>1. pc = "translate" /\ sql' = t
          BY <2>6, Zenon DEF TranslateStep
        <4>2. CASE t # <<>>
          BY <2>6, <4>2, Zenon DEF TranslateStep, Translated
        <4>3. CASE t = <<>>
          BY <2>6, <4>3, Zenon DEF TranslateStep, End, Translated
        <4> QED
          BY <4>1, <4>2, <4>3, Zenon DEF Translated
      <3>1. FromOneSchema'
        <4> SUFFICES ASSUME Plain(stmt), pc' = "run"
                     PROVE  Parse(stmt).type = "SELECT" /\ sql' # <<>>
                            /\ \E sch \in since' : sql' = Translated(sch)
                            /\ schema' \in since' \cup {Absent}
          BY <2>1, <2>3, <3>0 DEF FromOneSchema
        <4>1. Parse(stmt).type = "SELECT"
          BY <3>0 DEF AnswerInv, FromOneSchema
        <4>2. sql' # <<>>
          BY <2>1, <3>0
        <4>3. schema # Absent
          BY <3>0, <4>1, <4>2, TranslatesWithSchema DEF Translated
        <4>4. since' = {schema}
          BY <2>6, <4>3 DEF TranslateStep
        <4> QED
          BY <2>1, <3>0, <4>1, <4>2, <4>4
      <3>2. NotRefused'
        BY <2>1, <2>3, <2>4, <3>0, EasyTranslates DEF NotRefused
      <3> QED
        BY <2>2, <3>1, <3>2
    <2>7. CASE Run
      <3>0. sql' = sql /\ pc = "run" /\ pc' = "done" /\ result' = (IF Accepts(sql) THEN "answered" ELSE "refused")
        BY <2>7 DEF Run, End
      <3>1. FromOneSchema'
        BY <2>1, <2>3, <3>0 DEF AnswerInv, FromOneSchema
      <3>2. NotRefused'
        <4> SUFFICES ASSUME NEW sch \in Schemas, Easy(sch)
                     PROVE  Accepts(sql)
          BY <2>3, <3>0 DEF NotRefused
        <4>1. sql = Translated(sch)
          BY <3>0 DEF AnswerInv, NotRefused
        <4> QED
          BY <2>1, <4>1, EasyTranslates DEF Accepts, Easy
      <3> QED
        BY <2>2, <3>1, <3>2
    <2> QED
      BY <1>1, <2>5, <2>6, <2>7
  <1>2. ASSUME NEW front \in Fronts, NEW s \in Statements, Receive(front, s)
        PROVE  Witnessed' /\ Standing' /\ FromOneSchema' /\ NotRefused'
    BY <1>2, ReceiveAnswers
  <1>3. CASE Return
    BY <1>3, FS_EmptySet DEF Return, AnswerInv, Witnessed, Standing, FromOneSchema, NotRefused
  <1> QED
    BY <1>1, <1>2, <1>3 DEF Request

LEMMA AnswersInit == Init => AnswerInv
BY TypesInit, FS_EmptySet, QueryAssumption DEF Init, Made, AnswerInv, Witnessed, Standing, FromOneSchema, NotRefused

LEMMA AnswersKept == AnswerInv /\ [Next]_vars => AnswerInv'
PROOF
  <1>1. AnswerInv /\ [Next]_vars => TypeInv'
    BY TypesKept DEF AnswerInv
  <1>2. AnswerInv /\ UNCHANGED vars => Witnessed' /\ Standing' /\ FromOneSchema' /\ NotRefused'
    <2> SUFFICES ASSUME AnswerInv, UNCHANGED vars
                 PROVE  Witnessed' /\ Standing' /\ FromOneSchema' /\ NotRefused'
      OBVIOUS
    <2>1. UNCHANGED <<schema, table, admin, pc, stmt, sql, result, seen, since>>
      BY DEF vars
    <2>2. ASSUME NEW sch PROVE Translated(sch)' = Translated(sch) /\ (Easy(sch)' <=> Easy(sch))
      BY <2>1, Zenon DEF Translated, Easy, Accepts
    <2> QED
      BY <2>1, <2>2 DEF AnswerInv, Witnessed, Standing, FromOneSchema, NotRefused
  <1> QED
    BY <1>1, <1>2, CatalogAnswers, RequestAnswers DEF AnswerInv, Next

LEMMA AnswersAlways == Spec => []AnswerInv
BY AnswersInit, AnswersKept, PTL DEF Spec

\* A plain SELECT that DuckDB accepts.
LEMMA AnswerIsMeant ==
  ASSUME AnswerInv, Run, result' = "answered", Plain(stmt), \A sch \in since : Filled(sch)
  PROVE  \E sch \in since : /\ OneLine(sql) = OneLine(Meaning(stmt, sch))
                            /\ since = {sch} => table = FlatColumns(sch)
PROOF
  <1>1. pc = "run" /\ table # Absent
    BY Zenon DEF Run, End, Accepts
  <1>2. stmt \in Statements /\ since \subseteq Schemas
    BY <1>1 DEF AnswerInv, TypeInv, TypeOK, Flow
  <1>3. /\ Parse(stmt).type = "SELECT" /\ sql # <<>>
        /\ \E sch \in since : sql = Translated(sch)
    BY <1>1 DEF AnswerInv, FromOneSchema
  <1>4. PICK sch \in since : sql = Translated(sch)
    BY <1>3
  <1>5. TranslatedRight(stmt, sch)
    BY <1>2, <1>4, TranslatorIsRight, Zenon
  <1>6. OneLine(sql) = OneLine(Meaning(stmt, sch))
    BY <1>2, <1>3, <1>4, <1>5, Zenon DEF TranslatedRight, Translated
  <1>7. table = FlatColumns(schema) /\ schema \in since
    BY <1>1 DEF AnswerInv, Standing, FromOneSchema
  <1>8. since = {sch} => table = FlatColumns(sch)
    BY <1>7
  <1> QED
    BY <1>6, <1>8

LEMMA PlainIsMeant == AnswerInv => PlainIsAnswered
PROOF
  <1>1. ASSUME AnswerInv, pc = "done", NEW sch \in Schemas, seen = {sch}, Filled(sch),
               table = FlatColumns(sch), Supported(stmt, sch), Accepts(Meaning(stmt, sch))
        PROVE  result = "answered"
    <2>1. sch # Absent
      BY QueryAssumption
    <2>2. Easy(sch)
      BY <1>1, <2>1, Zenon DEF Easy
    <2> QED
      BY <1>1, <2>2, Zenon DEF AnswerInv, NotRefused
  <1> QED
    BY <1>1, Zenon DEF PlainIsAnswered

\* A plain SELECT that is answered was run as it reads for a schema the table had
\* from Translate's GetTable on, whatever it had when it was parsed and validated;
\* and on that schema's table, unless a table was made after that.
THEOREM AnswersMeant == Spec => AnswersAsAsked
PROOF
  <1> DEFINE Right ==
        Run /\ result' = "answered" /\ Plain(stmt) /\ (\A sch \in since : Filled(sch)) =>
          \E sch \in since : /\ OneLine(sql) = OneLine(Meaning(stmt, sch))
                             /\ since = {sch} => table = FlatColumns(sch)
  <1>1. AnswerInv => [Right]_vars
    <2> SUFFICES ASSUME AnswerInv PROVE Right
      OBVIOUS
    <2> QED
      BY AnswerIsMeant
  <1> QED
    BY <1>1, AnswersAlways, PTL DEF AnswersAsAsked

\* A supported SELECT of columns the table has is answered when the table stays as
\* it is: no step of Engine.Query refuses it.
THEOREM PlainAnswered == Spec => []PlainIsAnswered
BY AnswersAlways, PlainIsMeant, PTL
=============================================================================
