---------------------------- MODULE FilterParser ----------------------------
(* kunai/parser: layer chains, predicates, field paths and capture clauses,      *)
(* against their grammar. A token is "id" (an identifier; "valid" and "absolute" *)
(* are identifiers with a meaning in context, "XDP" is a reserved label), a small *)
(* integer, "v" (text that is one value and no structural token), or the text of *)
(* a keyword or operator. A parse is the kinds of the nodes built, in the order   *)
(* they are completed. A where expression is the one token "b".                   *)
EXTENDS Integers, Sequences, FiniteSets, SequencesExt

CONSTANTS
    FilterFamilies,         \* pairs <<tokens, length>>: the filters examined
    maxAltDepth

ASSUME FilterAssumption == maxAltDepth \in Nat \ {0}

VARIABLES filterFamily, filterToks, filterOut

filterVars == <<filterFamily, filterToks, filterOut>>

Idents == {"id", "valid", "absolute", "XDP"}
Ints == {"1", "2"}
Num == [t \in Ints |-> IF t = "1" THEN 1 ELSE 2]
\* NextValue: a run of value characters, which identifiers, keywords and integers are too.
Values == Idents \cup Ints \cup {"v", "b", "in", "has", "where", "capture", "all", "headers"}
Quants == {"?", "+", "*", "{"}

-----------------------------------------------------------------------------
(* A parse in progress: the input, the current token and the nodes built. On failure i is *)
(* the token the parser had reached.                                                       *)

Cur(p) == IF p.i \in 1 .. Len(p.s) THEN p.s[p.i] ELSE "EOF"
Fail(p) == [p EXCEPT !.ok = FALSE]
\* Refused for what was read, whatever follows.
Refuse(p) == [p EXCEPT !.ok = FALSE, !.i = 0]
advance(p) == [p EXCEPT !.i = @ + 1]
Built(p, k) == [p EXCEPT !.kinds = Append(@, k)]
Completed(p, k) == IF p.ok THEN Built(p, k) ELSE p
expect(p, ts) == IF ~p.ok THEN p ELSE IF Cur(p) \in ts THEN advance(p) ELSE Fail(p)

RECURSIVE parseFieldPathTail(_), parseLayerItem(_, _), Alternatives(_, _), Layers(_), Predicates(_)
RECURSIVE ValueTail(_), FieldTail(_), Captures(_)

(* Field paths. parts and idx: how many segments and indices the last path had. *)

\* [INT], [lo:hi] with lo < hi, or [path]; the path of an index has no index itself.
tryParseIndexExpr(p) ==
    LET a == advance(p)
        Slice(q, hi) == IF q.ok /\ Num[Cur(a)] >= Num[hi] THEN Refuse(q) ELSE q
        Number(n) == IF Cur(n) = ":" THEN Slice(expect(expect(advance(n), Ints), {"]"}), Cur(advance(n)))
                     ELSE expect(n, {"]"})
        Path(q) == IF q.ok /\ q.idx > 0 THEN Refuse(q)
                   ELSE [expect(q, {"]"}) EXCEPT !.parts = p.parts, !.idx = p.idx, !.last = p.last]
    IN CASE Cur(a) \in Ints -> Number(advance(a))
         [] Cur(a) \in Idents ->
              Path(parseFieldPathTail([advance(a) EXCEPT !.parts = 1, !.idx = 0, !.last = Cur(a)]))
         [] OTHER -> Fail(a)

\* parseFieldPathFromHead, after the head or another segment.
parseFieldPathTail(p) ==
    LET Segment(q, id) ==
            IF q.ok THEN parseFieldPathTail([q EXCEPT !.parts = @ + 1, !.last = id]) ELSE q
        Rest(q) ==
            IF q.ok /\ Cur(q) = "." THEN Segment(expect(advance(q), Idents), Cur(advance(q))) ELSE q
    IN Rest(IF p.ok /\ Cur(p) = "[" THEN [tryParseIndexExpr(p) EXCEPT !.idx = @ + 1] ELSE p)

parseFieldPath(p) ==
    LET h == expect(p, Idents)
    IN IF h.ok THEN parseFieldPathTail([h EXCEPT !.parts = 1, !.idx = 0, !.last = Cur(p)]) ELSE h

(* Predicates *)

ValueTail(p) == IF p.ok /\ Cur(p) = "," THEN ValueTail(expect(advance(p), Values)) ELSE p
parseValueList(p) == expect(ValueTail(expect(expect(p, {"["}), Values)), {"]"})

parsePredicate(p) ==
    LET Test(f) ==
            CASE ~f.ok -> f
              [] f.ok /\ f.parts = 2 /\ f.last = "valid" /\ f.idx = 0 /\ Cur(f) \in {",", "]"} -> Built(f, "valid")
              [] f.ok /\ Cur(f) = "in" ->
                   IF Cur(advance(f)) = "@" THEN Completed(expect(advance(advance(f)), Idents), "in-set")
                   ELSE Completed(parseValueList(advance(f)), "in")
              [] f.ok /\ Cur(f) = "has" -> Completed(expect(advance(f), Idents), "has")
              [] f.ok /\ Cur(f) = "==" -> Completed(expect(advance(f), Values), "cmp")
              [] OTHER -> Fail(f)
    IN Test(parseFieldPath(p))

Predicates(p) ==
    LET Rest(q) == IF q.ok /\ Cur(q) = "," THEN Predicates(advance(q)) ELSE q
    IN Rest(parsePredicate(p))

(* Layers *)

\* proto_leaf: a label may not be reserved; predicates follow it.
parseProtoLeaf(p) ==
    LET Label(q, l) == IF q.ok /\ l = "XDP" THEN Refuse(q) ELSE q
        Labelled(n) ==
            IF n.ok /\ Cur(n) = "@" THEN Label(expect(advance(n), Idents), Cur(advance(n))) ELSE n
        Preds(n) == IF n.ok /\ Cur(n) = "[" THEN expect(Predicates(advance(n)), {"]"}) ELSE n
    IN Completed(Preds(Labelled(expect(p, Idents))), "proto")

Alternatives(p, d) ==
    LET Rest(q) == IF q.ok /\ Cur(q) = "|" THEN Alternatives(advance(q), d) ELSE q
    IN Rest(parseLayerItem(p, d))

parseLayerAltGroup(p, d) ==
    IF d >= maxAltDepth THEN Fail(p)
    ELSE LET first == parseLayerItem(expect(p, {"("}), d + 1)
             rest == Alternatives(expect(first, {"|"}), d + 1)
         IN Completed(expect(rest, {")"}), "alt")

\* {n}, {n,} or {n,m} with n <= m.
parseQuantRange(p) ==
    LET Upper(q) ==
            IF Cur(q) \notin Ints THEN expect(q, {"}"})
            ELSE IF Num[Cur(q)] < Num[Cur(advance(p))] THEN Refuse(advance(q))
            ELSE expect(advance(q), {"}"})
        Lower(q) == IF ~q.ok \/ Cur(q) # "," THEN expect(q, {"}"}) ELSE Upper(advance(q))
    IN Lower(expect(advance(p), Ints))

parseQuantifier(p) ==
    Completed(IF Cur(p) = "{" THEN parseQuantRange(p) ELSE advance(p), Cur(p))

parseLayerItem(p, d) ==
    LET Atom == IF Cur(p) = "(" THEN parseLayerAltGroup(p, d) ELSE parseProtoLeaf(p)
        Quantified(q) == IF q.ok /\ Cur(q) \in Quants THEN parseQuantifier(q) ELSE q
        Single(q) == IF q.ok /\ Cur(q) \in Quants THEN Fail(q) ELSE q
    IN IF p.ok THEN Single(Quantified(Atom)) ELSE p

\* parseLayerChain
Layers(p) ==
    LET Rest(q) == IF q.ok /\ Cur(q) = "/" THEN Layers(advance(q)) ELSE q
    IN Rest(parseLayerItem(p, 0))

(* Captures *)

parseWhereClause(p) == IF p.ok /\ Cur(p) = "where" THEN expect(advance(p), {"b"}) ELSE p
parseOptionalPlusInt(p) == IF p.ok /\ Cur(p) = "+" THEN expect(advance(p), Ints) ELSE p
FieldTail(p) == IF p.ok /\ Cur(p) = "," THEN FieldTail(parseFieldPath(advance(p))) ELSE p

\* One token after the identifier decides: `absolute N`, a list of dotted paths, or a layer.
parseCaptureIdent(p) ==
    LET n == advance(p)
    IN CASE Cur(p) = "absolute" /\ Cur(n) \in Ints -> Built(advance(n), "absolute")
         [] Cur(n) = "." -> Completed(FieldTail(parseFieldPathTail([n EXCEPT !.parts = 1, !.idx = 0])), "fields")
         [] OTHER -> Completed(parseOptionalPlusInt(n), "tolayer")

parseCaptureSpec(p) ==
    LET Headers(q) == Completed(q, IF q.i = p.i + 1 THEN "headers" ELSE "headers+")
    IN CASE Cur(p) = "all" -> Built(advance(p), "all")
         [] Cur(p) = "headers" -> Headers(parseOptionalPlusInt(advance(p)))
         [] Cur(p) \in Idents -> parseCaptureIdent(p)
         [] OTHER -> Fail(p)

\* parseCaptureClause, repeated.
Captures(p) ==
    IF p.ok /\ Cur(p) = "capture" THEN Captures(parseWhereClause(parseCaptureSpec(advance(p)))) ELSE p

parseFilter(s) ==
    LET p == [ok |-> TRUE, s |-> s, i |-> 1, kinds |-> <<>>, parts |-> 0, idx |-> 0, last |-> ""]
        Whole(q) == IF s = <<>> \/ Cur(q) # "EOF" THEN Fail(q) ELSE q
    IN Whole(Captures(parseWhereClause(Layers(p))))

-----------------------------------------------------------------------------
FilterInit == filterFamily \in FilterFamilies /\ filterToks = <<>> /\ filterOut = parseFilter(<<>>)

\* A filter is examined further while the parser reads all of it.
FilterRead(t) ==
    /\ Len(filterToks) < filterFamily[2] /\ filterOut.i > Len(filterToks)
    /\ filterToks' = Append(filterToks, t)
    /\ filterOut' = parseFilter(filterToks')
    /\ UNCHANGED filterFamily

FilterNext == \E t \in filterFamily[1] : FilterRead(t)

FilterSpec == FilterInit /\ [][FilterNext]_filterVars

-----------------------------------------------------------------------------
(* The grammar. A symbol is <<terminal>> or <<nonterminal, n>>, where n is the number of     *)
(* alternations around it; a production is its right-hand side and the node it completes.     *)

T(t) == <<t>>
N(x) == <<x, 0>>
P(rhs, kind) == [rhs |-> rhs, kind |-> kind]
Plain(rhss) == {P(r, "") : r \in rhss}

Grammar(x, n) ==
    CASE x = "filter" -> Plain({<<N("item"), N("items/"), N("where"), N("captures")>>})
      [] x = "items/" -> Plain({<<>>, <<T("/"), N("item"), N("items/")>>})
      [] x = "item" -> Plain({<<<<"atom", n>>, N("quant")>>})
      [] x = "quant" -> {P(<<>>, "")} \cup {P(<<T(q)>>, q) : q \in {"?", "+", "*"}}
                        \cup {P(<<T("{"), N("range"), T("}")>>, "{")}
      [] x = "range" -> Plain({<<N("int")>>, <<N("int"), T(",")>>})
                        \cup {P(<<T(r[1]), T(","), T(r[2])>>, "") : r \in {u \in Ints \X Ints : Num[u[1]] <= Num[u[2]]}}
      [] x = "atom" -> {P(<<N("ident"), N("label"), N("preds")>>, "proto")}
                       \cup IF n = maxAltDepth THEN {}
                            ELSE {P(<<T("("), <<"item", n + 1>>, T("|"), <<"item", n + 1>>, <<"items|", n + 1>>, T(")")>>, "alt")}
      [] x = "items|" -> Plain({<<>>, <<T("|"), <<"item", n>>, <<"items|", n>>>>})
      [] x = "label" -> Plain({<<>>} \cup {<<T("@"), T(t)>> : t \in Idents \ {"XDP"}})
      [] x = "preds" -> Plain({<<>>, <<T("["), N("pred"), N("preds,"), T("]")>>})
      [] x = "preds," -> Plain({<<>>, <<T(","), N("pred"), N("preds,")>>})
      [] x = "pred" -> {P(<<N("ident"), T("."), T("valid")>>, "valid"), P(<<N("path"), N("test")>>, "")}
      [] x = "test" -> {P(<<T("=="), N("value")>>, "cmp"), P(<<T("in"), T("["), N("value"), N("values,"), T("]")>>, "in"),
                        P(<<T("in"), T("@"), N("ident")>>, "in-set"), P(<<T("has"), N("ident")>>, "has")}
      [] x = "values," -> Plain({<<>>, <<T(","), N("value"), N("values,")>>})
      [] x = "path" -> Plain({<<N("ident"), N("index"), N("path.")>>})
      [] x = "path." -> Plain({<<>>, <<T("."), N("path")>>})
      [] x = "index" -> Plain({<<>>, <<T("["), N("int"), T("]")>>, <<T("["), N("ident"), N("dotted"), T("]")>>,
                               <<T("["), T("1"), T(":"), T("2"), T("]")>>})
      [] x = "dotted" -> Plain({<<>>, <<T("."), N("ident"), N("dotted")>>})
      [] x = "where" -> Plain({<<>>, <<T("where"), T("b")>>})
      [] x = "captures" -> Plain({<<>>, <<T("capture"), N("spec"), N("where"), N("captures")>>})
      [] x = "spec" -> {P(<<T("all")>>, "all"), P(<<T("headers")>>, "headers"),
                        P(<<T("headers"), T("+"), N("int")>>, "headers+"),
                        P(<<T("absolute"), N("int")>>, "absolute"),
                        P(<<N("ident")>>, "tolayer"), P(<<N("ident"), T("+"), N("int")>>, "tolayer"),
                        P(<<N("ident"), T("."), N("path"), N("fields,")>>, "fields")}
      [] x = "fields," -> Plain({<<>>, <<T(","), N("path"), N("fields,")>>})
      [] x = "ident" -> Plain({<<T(t)>> : t \in Idents})
      [] x = "int" -> Plain({<<T(t)>> : t \in Ints})
      [] x = "value" -> Plain({<<T(t)>> : t \in Values})

RECURSIVE FilterDerive(_, _, _), Match(_, _, _), Begins(_, _, _)

Terminal(x) == Len(x) = 1

\* Where a derivation from symbol x, or from the symbols of rhs, that starts at token i of s
\* may end, and the nodes it completes.
FilterDerive(x, s, i) ==
    IF Terminal(x) THEN IF i <= Len(s) /\ s[i] = x[1] THEN {<<i + 1, <<>>>>} ELSE {}
    ELSE UNION {{IF p.kind = "" THEN m ELSE <<m[1], Append(m[2], p.kind)>> : m \in Match(p.rhs, s, i)} :
                p \in Grammar(x[1], x[2])}

Match(rhs, s, i) ==
    IF rhs = <<>> THEN {<<i, <<>>>>}
    ELSE UNION {{<<t[1], h[2] \o t[2]>> : t \in Match(Tail(rhs), s, h[1])} : h \in FilterDerive(rhs[1], s, i)}

\* The rest of s from token i begins a sentence of rhs (every symbol derives some sentence).
Begins(rhs, s, i) ==
    \/ i > Len(s)
    \/ /\ rhs # <<>>
       /\ \/ ~Terminal(rhs[1]) /\ \E p \in Grammar(rhs[1][1], rhs[1][2]) : Begins(p.rhs, s, i)
          \/ \E h \in FilterDerive(rhs[1], s, i) : Begins(Tail(rhs), s, h[1])

\* The parser accepts exactly the filters of the grammar, and builds for each the nodes of its
\* one derivation: `capture absolute+1` names a layer, `a.valid == 1` is a comparison, an
\* index is not a predicate list.
FilterParsesTheGrammar ==
    {d[2] : d \in {e \in FilterDerive(N("filter"), filterToks, 1) : e[1] = Len(filterToks) + 1}} =
        IF filterOut.ok THEN {filterOut.kinds} ELSE {}

\* No filter is refused before its end: an error is reported only where no filter continues
\* what was read.
NoEarlyError ==
    Begins(<<N("filter")>>, filterToks, 1) => filterOut.ok \/ filterOut.i > Len(filterToks)
=============================================================================
