---------------------------- MODULE WhereParser ----------------------------
(* kunai/parser/where.go: the precedence-climbing parser of where expressions, *)
(* against the grammar the language has. A token is the kind the lexer gives:   *)
(* "f" a field path, "i" an integer, "l" a network literal (read in value mode  *)
(* by tryNetworkLiteral), "b" true, false or an .exists or .valid path, "any"   *)
(* any or all; of operators with one precedence and one rule, one stands for    *)
(* all. A tree is a tuple headed by its kind.                                   *)
EXTENDS Integers, Sequences, FiniteSets

CONSTANTS
    Families,         \* pairs <<token kinds, length>>: the expressions examined
    maxParenDepth

ASSUME ParserAssumption == maxParenDepth \in Nat \ {0}

VARIABLES whereFamily, whereToks, whereOut

whereVars == <<whereFamily, whereToks, whereOut>>

precOr == 1
precNot == 3
precCmp == 4

wherePrecedence(k) ==
    CASE k = "or" -> 1 [] k = "and" -> 2 [] k \in {"==", "<"} -> 4
      [] k \in {"+", "-"} -> 5 [] k = "*" -> 6 [] OTHER -> 0

-----------------------------------------------------------------------------
(* Operand types: arith, boolean or literal. *)

Bad == [ok |-> FALSE, ty |-> "", e |-> <<>>, i |-> 0]
Good(ty, e, i) == [ok |-> TRUE, ty |-> ty, e |-> e, i |-> i]

\* An integer in a Boolean place is compared with zero; a literal has no Boolean value.
whereBool(v) ==
    IF ~v.ok \/ v.ty = "lit" THEN Bad
    ELSE IF v.ty = "bool" THEN v ELSE [v EXCEPT !.ty = "bool", !.e = <<"cmp", "!=", v.e, <<"zero">>>>]

combineWhere(l, op, r) ==
    LET lb == whereBool(l)  rb == whereBool(r)
        Bool(e) == Good("bool", e, r.i)
    IN IF ~l.ok \/ ~r.ok THEN Bad
       ELSE CASE op \in {"and", "or"} -> IF lb.ok /\ rb.ok THEN Bool(<<op, lb.e, rb.e>>) ELSE Bad
              [] op \in {"==", "<"} /\ "lit" \in {l.ty, r.ty} ->
                   LET field == IF l.ty = "lit" THEN r ELSE l  lit == IF l.ty = "lit" THEN l ELSE r
                   IN IF op = "==" /\ field.ty = "arith" /\ field.e = <<"f">>
                      THEN Bool(<<"litcmp", field.e, lit.e>>) ELSE Bad
              [] op \in {"==", "<"} /\ "bool" \in {l.ty, r.ty} ->
                   IF op = "==" /\ lb.ok /\ rb.ok THEN Bool(<<"booleq", lb.e, rb.e>>) ELSE Bad
              [] op \in {"==", "<"} -> Bool(<<"cmp", op, l.e, r.e>>)
              [] OTHER -> IF l.ty = "arith" /\ r.ty = "arith"
                          THEN Good("arith", <<op, l.e, r.e>>, r.i) ELSE Bad

-----------------------------------------------------------------------------
(* Recursive descent. s is the input, i the current token, d the active calls of *)
(* parseWhereExpr, q the open parentheses.                                        *)

At(s, i) == IF i \in 1 .. Len(s) THEN s[i] ELSE "EOF"

RECURSIVE parseWhereExpr(_, _, _, _, _), climb(_, _, _, _, _, _)

\* action == IDENT
parseActionAtom(s, i) ==
    IF At(s, i + 1) = "==" /\ At(s, i + 2) = "f" THEN Good("bool", <<"action">>, i + 3) ELSE Bad

parseWhereGroup(s, i, d, q) ==
    LET inner == parseWhereExpr(s, i + 1, precOr, d, q + 1)
    IN IF q < maxParenDepth /\ At(s, i) = "(" /\ inner.ok /\ At(s, inner.i) = ")"
       THEN [inner EXCEPT !.i = @ + 1] ELSE Bad

parseWherePrimary(s, i, d, q) ==
    LET t == At(s, i)
        Over(kind, v) == IF whereBool(v).ok THEN Good("bool", <<kind, whereBool(v).e>>, v.i) ELSE Bad
    IN CASE t = "(" -> parseWhereGroup(s, i, d, q)
         [] t = "not" -> Over("not", parseWhereExpr(s, i + 1, precNot, d, q))
         [] t = "any" -> Over("any", parseWhereGroup(s, i + 1, d, q))
         [] t = "action" -> parseActionAtom(s, i)
         [] t = "-" -> IF At(s, i + 1) = "i" THEN Good("arith", <<"neg">>, i + 2) ELSE Bad
         [] t = "l" -> Good("lit", <<"l">>, i + 1)
         [] t \in {"i", "f"} -> Good("arith", <<t>>, i + 1)
         [] t = "b" -> Good("bool", <<"b">>, i + 1)
         [] OTHER -> Bad

\* Mutant: an integer comparison may be followed by another.
climbChained(s, left, minPrec, d, q, w) ==
    LET t == At(s, left.i)
        prec == wherePrecedence(t)
        boolComparison == prec = precCmp /\ left.ty = "bool"
        right == parseWhereExpr(s, left.i + 1, IF boolComparison THEN prec ELSE prec + 1, d, q)
    IN IF ~left.ok \/ t = "in" THEN Bad
       ELSE IF prec < minPrec THEN left
       ELSE climb(s, combineWhere(left, t, right), minPrec, d, q, w)

\* The loop of parseWhereExpr, with left the operand read so far. w: an integer comparison
\* has just been read, and no comparison may follow it.
climb(s, left, minPrec, d, q, w) ==
    LET t == At(s, left.i)
        prec == wherePrecedence(t)
        boolComparison == prec = precCmp /\ left.ty = "bool"
        right == parseWhereExpr(s, left.i + 1, IF boolComparison THEN prec ELSE prec + 1, d, q)
    IN IF ~left.ok \/ t = "in" \/ (w /\ prec = precCmp) THEN Bad
       ELSE IF prec < minPrec THEN left
       ELSE climb(s, combineWhere(left, t, right), minPrec, d, q, prec = precCmp /\ ~boolComparison)

parseWhereExpr(s, i, minPrec, d, q) ==
    IF d >= maxParenDepth * 4 THEN Bad
    ELSE climb(s, parseWherePrimary(s, i, d + 1, q), minPrec, d + 1, q, FALSE)

\* parseWhereClause of a filter that ends with its where clause.
parseOrExpr(s) ==
    LET v == whereBool(parseWhereExpr(s, 1, precOr, 0, 0))
    IN IF v.ok /\ v.i = Len(s) + 1 THEN v ELSE Bad

-----------------------------------------------------------------------------
WhereInit == whereFamily \in Families /\ whereToks = <<>> /\ whereOut = Bad

Read(t) ==
    /\ Len(whereToks) < whereFamily[2]
    /\ whereToks' = Append(whereToks, t)
    /\ whereOut' = parseOrExpr(whereToks')
    /\ UNCHANGED whereFamily

WhereNext == \E t \in whereFamily[1] : Read(t)

WhereSpec == WhereInit /\ [][WhereNext]_whereVars

-----------------------------------------------------------------------------
(* The grammar, by derivation of a token sequence from a level of precedence. A derivation *)
(* also has its nesting: fr, the chain of right operands, negations and groups around a     *)
(* primary, and pd, its parentheses. open: it ends in an operand of an unclosed `not`,       *)
(* which extends to the right as far as the level of comparisons goes.                       *)

Larger(a, b) == IF a > b THEN a ELSE b
Leaf(ty, e) == {[ty |-> ty, e |-> e, fr |-> 1, pd |-> 0, open |-> FALSE]}
AsValue(d) == [ok |-> TRUE, ty |-> d.ty, e |-> d.e, i |-> 0]
Node(v, fr, pd, open) ==
    IF v.ok THEN {[ty |-> v.ty, e |-> v.e, fr |-> fr, pd |-> pd, open |-> open]} ELSE {}
Join(l, op, r) ==
    Node(combineWhere(AsValue(l), op, AsValue(r)), Larger(l.fr, r.fr + 1), Larger(l.pd, r.pd), r.open)
Wrap(kind, d, pd, open) ==
    LET b == whereBool(AsValue(d))
    IN IF b.ok THEN Node([b EXCEPT !.e = <<kind, b.e>>], d.fr + 1, pd, open) ELSE {}

RECURSIVE Derive(_, _)

\* Left-associative: the last operator of the level divides the sequence.
LeftAssoc(s, level, ops, lower) ==
    Derive(lower, s) \cup
    UNION {UNION {Join(l, s[k], r) :
                     l \in {d \in Derive(level, SubSeq(s, 1, k - 1)) : level \in {"or", "and"} \/ ~d.open},
                     r \in Derive(lower, SubSeq(s, k + 1, Len(s)))} :
           k \in {j \in 2 .. Len(s) - 1 : s[j] \in ops}}

\* A comparison of integers or literals has two sums as its sides; one of Booleans has a
\* sum on its left and a comparison on its right.
Comparison(s) ==
    Derive("sum", s) \cup
    UNION {UNION {Join(l, s[k], r) :
                     l \in {d \in Derive("sum", SubSeq(s, 1, k - 1)) : ~d.open /\ d.ty = side[1]},
                     r \in Derive(side[2], SubSeq(s, k + 1, Len(s)))} :
           k \in {j \in 2 .. Len(s) - 1 : s[j] \in {"==", "<"}},
           side \in {<<"arith", "sum">>, <<"lit", "sum">>, <<"bool", "cmp">>}}

Primary(s) ==
    IF s = <<>> THEN {}
    ELSE LET t == s[1]  n == Len(s)
             inner == SubSeq(s, 2, n - 1)
         IN CASE t = "(" /\ s[n] = ")" -> UNION {Node(AsValue(d), d.fr + 1, d.pd + 1, FALSE) : d \in Derive("or", inner)}
              [] t = "any" /\ n > 2 /\ s[2] = "(" /\ s[n] = ")" ->
                     UNION {Wrap("any", d, d.pd + 1, FALSE) : d \in Derive("or", SubSeq(s, 3, n - 1))}
              [] t = "not" -> UNION {Wrap("not", d, d.pd, TRUE) : d \in Derive("cmp", SubSeq(s, 2, n))}
              [] s = <<"action", "==", "f">> -> Leaf("bool", <<"action">>)
              [] s = <<"-", "i">> -> Leaf("arith", <<"neg">>)
              [] s \in {<<"f">>, <<"i">>} -> Leaf("arith", s)
              [] s = <<"b">> -> Leaf("bool", s)
              [] s = <<"l">> -> Leaf("lit", s)
              [] OTHER -> {}

Derive(level, s) ==
    IF s = <<>> THEN {}
    ELSE CASE level = "or" -> LeftAssoc(s, "or", {"or"}, "and")
           [] level = "and" -> LeftAssoc(s, "and", {"and"}, "cmp")
           [] level = "cmp" -> Comparison(s)
           [] level = "sum" -> LeftAssoc(s, "sum", {"+", "-"}, "product")
           [] level = "product" -> LeftAssoc(s, "product", {"*"}, "primary")
           [] OTHER -> Primary(s)

Expressions(s) ==
    {whereBool(AsValue(d)).e :
        d \in {x \in Derive("or", s) :
                 x.fr <= 4 * maxParenDepth /\ x.pd <= maxParenDepth /\ whereBool(AsValue(x)).ok}}

\* The parser accepts exactly the expressions of the grammar within its nesting limits, each
\* with its one tree: precedence, association, the scope of `not`, the comparisons that chain
\* and those that do not.
WhereParsesTheGrammar ==
    Expressions(whereToks) = IF whereOut.ok THEN {whereOut.e} ELSE {}
=============================================================================
