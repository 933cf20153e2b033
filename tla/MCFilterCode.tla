---------------------------- MODULE MCFilterCode ----------------------------
(***************************************************************************)
(* For TLC, one at a time: the code of where clauses (WhereCode), of       *)
(* comparisons with literals (LiteralCode), of arithmetic (WhereArith) and *)
(* of field reads (FieldWindow); and the checker of rewritten programs     *)
(* (InjectCheck).                                                          *)
(***************************************************************************)
EXTENDS WhereCode, LiteralCode, WhereArith, MCFieldWindow, InjectCheck, MCLookupSplice

-----------------------------------------------------------------------------
(***************************************************************************)
(* where clauses over a chain with an optional vlan, an optional srv6      *)
(* whose segments a header field counts, a tcp whose SACK blocks an option *)
(* counts, and a gtp whose extension headers the parser counts.            *)
(***************************************************************************)

MCLayers == [eth |-> FALSE, vlan |-> TRUE, srv6 |-> TRUE, tcp |-> FALSE, gtp |-> FALSE]

MCStacks ==
    [segs |-> [layer |-> "srv6", capacity |-> 3, count |-> "header", bound |-> 3],
     sack |-> [layer |-> "tcp", capacity |-> 3, count |-> "owner", bound |-> 3],
     exts |-> [layer |-> "gtp", capacity |-> 3, count |-> "push", bound |-> 2],
     tags |-> [layer |-> "vlan", capacity |-> 2, count |-> "none", bound |-> 2]]

WhereT == Lit(TRUE)
F == Lit(FALSE)
E == Field("e", "eth", 0)
WhereV == Field("v", "vlan", 1)
D(n) == Field("d", "eth", n)
Seg == Iter("s", "segs", TRUE)
SegLt == Iter("s", "segs", FALSE)
Blk == Iter("b", "sack", TRUE)
Ext == Iter("x", "exts", FALSE)
Tag == Iter("t", "tags", FALSE)
AnyE == Anywhere(E)
AnyV == Anywhere(WhereV)

RECURSIVE Nest(_, _)
Nest(n, w) == IF n = 0 THEN w ELSE IF n % 2 = 0 THEN Eq(Nest(n - 1, w), WhereV) ELSE Neq(E, Nest(n - 1, w))

Shapes(x) == <<x, NotOf(x), AndOf(x, E), OrOf(E, x), OrOf(x, WhereV), Eq(x, E), Neq(WhereV, x)>>

MCConditions ==
    Shapes(WhereV) \o Shapes(AndOf(WhereV, NotOf(E))) \o Shapes(OrOf(AndOf(E, D(2)), NotOf(WhereV)))
    \o Shapes(AnyOf("segs", Seg)) \o Shapes(AllOf("segs", Seg))
    \o Shapes(AnyOf("segs", AndOf(SegLt, NotOf(WhereV)))) \o Shapes(AllOf("segs", OrOf(NotOf(SegLt), E)))
    \o Shapes(AnyOf("sack", Blk)) \o Shapes(AllOf("sack", Blk))
    \o Shapes(AnyOf("exts", NotOf(Ext))) \o Shapes(AllOf("exts", OrOf(Ext, WhereV)))
    \o Shapes(AnyOf("tags", Tag)) \o Shapes(AllOf("tags", Tag))
    \o Shapes(AndOf(Entry("s", "segs", 1), Entry("x", "exts", 0)))
    \o <<F, WhereT, NotOf(WhereT), OrOf(WhereT, E), AndOf(F, E), Eq(WhereT, NotOf(F)), Eq(E, WhereT), Neq(F, WhereV), OrOf(F, AndOf(WhereT, WhereV)),
         AnyOf("segs", AndOf(SegLt, F)), AllOf("exts", AndOf(Ext, F)), NotOf(AllOf("exts", AndOf(Ext, F))),
         AllOf("tags", AndOf(Tag, F)), OrOf(AllOf("segs", OrOf(SegLt, WhereT)), E),
         NotOf(AnyOf("exts", OrOf(Ext, WhereT))), AnyOf("segs", OrOf(SegLt, WhereT)),
         Nest(3, D(13)), Nest(3, D(14)), Nest(11, E), Nest(12, E), Nest(11, D(5)), Nest(11, D(6)),
         Eq(AllOf("segs", Seg), AnyOf("exts", Ext)), Eq(Eq(WhereV, E), Neq(E, D(3)))>>
    \o Shapes(AnyE) \o Shapes(AnyV) \o Shapes(AndOf(AnyE, WhereV)) \o Shapes(OrOf(WhereV, AnyV))
    \o Shapes(Anywhere(Entry("s", "segs", 1))) \o Shapes(Anywhere(Entry("t", "tags", 1)))
    \o Shapes(AnyOf("segs", Anywhere(SegLt))) \o Shapes(AllOf("segs", Anywhere(SegLt)))
    \o Shapes(AnyOf("tags", Anywhere(Tag))) \o Shapes(AllOf("tags", Anywhere(Tag)))
    \o Shapes(AnyOf("exts", AndOf(Ext, AnyE))) \o Shapes(AllOf("exts", Anywhere(Ext)))
    \o Shapes(AnyOf("segs", Eq(SegLt, E))) \o Shapes(AllOf("tags", NotOf(Neq(Tag, WhereV))))
    \o <<NotOf(AllOf("exts", OrOf(Ext, WhereT))), OrOf(E, AllOf("exts", OrOf(Ext, WhereT)))>>

-----------------------------------------------------------------------------
(* Literals of every kind in every form of comparison.                     *)

LiteralLit(kind, bytes, prefix, int, neg, lo, hi) ==
           [kind |-> kind, bytes |-> bytes, prefix |-> prefix, int |-> int, neg |-> neg, lo |-> lo, hi |-> hi]
Host(kind, bytes) == LiteralLit(kind, bytes, 0, 0, FALSE, 0, 0)
Cidr(kind, bytes, prefix) == LiteralLit(kind, bytes, prefix, 0, FALSE, 0, 0)
Int_(v) == LiteralLit("Int", << >>, 0, v, v = AllOnes(DWord), 0, 0)
Range_(lo, hi) == LiteralLit("Range", << >>, 0, 0, FALSE, lo, hi)

FieldOf(bytes, shift, bits) == [bytes |-> bytes, shift |-> shift, bits |-> bits]
LiteralWhole(bytes) == FieldOf(bytes, 0, 2 * bytes)

v4  == <<2, 1, 0, 3>>
v4b == <<1, 3, 2, 0>>
mac == <<1, 2, 3, 0, 2, 3>>
v6  == <<1, 0, 2, 3, 0, 1, 3, 2, 0, 3, 1, 2, 2, 0, 1, 3>>

LiteralEq  == <<"==", "!=">>
Ops == LiteralEq \o <<"<", "<=", ">", ">=">>

Atom(form, mode, field, op, lit, list) ==
    [form |-> form, mode |-> mode, field |-> field, op |-> op, lit |-> lit, list |-> list]

\* The pairs of two sequences.
Pairs(s, t) == [i \in 1 .. Len(s) * Len(t) |-> <<s[(i - 1) \div Len(t) + 1], t[((i - 1) % Len(t)) + 1]>>]
\* One atom for every mode, operator and <<field, literal>>.
AtomsOf(form, modes, ops, operands) ==
    LET x == Pairs(Pairs(modes, ops), operands)
    IN  [i \in DOMAIN x |-> Atom(form, x[i][1][1], x[i][2][1], x[i][1][2], x[i][2][2], << >>)]

Hosts == <<Host("IPv4", v4), Host("IPv4", v4b), Host("MAC", mac), Host("IPv6", v6)>>
Cidrs4 == <<Cidr("CIDR4", v4, 0), Cidr("CIDR4", v4, 3), Cidr("CIDR4", v4, 4), Cidr("CIDR4", v4, 8)>>
Cidrs == Cidrs4 \o <<Cidr("CIDR6", v6, 0), Cidr("CIDR6", v6, 5), Cidr("CIDR6", v6, 16),
                     Cidr("CIDR6", v6, 21), Cidr("CIDR6", v6, 32)>>
Natural(lits) == [i \in DOMAIN lits |-> <<LiteralWhole(Len(lits[i].bytes)), lits[i]>>]
\* The same literals on a slice off byte boundaries.
LiteralSliced == Pairs(<<FieldOf(8, 3, 8)>>, <<Host("IPv4", v4), Host("IPv4", v4b)>> \o Cidrs4)
                 \o <<<<FieldOf(8, 1, 12), Host("MAC", mac)>>>>

Actions == [i \in 1 .. 3 |-> <<LiteralWhole(4), LiteralLit("Action", << >>, 0, (<<0, 2, 255>>)[i], FALSE, 0, 0)>>]

Scalars == <<LiteralWhole(1), LiteralWhole(2), LiteralWhole(4), LiteralWhole(8), FieldOf(1, 0, 1), FieldOf(2, 1, 2), FieldOf(8, 3, 10)>>
Ints == Pairs(Scalars, <<Int_(1), Int_(130), Int_(65535)>>)
WideInts == Pairs(<<LiteralWhole(6), LiteralWhole(16)>>, <<Int_(130), Int_(65535)>>)

Lists ==
    Pairs(<<LiteralWhole(4)>>,
        <<<<Host("IPv4", v4), Int_(3)>>, <<Cidr("CIDR4", v4, 3), Host("IPv4", v4b)>>,
          <<Cidr("CIDR4", v4, 3), Range_(20, 40)>>, <<Range_(0, 5), Range_(130, 140), Cidr("CIDR4", v4b, 8)>>,
          <<Host("IPv4", v4), Cidr("CIDR4", v4, 0)>>>>)
    \o Pairs(<<FieldOf(2, 1, 2), LiteralWhole(2)>>, <<<<Int_(1), Int_(2)>>, <<Range_(1, 2), Int_(0)>>>>)
    \o Pairs(<<LiteralWhole(6)>>,
        <<<<Host("MAC", mac), Range_(300, 2000)>>, <<Range_(256, 511), Int_(7)>>,
          <<Range_(0, 4095), Host("MAC", mac)>>, <<Range_(16, 4095)>>, <<Range_(1, 40), Range_(64, 79)>>>>)
    \o Pairs(<<LiteralWhole(16)>>,
        <<<<Host("IPv6", v6), Int_(65535)>>, <<Range_(4, 900), Cidr("CIDR6", v6, 21)>>,
          <<Cidr("CIDR6", v6, 0), Host("IPv6", v6)>>, <<Cidr("CIDR6", v6, 5), Range_(0, 65535)>>>>)
ListAtoms ==
    LET x == Pairs(<<"primary", "gated", "entry", "option">>, Lists)
    IN  [i \in DOMAIN x |-> Atom("bracket", x[i][1], x[i][2][1], "in", Int_(0), x[i][2][2])]

BracketModes == <<"primary", "gated", "counted", "entry", "option">>

All ==
    AtomsOf("where", <<"primary", "gated", "entry", "option">>, LiteralEq, Natural(Hosts \o Cidrs))
    \o AtomsOf("where", <<"primary", "gated", "entry", "option">>, LiteralEq, LiteralSliced)
    \o AtomsOf("walk", <<"walk">>, <<"==">>, Natural(Hosts \o Cidrs))
    \o AtomsOf("action", <<"primary">>, <<"==">>, Actions)
    \o AtomsOf("bracket", BracketModes, Ops, Natural(Hosts))
    \o AtomsOf("bracket", BracketModes, LiteralEq, Natural(Cidrs))
    \o AtomsOf("bracket", <<"primary", "option">>, LiteralEq, LiteralSliced)
    \o AtomsOf("bracket", <<"primary", "entry">>, Ops, Ints)
    \o AtomsOf("bracket", <<"primary", "entry">>, Ops, WideInts)
    \o ListAtoms

\* Bytes that differ from a literal in one place, or in the first and the
\* last.
Near(bytes) ==
    LET n == Len(bytes)
        places == CASE n = 6 -> {1, 4, 5, 6} [] n = 16 -> {1, 3, 8, 9, 11, 16} [] n = 8 -> {1, 5, 7, 8}
                    [] OTHER -> 1 .. n
    IN  {[bytes EXCEPT ![p] = x] : p \in places, x \in Byte}
        \cup {[bytes EXCEPT ![1] = x, ![n] = y] : x \in {0, 3}, y \in {0, 3}}

\* The bytes around a field whose bits are the given number.
Placed(v, f) == Bytes((v * 2^f.shift) % 4^f.bytes, f.bytes)

Seeds(a) ==
    LET of(lit) == CASE NeedsNarrowing(a.field) \/ lit.kind \in {"Int", "Action"} ->
                            IF a.field.bytes > 8 THEN {IntBytes(lit.int, lit.neg, a.field)}
                            ELSE {Placed(IF lit.bytes = << >> THEN lit.int ELSE Number(lit.bytes), a.field)}
                     [] lit.kind = "Range" -> {IntBytes(v, FALSE, a.field) : v \in {lit.lo, lit.hi, lit.hi + 1}}
                     [] OTHER -> {lit.bytes}
    IN  IF a.list = << >> THEN of(a.lit) ELSE UNION {of(a.list[i]) : i \in DOMAIN a.list}

WindowsNear(a) == UNION {Near(b) : b \in Seeds(a)}

-----------------------------------------------------------------------------
(***************************************************************************)
(* WhereArith on four-bit words: fields of 8 (the 128-bit ones, one per    *)
(* addressing mode), 6 (a mid-width slice), 4 and 2 bits, literals around  *)
(* the immediate's range, expressions nested to the slot limits.           *)
(***************************************************************************)

MCFields ==
    [a |-> [bits |-> 8, mode |-> "primary"],
     b |-> [bits |-> 8, mode |-> "slot"],
     d |-> [bits |-> 8, mode |-> "entry"],
     g |-> [bits |-> 8, mode |-> "static"],
     m |-> [bits |-> 6, mode |-> "primary"],
     n |-> [bits |-> 4, mode |-> "primary"],
     s |-> [bits |-> 2, mode |-> "slot"]]

ArithF(f) == [kind |-> "field", f |-> f]
K(n) == [kind |-> "const", lo |-> n % 16, hi |-> 0, neg |-> n < 0, wide |-> FALSE]
KW(n) == [kind |-> "const", lo |-> n % 16, hi |-> n \div 16, neg |-> FALSE, wide |-> TRUE]
B(op, x, y) == [kind |-> "bin", op |-> op, l |-> x, r |-> y]
Bin(ops, Xs, Y) == {B(op, x, y) : op \in ops, x \in Xs, y \in Y}

PM == {"+", "-"}
Cmps == {"==", "!=", "<", "<=", ">", ">="}
Wides == {ArithF("a"), ArithF("b"), ArithF("d"), ArithF("g")}
Lits == {K(1), K(3), K(-1), K(-8), KW(1), KW(37)}
Narrows == {ArithF("n"), B("*", ArithF("s"), K(-1)), B("-", ArithF("s"), ArithF("n"))}
W2 == Bin(PM, {ArithF("a"), ArithF("b")}, {ArithF("d"), ArithF("n")} \cup Lits)
N2 == Bin({"-", "/", "%", "&", "<<"}, {ArithF("n")}, {ArithF("s"), K(3), K(-1)})
Chain2 == B("-", B("-", ArithF("n"), ArithF("s")), K(1))
Chain4 == B("-", ArithF("s"), B("+", Chain2, ArithF("n")))
Chain5 == B("-", Chain4, Chain2)
Chain6 == B("-", ArithF("n"), Chain5)
Deep == {Chain2, Chain4, Chain5, Chain6}

\* Both sides of a wide node wait, once or twice.
Sum(x, y) == B("+", x, y)
ArithTwo == {B("-", Sum(ArithF("a"), ArithF("b")), B("-", ArithF("d"), ArithF("g"))),
             B("-", Sum(ArithF("a"), KW(37)), Sum(ArithF("n"), B("-", ArithF("b"), ArithF("d")))),
             B("+", Sum(ArithF("a"), Chain2), B("-", ArithF("g"), Chain2))}
Four == {B("-", x, y) : x \in ArithTwo, y \in ArithTwo} \cup {B("+", ArithF("a"), x) : x \in ArithTwo}

MCJobs ==
    UNION {[op : Cmps, left : Wides, right : Wides \cup Lits \cup Narrows, boolEq : {0}],
           [op : {"==", "<="}, left : W2, right : {ArithF("g"), K(-1), KW(18)}, boolEq : {0}],
           [op : {">="}, left : {ArithF("g"), ArithF("n"), K(3)}, right : W2, boolEq : {4}],
           [op : {"==", ">"}, left : Bin(PM, {ArithF("a")}, W2) \cup Bin(PM, W2, {ArithF("d")}), right : {ArithF("b")},
            boolEq : {0}],
           [op : {"<"}, left : ArithTwo \cup Four, right : {ArithF("a"), B("+", ArithF("b"), Chain2)}, boolEq : 0..6],
           [op : Cmps, left : N2, right : {ArithF("s"), ArithF("n"), K(-1), Chain2}, boolEq : {0}],
           [op : {"<", "!="}, left : {K(2), ArithF("n")} \cup Deep, right : N2 \cup Deep,
            boolEq : {0, 5, 6}],
           [op : {"=="}, left : {ArithF("m"), B("+", ArithF("m"), ArithF("a")), B("*", ArithF("a"), ArithF("b"))},
            right : {K(1), ArithF("a")}, boolEq : {0}]}

P(a, b, d, g, n, s, gone) ==
    [val |-> [a |-> a, b |-> b, d |-> d, g |-> g, m |-> 33, n |-> n, s |-> s], absent |-> gone]
MCPackets ==
    {P(a, b, 241, 15, x[1], x[2], {}) : a \in {0, 31, 255}, b \in {16, 241}, x \in {<<0, 3>>, <<9, 0>>, <<9, 3>>}}
    \cup {P(17, 16, 9, 24, 3, 1, {x}) : x \in {"b", "d", "g", "s"}}

-----------------------------------------------------------------------------
(***************************************************************************)
(* Programs of MCLookupSplice, thinned to one per form of hook and place   *)
(* of the site, each with every single change to the emitted code, and     *)
(* some whose plan names a context source that does not hold.              *)
(***************************************************************************)

\* The code with slots j to j + n - 1 replaced, branches and spans moved.
Edited(w, j, n, new) ==
    LET pos(t) == IF t < j + n THEN t ELSE t + Len(new) - n
        moves(ins) == Relative(ins) \/ ins.op \in Guards
        move(q) == LET ins == w.code[q].ins
                   IN  IF moves(ins)
                       THEN [w.code[q] EXCEPT !.ins.off = pos(Target(q, ins)) - pos(q) - 1]
                       ELSE w.code[q]
        outside == [q \in DOMAIN w.code |-> move(q)]
    IN  [w EXCEPT !.tampered = TRUE,
                  !.code = SubSeq(outside, 1, j - 1) \o new \o SubSeq(outside, j + n, Len(w.code)),
                  !.at = [i \in DOMAIN @ |-> pos(@[i])],
                  !.spans = [m \in DOMAIN @ |-> [from |-> pos(@[m].from), to |-> pos(@[m].to + 1) - 1]]]

Branching(ins) == Relative(ins) \/ ins.op \in Guards

Variants(ins) ==
    (IF ins.op \in {"mov", "movi", "ldx", "add", "or"}
     THEN {[ins EXCEPT !.dst = d] : d \in {0, 1, 6}} ELSE {})
    \union (IF ins.op \in {"mov", "stx", "or"} THEN {[ins EXCEPT !.src = r] : r \in {0, 7}} ELSE {})
    \union (IF ins.op \in {"ldx", "stx"} THEN {[ins EXCEPT !.off = @ + d] : d \in {-8, 8}} ELSE {})
    \union (IF Branching(ins) THEN {[ins EXCEPT !.off = @ + d] : d \in {-1, 1}} ELSE {})
    \union (IF ins.op \in {"movi", "add"} THEN {[ins EXCEPT !.imm = @ + 8]} ELSE {})
    \union (IF ins.op \in {"jeq0", "jne0"} THEN {[ins EXCEPT !.op = IF @ = "jeq0" THEN "jne0" ELSE "jeq0"]} ELSE {})
    \union (IF ins.op = "hook" THEN {[ins EXCEPT !.name = m] : m \in {"hook", "miss"}} ELSE {})

Pristine(k) ==
    LET size(code, j) == Len(lookupWrapper(Call(k, code[j].ins.imm)))
        spans(code, heads) == [n \in DOMAIN heads |-> [from |-> heads[n], to |-> heads[n] + size(code, heads[n]) - 1]]
        headsIn(code) == SelectSeq([j \in DOMAIN code |-> j], LAMBDA j : code[j].ins.name = "wrapper")
        checked(w) == [case |-> k, at |-> w.at, code |-> w.code, tampered |-> FALSE,
                       spans |-> spans(w.code, headsIn(w.code))]
    IN  checked(spliceLookupCalls(k))

Loose(w, j) ==
    /\ j \in DOMAIN w.code /\ w.code[j].old = 0 /\ w.code[j].ins.name # "wrapper"
    /\ w.code[j].ins.op \notin {"pad", "hookbody", "callw"}

EditsOf(w) ==
    {w}
    \union UNION {{Edited(w, j, 1, <<[w.code[j] EXCEPT !.ins = v]>>) :
                      v \in Variants(w.code[j].ins) \ {w.code[j].ins}} : j \in DOMAIN w.code}
    \union {Edited(w, j, 1, <<>>) : j \in {j \in DOMAIN w.code : Loose(w, j)}}
    \union {Edited(w, j, 1, <<w.code[j], w.code[j]>>) :
               j \in {j \in DOMAIN w.code : Loose(w, j) /\ ~Branching(w.code[j].ins)}}
    \union {Edited(w, j, 2, <<w.code[j + 1], w.code[j]>>) :
               j \in {j \in DOMAIN w.code : /\ Loose(w, j) /\ Loose(w, j + 1)
                                            /\ ~Branching(w.code[j].ins) /\ ~Branching(w.code[j + 1].ins)}}

FewForms ==
    {[Form(LookupPlain("lookup"), "site") EXCEPT !.when = "any"], Form(LookupPlain("lookup"), "generic"),
     [LookupPlain("lookup") EXCEPT !.copy = 13], Form(LookupPlain("update"), "site"), Form(LookupPlain("push"), "generic")}

EntryCase(c, j, floor, e) ==
    [Case(Body(Mov(6, 1), 2, 1, j), {1}, [f \in {1} |-> floor], LookupAt(8, c)) EXCEPT !.entry = e]
Entries == {EntryCase(c, 0, -12, NoHook) : c \in {c \in Forms : c.copy # 7 /\ ~c.missFirst}}
           \union {EntryCase(c, -8, 0, e) : c \in FewForms, e \in EntryHooks}
           \union {EntryCase(c, -8, 0, [on |-> TRUE, dispatch |-> TRUE]) : c \in {c \in LookupWrapped : ~c.missFirst}}

Sample(S) == {k \in S : \E i \in DOMAIN k.calls :
                 [k.calls[i] EXCEPT !.from = LookupEntry, !.wrapper = FALSE] \in FewForms}

\* The callee reads the register the context is passed in; the callback is
\* given another slot than the plan says.
WrongPass ==
    {[Called(CallF, Body(Mov(6, 5), 2, 1, 0), c, [k |-> "pass", v |-> 0])
        EXCEPT !.code[1] = MovImm(5, 7), !.passes = LookupAt(5, [reg |-> 5, saved |-> FALSE])] : c \in FewForms}
WrongCallback == {[k EXCEPT !.callbacks[9].arg = -16] : k \in Sample(InCallback)}

\* A long argument list where there is a frame, a short one where there is none.
FewTails == {k \in Tails : k.code[3].off # 1 /\ (k.code[2].imm = 259) = (k.floors[1] = -8)}

\* Two sites of one function, its last branch to the exit. Between two helpers there is
\* always an original instruction: the second one's arguments are set anew.
FewPairs ==
    {[k EXCEPT !.code[11] = Jcc(0)] :
        k \in {k \in Two : k.calls[10].op = "update" /\ \A i \in DOMAIN k.calls : k.calls[i] \in FewForms}}

\* One backward branch of each place is enough.
CheckCases ==
    {k \in Entries \union Sample(InFunction) \union Sample(Passed) \union Sample(PassChain)
           \union Sample(InCallback) \union FewTails \union FewPairs :
        ~\E i \in DOMAIN k.code : k.code[i].op = "jcc" /\ k.code[i].off \in {-5, -6, -7}}
FewRets == {0, 254}

\* A wrong plan is checked as it is.
Candidates(k) ==
    LET of(w) == IF k \in WrongPass \union WrongCallback THEN {[w EXCEPT !.tampered = TRUE]} ELSE EditsOf(w)
    IN  of(Pristine(k))
AllChecked == CheckCases \union WrongPass \union WrongCallback

-----------------------------------------------------------------------------
VARIABLE part      \* the component that runs; the others rest

NoWhere == cond = 1 /\ packet = <<>> /\ wherePc = -1 /\ whereR3 = 2 /\ whereSlots = <<>>
NoLiteral ==
    /\ atom = 1 /\ window = <<>> /\ literalPresent = TRUE /\ literalPc = 1
    /\ r2 = Garbage /\ literalR3 = Garbage /\ r5 = Garbage /\ literalOut = "running"
NoArith ==
    /\ job = [op |-> "==", left |-> ArithF("n"), right |-> K(1), boolEq |-> 0]
    /\ arithCode = <<>> /\ arithVerdict = "none" /\ arithPkt = <<>>
    /\ arithStack = Machine(job).stk
NoWindow ==
    /\ windowRef = Ref0 /\ windowPkt = <<>> /\ windowCode = <<>> /\ windowOut = "none"
    /\ windowValue = 0
NoCheck ==
    /\ lookupJob = [tampered |-> FALSE, code |-> <<>>] /\ lookupDue = <<>>
    /\ lookupO = Entered /\ lookupS = Entered /\ verdict = "pending"

Init ==
    \/ part = "where" /\ WhereInit /\ NoLiteral /\ NoArith /\ NoWindow /\ NoCheck
    \/ part = "literal" /\ NoWhere /\ LiteralInit /\ NoArith /\ NoWindow /\ NoCheck
    \/ part = "arith" /\ NoWhere /\ NoLiteral /\ ArithInit /\ NoWindow /\ NoCheck
    \/ part = "window" /\ NoWhere /\ NoLiteral /\ NoArith /\ WindowInit /\ NoCheck
    \/ part = "check" /\ NoWhere /\ NoLiteral /\ NoArith /\ NoWindow /\ CheckInit

Next ==
    /\ \/ part = "where" /\ WhereNext /\ UNCHANGED <<literalVars, arithVars, windowVars, checkVars>>
       \/ part = "literal" /\ LiteralNext /\ UNCHANGED <<whereVars, arithVars, windowVars, checkVars>>
       \/ part = "arith" /\ ArithNext /\ UNCHANGED <<whereVars, literalVars, windowVars, checkVars>>
       \/ part = "window" /\ WindowNext /\ UNCHANGED <<whereVars, literalVars, arithVars, checkVars>>
       \/ part = "check" /\ CheckNext /\ UNCHANGED <<whereVars, literalVars, arithVars, windowVars>>
    /\ UNCHANGED part

Spec == Init /\ [][Next]_<<part, whereVars, literalVars, arithVars, windowVars, checkVars>>

-----------------------------------------------------------------------------
(***************************************************************************)
(* Where the code is known to disagree with its comments.  Each of these   *)
(* is compiled and run with the others, and only the one property it       *)
(* breaks is not asked of it; MCClaims exhibits each.                      *)
(***************************************************************************)

\* == with a /0 prefix emits nothing, not even the test that the field is there.
IsCidr(a) == a.list = << >> /\ a.lit.kind \in {"CIDR4", "CIDR6"} /\ ~ NeedsNarrowing(a.field)
Slash0(a) == IsCidr(a) /\ a.lit.prefix = 0 /\ a.op = "=="
Unread(a) == /\ Slash0(a)
             /\ \/ a.form = "where" /\ a.mode \in {"gated", "entry"}
                \/ a.form = "bracket" /\ a.mode \in {"gated", "option"}

\* A where clause compares a flag-gated header with a prefix without its gate.
Ungated(a) == a.form = "where" /\ a.mode = "gated" /\ IsCidr(a)

\* != with a /32 on an entry found at run time is turned around twice.
Dynamic32(a) == a.form = "where" /\ a.mode = "entry" /\ IsCidr(a) /\ a.lit.kind = "CIDR4"
                /\ a.lit.prefix = 8 /\ a.op = "!="

ComparesAbsent == ~literalPresent /\ \E a \in {AtomOf[atom]} : Unread(a) \/ Ungated(a)
ComparesTwice == literalPresent /\ Dynamic32(AtomOf[atom])

\* In the callback of a walk the same /0 leaves the mismatch label without a jump.
WalkAll(a) == a.form = "walk" /\ Slash0(a)

\* A condition whose code has no jump to its fail label, under layers known present.
RECURSIVE NeverFails(_, _)
NeverFails(unfolded, present) ==
    LET w == Fold(unfolded)
        there(layer) == layer \in present \/ ~Layers[layer]
    IN  CASE w.k = "lit" -> w.v
          [] w.k = "atom" -> w.all /\ there(w.layer) /\ (w.ref = "static" => CountSource(w.stack) = "none")
          [] w.k = "and" -> NeverFails(w.l, present) /\ NeverFails(w.r, present)
          [] w.k = "or" -> NeverFails(w.r, present)
          [] w.k = "all" -> /\ there(Stacks[w.stack].layer) /\ CountSource(w.stack) # "header"
                            /\ ~UseBpfLoop(w) /\ NeverFails(w.i, present)
          [] OTHER -> FALSE

\* Such a condition where its fail label must be landed (under not, a Bool == Bool, on
\* the left of an or, in an any() that counts no entries), or where it must put the
\* label of an or on an instruction; and an iterator under a Bool == Bool, never bound.
RECURSIVE Overlooked(_, _)
Overlooked(unfolded, present) ==
    LET w == Fold(unfolded)
        inside == present \cup {Stacks[w.stack].layer}
        counted(x) == \E a \in Atoms(x) : a.stack # "" /\ CountSource(a.stack) # "none"
        operand(x) == Fold(x).k # "lit" /\ NeverFails(x, present)
        RECURSIVE unbound(_)
        unbound(x) ==
            CASE x.k = "booleq" -> HasIterator(x)
              [] x.k \in {"and", "or"} -> unbound(x.l) \/ unbound(x.r)
              [] x.k = "not" -> unbound(x.i)
              [] OTHER -> FALSE
    IN  CASE w.k \in {"lit", "atom"} -> FALSE
          [] w.k = "not" -> NeverFails(w.i, present) \/ Overlooked(w.i, present)
          [] Quantifier(w) -> \/ unbound(Fold(w.i)) \/ Overlooked(w.i, inside)
                              \/ w.k = "any" /\ CountSource(w.stack) = "none" /\ NeverFails(w.i, inside)
          [] OTHER -> \/ Overlooked(w.l, present) \/ Overlooked(w.r, present)
                      \/ w.k = "or" /\ NeverFails(w.l, present)
                      \/ w.k = "or" /\ NeverFails(w.r, present) /\ ~counted(w.r)
                      \/ w.k = "booleq" /\ (operand(w.l) \/ operand(w.r))

OverlookedAt == [c \in DOMAIN Conditions |-> Overlooked(Conditions[c], {})]

-----------------------------------------------------------------------------
\* The code generated for a where clause decides what the clause says, from the shape of
\* the condition (WhereCode) through the comparison with a literal (LiteralCode) or of two
\* values (WhereArith) down to the read of a field (FieldWindow). Not asked of the two
\* comparisons known to differ: a prefix with a field that is absent, != /32 with an entry.
CodeDecides ==
    /\ ConditionDecides /\ ComparisonExact /\ ReadsTheField /\ WholeFieldIsRead
    /\ AtomDecides \/ ComparesAbsent \/ ComparesTwice

\* It loads: every instruction is reached, every register and slot it reads was written
\* and is its own, every load is proved; and nothing that would load is refused. Not asked
\* of a walk for a /0 prefix, of the overlooked conditions and of a byte-aligned slice at
\* the end of an entry (OddRefs).
CodeLoads ==
    /\ (ClauseLoads /\ TypedCompiles) \/ OverlookedAt[cond]
    /\ AtomLoads \/ WalkAll(AtomOf[atom])
    /\ LoadsAreProved \/ windowRef \in OddRefs
    /\ RegistersLive /\ ParkedOperandsKept /\ RefusedOnlyWithoutRoom
=============================================================================
