----------------------------- MODULE WhereArith -----------------------------
(***************************************************************************)
(* The arithmetic of where clauses (pkg/kunai/codegen/where.go): how a     *)
(* comparison of two integer expressions becomes BPF instructions over     *)
(* R2, R3, R5 and the arith stack slots, for operands up to 64 bits and    *)
(* for the two-word 128-bit path.  The emitted code is executed on packets *)
(* and compared with the value the expressions have (dsl-types.md 13.9).   *)
(*                                                                         *)
(* Widths are scaled: a register has Half bits (64 in the code), a wide    *)
(* field 2 * Half (128), an instruction's immediate Half \div 2 (32).      *)
(* The number of arith slots is a constant (16); the five slots the        *)
(* 128-bit path reserves are five here too.                                *)
(***************************************************************************)
EXTENDS Integers, Sequences, Bitwise

CONSTANTS
    ArithHalf,            \* bits of a register, even
    maxArithDepth,   \* arith slots
    Fields,          \* field name -> [bits, mode]
    Jobs,            \* comparisons: [op, left, right, boolEq]
    ArithPackets          \* the packets executed: [val, absent]

VARIABLES
    job,      \* the comparison compiled
    arithCode,     \* its instructions; empty until compiled
    arithVerdict,  \* "none", then "match" or "fail" once executed
    arithPkt,      \* the packet executed
    arithStack     \* the arith region after execution

arithVars == <<job, arithCode, arithVerdict, arithPkt, arithStack>>

ArithWord == 2^ArithHalf
ArithDWord == ArithWord * ArithWord
Wide == 2 * ArithHalf
MaxInt32 == 2^((ArithHalf \div 2) - 1) - 1
boolEqOperandReserve == 5
arith128ReservedSlots == boolEqOperandReserve
MaxOf(a, b) == IF a > b THEN a ELSE b
MinOf(a, b) == IF a < b THEN a ELSE b

(***************************************************************************)
(* Expressions: [kind |-> "const", lo, hi, neg, wide], where lo and hi are *)
(* the two words of the literal; [kind |-> "field", f];                    *)
(* [kind |-> "bin", op, l, r].                                             *)
(***************************************************************************)
RECURSIVE arithMaxFieldBits(_), arithNesting(_), parks128(_)

arithMaxFieldBits(e) ==
    CASE e.kind = "const" -> IF e.wide THEN Wide ELSE 0
      [] e.kind = "field" -> Fields[e.f].bits
      [] e.kind = "bin" -> MaxOf(arithMaxFieldBits(e.l), arithMaxFieldBits(e.r))

arithCmpTargetBits(left, right) == MaxOf(arithMaxFieldBits(left), arithMaxFieldBits(right))

arithNesting(e) ==
    IF e.kind # "bin" THEN 0 ELSE 1 + MaxOf(arithNesting(e.l), arithNesting(e.r))

isNarrowArith(e) == e.kind # "const" /\ arithMaxFieldBits(e) <= ArithHalf

isLowConst128(e) == e.kind = "const" /\ e.hi = 0

\* The result of e waits in slots 2 and 3 while one of its operands is computed.
parks128(e) ==
    /\ e.kind = "bin"
    /\ ~isNarrowArith(e)
    /\ isLowConst128(e.r) => parks128(e.l)

(***************************************************************************)
(* Instructions.  A jump has the number of instructions it skips, or       *)
(* ToFail; Refuse stands where the generator returns an error.             *)
(***************************************************************************)
ToFail == -1
ArithIns(op, d, s, n, to) == [op |-> op, d |-> d, s |-> s, n |-> n, to |-> to]
ArithStore(slot, r) == ArithIns("st", "-", r, slot, 0)
ArithLoad(r, slot) == ArithIns("ld", r, "-", slot, 0)
ArithMov(d, s) == ArithIns("mov", d, s, 0, 0)
ArithMovImm(d, n) == ArithIns("movi", d, "-", n, 0)
LoadImm(d, n) == ArithIns("lddw", d, "-", n, 0)
Alu(op, d, s) == ArithIns(op, d, s, 0, 0)
AluImm(op, d, n) == ArithIns(op, d, "imm", n, 0)
ArithJump(op, a, b, to) == ArithIns(op, a, b, 0, to)
ArithJumpImm(op, a, n, to) == ArithIns(op, a, "imm", n, to)
FieldHalf(f, half) == ArithIns("fld", f, half, 0, 0)
ArithRefuse(why) == ArithIns("refuse", why, "-", 0, 0)

arithALUOp(op) == op

arithRejectingJumpOp(op) ==
    CASE op = "==" -> "JNE" [] op = "!=" -> "JEQ" [] op = "<" -> "JGE"
      [] op = "<=" -> "JGT" [] op = ">" -> "JLE" [] op = ">=" -> "JLT"

arithHighHalfJumps(op) == IF op \in {"<", "<="} THEN <<"JLT", "JGT">> ELSE <<"JGT", "JLT">>

lowHalfMissJump(op) == arithRejectingJumpOp(op)

\* A word that is an int32 sign-extended moves as an immediate, any other as two slots.
loadConst(dst, v) ==
    IF v <= MaxInt32 \/ v >= ArithWord - MaxInt32 - 1 THEN <<ArithMovImm(dst, v)>> ELSE <<LoadImm(dst, v)>>

(***************************************************************************)
(* The 64-bit pipeline: the value ends in R3.  c.ceiling is the first slot *)
(* a bool-eq operand is parked in, c.hold the slots enclosing 128-bit      *)
(* nodes hold.                                                             *)
(***************************************************************************)
\* The load may use R5 for the address, and an absent field ends the atom.
genArithFieldLoad(f) ==
    <<ArithIns("present", f, "-", 0, ToFail), FieldHalf(f, "lo"), ArithIns("clobber", "r5", "-", 0, 0)>>

RECURSIVE genArithWithBits(_, _, _, _)

genArithBinOp(c, e, depth) ==
    genArithWithBits(c, e.l, depth + 1, arithMaxFieldBits(e.r))
    \o <<ArithStore(depth, "r3")>>
    \o genArithWithBits(c, e.r, depth + 1, arithMaxFieldBits(e.l))
    \o <<ArithLoad("r5", depth), Alu(arithALUOp(e.op), "r5", "r3"), ArithMov("r3", "r5")>>

genArithWithBits(c, e, depth, targetBits) ==
    CASE e.kind = "const" -> IF e.wide \/ e.hi # 0 THEN <<ArithRefuse("wide")>>
                             ELSE loadConst("r3", IF targetBits \in 1..(ArithHalf - 1)
                                                  THEN e.lo % 2^targetBits ELSE e.lo)
      [] e.kind = "field" -> genArithFieldLoad(e.f)
      [] e.kind = "bin" -> IF depth >= c.ceiling THEN <<ArithRefuse("room")>>
                           ELSE genArithBinOp(c, e, depth)

(***************************************************************************)
(* The 128-bit path: the value ends in R3 (high word) and R5 (low word).   *)
(***************************************************************************)
arith128Halves(hi, lo) == hi \o <<ArithStore(4, "r3")>> \o lo \o <<ArithMov("r5", "r3"), ArithLoad("r3", 4)>>

\* The three addressing modes: an option's recorded position, re-read by each
\* half through R5; a stack entry whose address is put in R5 once; a constant
\* offset, after the gate.
genArithAuxField128Load(f) ==
    CASE Fields[f].mode = "slot" ->
           LET half(h) == <<ArithIns("present", f, "-", 0, ToFail), ArithIns("clobber", "r5", "-", 0, 0),
                            FieldHalf(f, h)>>
           IN  arith128Halves(half("hi"), half("lo"))
      [] Fields[f].mode = "entry" ->
           <<ArithIns("present", f, "-", 0, ToFail), ArithIns("entry", "r5", "-", 0, 0)>>
           \o arith128Halves(<<FieldHalf(f, "hi")>>, <<FieldHalf(f, "lo")>>)
      [] Fields[f].mode = "static" ->
           <<ArithIns("present", f, "-", 0, ToFail)>>
           \o arith128Halves(<<FieldHalf(f, "hi")>>, <<FieldHalf(f, "lo")>>)

genArithField128Load(f) ==
    CASE Fields[f].bits # Wide -> <<ArithRefuse("width")>>
      [] Fields[f].mode # "primary" -> genArithAuxField128Load(f)
      [] OTHER -> arith128Halves(<<FieldHalf(f, "hi")>>, <<FieldHalf(f, "lo")>>)

\* The left operand is in slots 2 (high) and 3 (low), the right one in R3:R5.
genArith128Combine(op) ==
    IF op = "+"
    THEN <<ArithStore(4, "r3"), ArithLoad("r3", 3), Alu("+", "r5", "r3"),
           ArithJump("JGE", "r5", "r3", 3),
           ArithLoad("r3", 2), AluImm("+", "r3", 1), ArithStore(2, "r3"),
           ArithStore(3, "r5"), ArithLoad("r3", 4), ArithLoad("r5", 2), Alu("+", "r3", "r5"), ArithLoad("r5", 3)>>
    ELSE <<ArithStore(4, "r3"), ArithLoad("r3", 3),
           ArithJump("JGE", "r3", "r5", 4),
           ArithLoad("r3", 2), AluImm("-", "r3", 1), ArithStore(2, "r3"), ArithLoad("r3", 3),
           Alu("-", "r3", "r5"), ArithStore(3, "r3"), ArithLoad("r3", 2), ArithLoad("r5", 4),
           Alu("-", "r3", "r5"), ArithLoad("r5", 3)>>

RECURSIVE genArith128(_, _)

\* A subexpression without a 128-bit operand: the 64-bit pipeline from the
\* first slot the 128-bit nodes leave free, zero-extended.
genArith128Narrow(c, e) ==
    LET base == arith128ReservedSlots + c.hold
    IN  IF arithNesting(e) > c.ceiling - base THEN <<ArithRefuse("room")>>
        ELSE genArithWithBits(c, e, base, 0) \o <<ArithMov("r5", "r3"), ArithMovImm("r3", 0)>>

genArith128BothPark(c, e) ==
    LET hold == arith128ReservedSlots + c.hold
    IN  IF hold + 2 > c.ceiling THEN <<ArithRefuse("room")>>
        ELSE genArith128(c, e.l)
             \o <<ArithStore(hold, "r3"), ArithStore(hold + 1, "r5")>>
             \o genArith128([c EXCEPT !.hold = @ + 2], e.r)
             \o <<ArithLoad("r2", hold), ArithStore(2, "r2"), ArithLoad("r2", hold + 1), ArithStore(3, "r2")>>
             \o genArith128Combine(e.op)

genArith128FieldOpField(c, e) ==
    LET rightFirst == parks128(e.r)
    IN  IF parks128(e.l) /\ parks128(e.r) THEN genArith128BothPark(c, e)
        ELSE genArith128(c, IF rightFirst THEN e.r ELSE e.l)
             \o <<ArithStore(2, "r3"), ArithStore(3, "r5")>>
             \o genArith128(c, IF rightFirst THEN e.l ELSE e.r)
             \o (IF rightFirst /\ e.op = "-"
                 THEN <<ArithLoad("r2", 2), ArithStore(2, "r3"), ArithMov("r3", "r2"),
                        ArithLoad("r2", 3), ArithStore(3, "r5"), ArithMov("r5", "r2")>>
                 ELSE <<>>)
             \o genArith128Combine(e.op)

\* A negative literal is subtracted as its magnitude; a magnitude beyond the
\* immediate goes through R2.
genArith128FieldOpConst(c, e) ==
    LET neg  == e.r.neg
        imm  == IF neg THEN (ArithWord - e.r.lo) % ArithWord ELSE e.r.lo
        op   == CASE ~neg -> e.op [] e.op = "+" -> "-" [] OTHER -> "+"
        wide == imm > MaxInt32
        jge(to) == IF wide THEN ArithJump("JGE", "r5", "r2", to) ELSE ArithJumpImm("JGE", "r5", imm, to)
        alu  == IF wide THEN Alu(op, "r5", "r2") ELSE AluImm(op, "r5", imm)
    IN  genArith128(c, e.l)
        \o (IF wide THEN loadConst("r2", imm) ELSE <<>>)
        \o (IF op = "+" THEN <<alu, jge(1), AluImm("+", "r3", 1)>>
            ELSE <<jge(1), AluImm("-", "r3", 1), alu>>)

genArith128(c, e) ==
    CASE isNarrowArith(e) -> genArith128Narrow(c, e)
      [] ~isNarrowArith(e) /\ e.kind = "field" -> genArithField128Load(e.f)
      [] ~isNarrowArith(e) /\ e.kind = "bin" ->
           IF e.op \notin {"+", "-"} THEN <<ArithRefuse("op")>>
           ELSE IF isLowConst128(e.r) THEN genArith128FieldOpConst(c, e)
           ELSE genArith128FieldOpField(c, e)
      [] e.kind = "const" ->
           loadConst("r3", IF e.wide THEN e.hi
                           ELSE IF e.neg /\ e.lo >= ArithWord \div 2 THEN ArithWord - 1 ELSE 0)
           \o loadConst("r5", e.lo)

(***************************************************************************)
(* The comparison.                                                         *)
(***************************************************************************)
genArithCompare128(c, w, targetBits) ==
    IF targetBits # Wide THEN <<ArithRefuse("width")>>
    ELSE genArith128(c, w.left) \o <<ArithStore(0, "r3"), ArithStore(1, "r5")>>
         \o genArith128(c, w.right) \o <<ArithStore(2, "r5"), ArithLoad("r5", 0)>>
         \o LET reloadLows == <<ArithLoad("r3", 1), ArithLoad("r5", 2)>>
            IN  CASE w.op = "==" -> <<ArithJump("JNE", "r5", "r3", ToFail)>> \o reloadLows
                                    \o <<ArithJump("JNE", "r3", "r5", ToFail)>>
                  [] w.op = "!=" -> <<ArithJump("JNE", "r5", "r3", 3)>> \o reloadLows
                                    \o <<ArithJump("JEQ", "r3", "r5", ToFail)>>
                  [] OTHER -> <<ArithJump(arithHighHalfJumps(w.op)[1], "r5", "r3", 4),
                                ArithJump(arithHighHalfJumps(w.op)[2], "r5", "r3", ToFail)>> \o reloadLows
                              \o <<ArithJump(lowHalfMissJump(w.op), "r3", "r5", ToFail)>>

\* The deeper side is computed first and waits in the slot just above what the
\* other one uses.
genArithCompare(c, w) ==
    LET targetBits == arithCmpTargetBits(w.left, w.right)
        left  == genArithWithBits(c, w.left, 0, targetBits)
        right == genArithWithBits(c, w.right, 0, targetBits)
        nl == arithNesting(w.left)
        nr == arithNesting(w.right)
    IN  CASE targetBits > ArithHalf -> genArithCompare128(c, w, targetBits)
          [] targetBits <= ArithHalf /\ MinOf(nl, nr) >= c.ceiling -> <<ArithRefuse("room")>>
          [] OTHER ->
               (IF nr <= nl
                THEN left \o <<ArithStore(nr, "r3")>> \o right \o <<ArithLoad("r5", nr)>>
                ELSE right \o <<ArithStore(nl, "r3")>> \o left \o <<ArithMov("r5", "r3"), ArithLoad("r3", nl)>>)
               \o <<ArithJump(arithRejectingJumpOp(w.op), "r5", "r3", ToFail)>>

Why(insns) == {insns[i].d : i \in {k \in DOMAIN insns : insns[k].op = "refuse"}}

(***************************************************************************)
(* Execution.  Slots from the parked bool-eq operands up hold Parked; R5   *)
(* is EntryAddr after a stack entry was located.                           *)
(***************************************************************************)
Parked == -3
EntryAddr == -1
Junk == -2
Slots == 0..(maxArithDepth + 2 * boolEqOperandReserve)
Value(p, f) == p.val[f] % 2^(Fields[f].bits)

\* An instruction's immediate is sign-extended to the register.
SignExtend(n) ==
    LET m == 2^(ArithHalf \div 2)
    IN  IF n % m > MaxInt32 THEN ArithWord - m + (n % m) ELSE n % m

ALU(op, a, b) ==
    CASE op = "+" -> (a + b) % ArithWord
      [] op = "-" -> (a - b) % ArithWord
      [] op = "*" -> (a * b) % ArithWord
      [] op = "/" -> IF b = 0 THEN 0 ELSE a \div b
      [] op = "%" -> IF b = 0 THEN a ELSE a % b
      [] op = "&" -> a & b
      [] op = "|" -> a | b
      [] op = "^" -> a ^^ b
      [] op = "<<" -> (a * 2^(b % ArithHalf)) % ArithWord
      [] op = ">>" -> a \div 2^(b % ArithHalf)

ArithTaken(op, a, b) ==
    CASE op = "JNE" -> a # b [] op = "JEQ" -> a = b [] op = "JGE" -> a >= b
      [] op = "JGT" -> a > b [] op = "JLE" -> a <= b [] op = "JLT" -> a < b

FieldWord(p, f, half, m) ==
    CASE Fields[f].mode = "entry" /\ Fields[f].bits = Wide /\ m.r["r5"] # EntryAddr -> Junk
      [] half = "hi" -> Value(p, f) \div ArithWord
      [] OTHER -> Value(p, f) % ArithWord

StepIns(i, p, m) ==
    LET next == [m EXCEPT !.pc = @ + 1]
        src  == IF i.s = "imm" THEN SignExtend(i.n) ELSE m.r[i.s]
        goto == IF i.to = ToFail THEN [m EXCEPT !.out = "fail"] ELSE [m EXCEPT !.pc = @ + 1 + i.to]
    IN  CASE i.op = "st" -> [next EXCEPT !.stk[i.n] = m.r[i.s]]
          [] i.op = "ld" -> [next EXCEPT !.r[i.d] = m.stk[i.n]]
          [] i.op = "mov" -> [next EXCEPT !.r[i.d] = m.r[i.s]]
          [] i.op = "movi" -> [next EXCEPT !.r[i.d] = SignExtend(i.n)]
          [] i.op = "lddw" -> [next EXCEPT !.r[i.d] = i.n]
          [] i.op = "clobber" -> [next EXCEPT !.r["r5"] = Junk]
          [] i.op = "entry" -> [next EXCEPT !.r["r5"] = EntryAddr]
          [] i.op = "fld" -> [next EXCEPT !.r["r3"] = FieldWord(p, i.d, i.s, m)]
          [] i.op = "present" -> IF i.d \in p.absent THEN goto ELSE next
          [] i.op \in {"JNE", "JEQ", "JGE", "JGT", "JLE", "JLT"} ->
               IF ArithTaken(i.op, m.r[i.d], src) THEN goto ELSE next
          [] OTHER -> [next EXCEPT !.r[i.d] = ALU(i.op, m.r[i.d], src)]

RECURSIVE Exec(_, _, _)
Exec(insns, p, m) ==
    CASE m.out = "fail" -> m
      [] m.out # "fail" /\ m.pc > Len(insns) -> [m EXCEPT !.out = "match"]
      [] OTHER -> Exec(insns, p, StepIns(insns[m.pc], p, m))

Ceiling(w) == maxArithDepth - w.boolEq
ArithCtx(w) == [hold |-> 0, ceiling |-> Ceiling(w)]
Machine(w) ==
    [pc |-> 1, out |-> "running",
     r |-> [x \in {"r2", "r3", "r5"} |-> Junk],
     stk |-> [s \in Slots |-> IF s >= Ceiling(w) THEN Parked ELSE Junk]]

(***************************************************************************)
(* What the comparison means.                                              *)
(***************************************************************************)
RECURSIVE Value64(_, _, _), Value128(_, _), FieldsOf(_)

Value64(p, e, bits) ==
    CASE e.kind = "const" -> IF bits \in 1..(ArithHalf - 1) THEN e.lo % 2^bits ELSE e.lo
      [] e.kind = "field" -> Value(p, e.f)
      [] e.kind = "bin" -> ALU(e.op, Value64(p, e.l, arithMaxFieldBits(e.r)),
                                     Value64(p, e.r, arithMaxFieldBits(e.l)))

Value128(p, e) ==
    CASE isNarrowArith(e) -> Value64(p, e, 0)
      [] ~isNarrowArith(e) /\ e.kind = "field" -> Value(p, e.f)
      [] e.kind = "const" -> IF e.neg /\ ~e.wide THEN (0 - ((ArithWord - e.lo) % ArithWord)) % ArithDWord
                             ELSE e.hi * ArithWord + e.lo
      [] OTHER -> (IF e.op = "+" THEN Value128(p, e.l) + Value128(p, e.r)
                   ELSE Value128(p, e.l) - Value128(p, e.r)) % ArithDWord

FieldsOf(e) ==
    CASE e.kind = "const" -> {} [] e.kind = "field" -> {e.f}
      [] e.kind = "bin" -> FieldsOf(e.l) \cup FieldsOf(e.r)

ArithCompare(op, a, b) ==
    CASE op = "==" -> a = b [] op = "!=" -> a # b [] op = "<" -> a < b
      [] op = "<=" -> a <= b [] op = ">" -> a > b [] op = ">=" -> a >= b

\* An atom that reads an absent field is false, whatever its operator.
Meaning(w, p) ==
    LET bits == arithCmpTargetBits(w.left, w.right)
    IN  /\ (FieldsOf(w.left) \cup FieldsOf(w.right)) \cap p.absent = {}
        /\ IF bits > ArithHalf THEN ArithCompare(w.op, Value128(p, w.left), Value128(p, w.right))
           ELSE ArithCompare(w.op, Value64(p, w.left, bits), Value64(p, w.right, bits))

(***************************************************************************)
ArithInit ==
    /\ job \in Jobs
    /\ arithCode = <<>>
    /\ arithVerdict = "none"
    /\ arithPkt \in ArithPackets
    /\ arithStack = Machine(job).stk

ArithCompile ==
    /\ arithCode = <<>>
    /\ arithCode' = genArithCompare(ArithCtx(job), job)
    /\ UNCHANGED <<job, arithVerdict, arithPkt, arithStack>>

Execute ==
    /\ arithCode # <<>>
    /\ arithVerdict = "none"
    /\ Why(arithCode) = {}
    /\ LET m == Exec(arithCode, arithPkt, Machine(job))
       IN  /\ arithVerdict' = m.out
           /\ arithStack' = m.stk
    /\ UNCHANGED <<job, arithCode, arithPkt>>

Done == arithVerdict # "none" \/ Why(arithCode) # {}
ArithNext == ArithCompile \/ Execute \/ (Done /\ UNCHANGED arithVars)
ArithSpec == ArithInit /\ [][ArithNext]_arithVars

(***************************************************************************)
(* Properties                                                              *)
(***************************************************************************)
\* The emitted code of a where comparison (genArithCompare) matches exactly
\* the packets on which the comparison of the two values holds: no operand
\* waiting in a slot or register is lost, carries and borrows reach the high
\* word, and an absent field makes the atom false.
ComparisonExact == arithVerdict # "none" => ((arithVerdict = "match") <=> Meaning(job, arithPkt))

\* Arithmetic inside a Bool == Bool operand never writes the slots the
\* enclosing operands are parked in (genBoolEq), nor memory past the arith
\* region.
ParkedOperandsKept == \A s \in Slots \ 0..(Ceiling(job) - 1) : arithStack[s] = Parked

\* An expression is refused for want of slots only when the code without the
\* limit would have written a slot that is not its own.
RefusedOnlyWithoutRoom ==
    "room" \in Why(arithCode) =>
        LET free == genArithCompare([hold |-> 0, ceiling |-> maxArithDepth + 2 * boolEqOperandReserve], job)
        IN  \E i \in DOMAIN free : free[i].op = "st" /\ free[i].n >= Ceiling(job)

(***************************************************************************)
(* What dsl-types.md 6.1 says of narrow arithmetic, and 13.9 does not.     *)
(* MCClaims shows that the code does what 13.9 says.                       *)
(***************************************************************************)
RECURSIVE ValueAtWidth(_, _, _), ValueZeroDiv(_, _, _)

ValueAtWidth(p, e, bits) ==
    IF e.kind = "bin"
    THEN ALU(e.op, ValueAtWidth(p, e.l, arithMaxFieldBits(e.r)),
                   ValueAtWidth(p, e.r, arithMaxFieldBits(e.l))) % 2^arithMaxFieldBits(e)
    ELSE Value64(p, e, bits)

ValueZeroDiv(p, e, bits) ==
    IF e.kind = "bin"
    THEN LET x == ValueZeroDiv(p, e.l, arithMaxFieldBits(e.r))
             y == ValueZeroDiv(p, e.r, arithMaxFieldBits(e.l))
         IN  IF e.op = "%" /\ y = 0 THEN 0 ELSE ALU(e.op, x, y)
    ELSE Value64(p, e, bits)

MatchesBy(ValueOf(_, _, _)) ==
    LET bits == arithCmpTargetBits(job.left, job.right)
    IN  (arithVerdict # "none" /\ bits <= ArithHalf) =>
          ((arithVerdict = "match") <=> ArithCompare(job.op, ValueOf(arithPkt, job.left, bits),
                                                             ValueOf(arithPkt, job.right, bits)))

\* The result of arithmetic on Int<N> and Int<M> is Int<max(N, M)>, so tcp.dport + 1 is 0
\* when dport is 65535 (genArithBinOp, whose registers are 64 bits wide).
WrapsAtOperandWidth == MatchesBy(ValueAtWidth)

\* Division and modulo by a field that is zero at run time both give 0 (arithALUOp maps
\* them to the BPF instructions).
ZeroDivisorGivesZero == MatchesBy(ValueZeroDiv)
=============================================================================
