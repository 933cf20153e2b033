----------------------------- MODULE LiteralCode -----------------------------
(***************************************************************************)
(* The comparison of one packet field with a literal: the bracket          *)
(* predicates of pkg/kunai/codegen/predicate.go, the where atoms of        *)
(* where.go and the bpf_loop callback of where_auxloop.go.  An atom is     *)
(* compiled by the operators below and the instructions are executed on    *)
(* packets near the literal.                                               *)
(*                                                                         *)
(* Widths are scaled: a byte has two bits, and a Half, a Word and a DWord  *)
(* keep their 2, 4 and 8 bytes, so that an IPv4 address is one Word, a MAC *)
(* a Word and a Half, an IPv6 address two DWords, a register one DWord and *)
(* an immediate one Word that the machine extends with its sign.           *)
(***************************************************************************)
EXTENDS Integers, Sequences, SequencesExt

CONSTANTS
    LiteralAtoms,      \* the atoms to compile, a sequence
    Windows(_)  \* the bytes an atom's field may hold

Byte  == 0 .. 3
LiteralHalf  == 2
LiteralWord  == 4
DWord == 8

Number(bytes) ==
    LET upTo[i \in 0 .. Len(bytes)] == IF i = 0 THEN 0 ELSE 4 * upTo[i - 1] + bytes[i]
    IN  upTo[Len(bytes)]

Concat(seqs) ==
    LET upTo[i \in 0 .. Len(seqs)] == IF i = 0 THEN << >> ELSE upTo[i - 1] \o seqs[i]
    IN  upTo[Len(seqs)]

BitAnd(x, y) ==
    LET low[n \in 0 .. 2 * DWord] ==
            IF n = 0 THEN 0
            ELSE low[n - 1] + 2^(n - 1) * ((x \div 2^(n - 1)) % 2) * ((y \div 2^(n - 1)) % 2)
    IN  low[2 * DWord]

Bytes(v, n) == [i \in 1 .. n |-> (v \div 4^(n - i)) % 4]
AllOnes(size) == 4^size - 1

\* The bytes an LDX packs little-endian, and the constant they equal.
byteSwap(v, size) == Number(Reverse(Bytes(v, size)))

\* What a 32-bit immediate is once the machine has extended its sign.
Immediate(v) == IF v < 4^LiteralWord \div 2 THEN v ELSE v + 4^DWord - 4^LiteralWord

------------------------------------------------------------------------------
(* Instructions.  r3 holds the loaded value, r2 or r5 a constant, and r5   *)
(* the address of a stack entry or an option once a prelude has found it.  *)

Fail   == <<"fail", 0>>       \* the atom is false
Reject == <<"reject", 0>>     \* the packet is refused
Match  == <<"match", 0>>
Alternative(i) == <<"next", i>>

LiteralLoad(via, off, size)     == [op |-> "load", via |-> via, off |-> off, size |-> size]
Const(reg, v)            == [op |-> "const", reg |-> reg, v |-> v]
LiteralCopy                     == [op |-> "copy"]
AndReg(dst, reg)         == [op |-> "and", dst |-> dst, reg |-> reg]
AndImm(dst, v)           == [op |-> "andimm", dst |-> dst, v |-> v]
HostTo(size)             == [op |-> "swap", size |-> size]
Narrow(shift, bits)      == [op |-> "narrow", shift |-> shift, bits |-> bits]
JumpReg(if, l, r, label) == [op |-> "jreg", if |-> if, l |-> l, r |-> r, label |-> label]
JumpImm(if, l, v, label) == [op |-> "jimm", if |-> if, l |-> l, v |-> v, label |-> label]
JumpImm32(if, v, label)  == [op |-> "jimm32", if |-> if, v |-> v, label |-> label]
LiteralJa(label)                == [op |-> "ja", label |-> label]
Landing(label)           == [op |-> "landing", label |-> label]
Return(result)           == [op |-> "return", result |-> result]
\* Jumps when the option, entry or gated header is not there; an entry or
\* an option leaves its address in r5.
Gate(label)              == [op |-> "gate", label |-> label]
Address(label)           == [op |-> "address", label |-> label]

rejectingJumpOp(op) ==
    CASE op = "==" -> "JNE" [] op = "!=" -> "JEq" [] op = "<"  -> "JGE"
      [] op = "<=" -> "JGT" [] op = ">"  -> "JLE" [] op = ">=" -> "JLT"

IsEquality(op) == op \in {"==", "!="}

ipv4PrefixMaskBE(prefix) == (2^prefix - 1) * 2^(2 * LiteralWord - prefix)

ipv6PrefixMaskBE(prefix) ==
    LET half == 2 * DWord
        top(n) == (2^n - 1) * 2^(half - n)
    IN  IF prefix <= half THEN <<top(prefix), 0>>
        ELSE <<AllOnes(DWord), top(prefix - half)>>

cmpRegEqU32(jump, v, label) == <<Const("r5", v), JumpReg(jump, "r3", "r5", label)>>

cmpRegConst(reg, jump, v, label) ==
    IF v < 4^LiteralWord \div 2 THEN <<JumpImm(jump, reg, v, label)>>
    ELSE <<Const("r5", v), JumpReg(jump, reg, "r5", label)>>

\* Conditional, so that what follows stays reachable.
constantFail(label) == <<Const("r3", 0), JumpImm("JEq", "r3", 0, label)>>

------------------------------------------------------------------------------
(* Where the field is.  "primary": in the header; "gated": in a header a   *)
(* flag announces; "counted": a stack entry below a declared count;        *)
(* "entry": a stack entry whose offset the program computes; "option": in  *)
(* an option the parser's walk located; "walk": the entry a bpf_loop       *)
(* callback is called for.                                                 *)

loadAt(mode, off, size) ==
    <<LiteralLoad(CASE mode = "entry" -> "r5" [] mode = "option" -> "r5 through r2"
             [] mode = "walk" -> "index" [] OTHER -> "layer", off, size)>>

bracketAuxLoad(mode) ==
    CASE mode \in {"entry", "option"} -> <<Address(Reject)>>
      [] mode = "gated" -> <<Gate(Reject)>>
      [] OTHER -> << >>

\* The count guard genPredicate puts before a predicate on a stack entry.
countGuard(mode) == IF mode \in {"counted", "entry"} THEN <<Gate(Reject)>> ELSE << >>

\* Mutant: the constant in the register of the entry's address.
bracketConstRegShared(mode) == "r5"

bracketConstReg(mode) == IF mode = "primary" THEN "r5" ELSE "r2"

\* f describes the window of a scalar read: its bytes, and the bits of the
\* field inside it.
NeedsNarrowing(f) == f.shift # 0 \/ f.bits # 2 * f.bytes

emitScalarFieldLoad(mode, f, label) ==
    (CASE mode \in {"entry", "option"} -> <<Address(label)>>
       [] mode = "gated" -> <<Gate(label)>>
       [] OTHER -> << >>)
    \o loadAt(mode, 0, f.bytes)

emitFieldValue(f) ==
    (IF f.bytes > 1 THEN <<HostTo(f.bytes)>> ELSE << >>)
    \o (IF NeedsNarrowing(f) THEN <<Narrow(f.shift, f.bits)>> ELSE << >>)

------------------------------------------------------------------------------
(* Chunks of an address.                                                   *)

MaskIn(reg, mask, size) ==
    IF mask = AllOnes(size) THEN << >>
    ELSE <<Const(reg, byteSwap(mask, size)), AndReg("r3", reg)>>

HalfCheck(mode, reg, off, mask, host, label) ==
    loadAt(mode, off, DWord) \o MaskIn(reg, mask, DWord)
    \o <<Const(reg, byteSwap(host, DWord)), JumpReg("JNE", "r3", reg, label)>>

\* The two halves of an IPv6 literal under a mask; a half the mask clears
\* is not compared.
Halves(mode, reg, masks, bytes, label) ==
    LET half(i) == Number(SubSeq(bytes, 8 * i - 7, 8 * i))
        check(i) == IF masks[i] = 0 THEN << >>
                    ELSE HalfCheck(mode, reg, 8 * (i - 1), masks[i], BitAnd(half(i), masks[i]), label)
    IN  check(1) \o check(2)

HostMasks == <<AllOnes(DWord), AllOnes(DWord)>>
V6Masks(lit) == IF lit.kind = "CIDR6" THEN ipv6PrefixMaskBE(lit.prefix) ELSE HostMasks

\* <<word, half>> of a MAC, as an LE load of the wire bytes reads them.
macLiteralLE(bytes) == <<byteSwap(Number(SubSeq(bytes, 1, 4)), LiteralWord),
                         byteSwap(Number(SubSeq(bytes, 5, 6)), LiteralHalf)>>

macCheck(mode, lit, label) ==
    LET le == macLiteralLE(lit.bytes)
    IN  loadAt(mode, 0, LiteralWord) \o <<Const("r2", le[1]), JumpReg("JNE", "r3", "r2", label)>>
        \o loadAt(mode, 4, LiteralHalf) \o <<Const("r2", le[2]), JumpReg("JNE", "r3", "r2", label)>>

\* One Word against an IPv4 literal, masked for a CIDR.
V4Check(mode, lit, jump, label) ==
    LET mask == IF lit.kind = "CIDR4" THEN ipv4PrefixMaskBE(lit.prefix) ELSE AllOnes(LiteralWord)
    IN  loadAt(mode, 0, LiteralWord)
        \o (IF mask = AllOnes(LiteralWord) THEN << >>
            ELSE <<AndImm("r3", byteSwap(mask, LiteralWord))>>)
        \o cmpRegEqU32(jump, byteSwap(BitAnd(Number(lit.bytes), mask), LiteralWord), label)

\* The body jumps on a mismatch; != turns a mismatch into the way on.
MissLabel(op, label) == IF op = "==" THEN label ELSE Match
multiWordRoute(op, checks, label) ==
    IF op = "==" THEN checks ELSE checks \o <<LiteralJa(label), Landing(Match)>>

------------------------------------------------------------------------------
(* Where atoms: == and != only, failing to the atom's own label.           *)

NoAddress(op) == IF op = "==" THEN << >> ELSE constantFail(Fail)

genIPv4CIDRCompare(lit, op) ==
    CASE lit.prefix = 8 -> V4Check("primary", lit, rejectingJumpOp(op), Fail)
      [] lit.prefix = 0 -> NoAddress(op)
      [] OTHER -> multiWordRoute(op, V4Check("primary", lit, "JNE", MissLabel(op, Fail)), Fail)

genIPv6CIDRCompare(lit, op) ==
    IF lit.prefix = 0 THEN NoAddress(op)
    ELSE multiWordRoute(op, Halves("primary", "r5", V6Masks(lit), lit.bytes, MissLabel(op, Fail)), Fail)

WhereMac(lit, label) ==
    LET le == macLiteralLE(lit.bytes)
    IN  loadAt("primary", 0, LiteralWord) \o cmpRegEqU32("JNE", le[1], label)
        \o loadAt("primary", 4, LiteralHalf) \o cmpRegEqU32("JNE", le[2], label)

StaticLiteralCompare(mode, lit, op) ==
    LET prelude == IF mode = "gated" THEN <<Gate(Fail)>> ELSE << >>
        missed == MissLabel(op, Fail)
    IN  CASE lit.kind = "IPv4" -> prelude \o V4Check(mode, lit, rejectingJumpOp(op), Fail)
          [] lit.kind = "MAC" -> prelude \o multiWordRoute(op, WhereMac(lit, missed), Fail)
          [] lit.kind = "IPv6" ->
                prelude \o multiWordRoute(op, Halves("primary", "r5", HostMasks, lit.bytes, missed), Fail)
          [] lit.kind = "CIDR4" -> genIPv4CIDRCompare(lit, op)
          [] lit.kind = "CIDR6" -> genIPv6CIDRCompare(lit, op)

whereDynamicMultiByte(op, checks) == <<Address(Fail)>> \o multiWordRoute(op, checks, Fail)

genDynamicCIDRv4(lit, op) ==
    LET missed == MissLabel(op, Fail)
    IN  CASE lit.prefix = 0 -> NoAddress(op)
          [] lit.prefix = 8 -> whereDynamicMultiByte(op, V4Check("entry", lit, rejectingJumpOp(op), missed))
          [] OTHER -> whereDynamicMultiByte(op, V4Check("entry", lit, "JNE", missed))

genDynamicCIDRv6(lit, op) ==
    IF lit.prefix = 0 THEN NoAddress(op)
    ELSE whereDynamicMultiByte(op, Halves("entry", "r2", V6Masks(lit), lit.bytes, MissLabel(op, Fail)))

genLiteralCompareDynamic(lit, op) ==
    LET missed == MissLabel(op, Fail)
    IN  CASE lit.kind = "IPv4" -> whereDynamicMultiByte(op, V4Check("entry", lit, "JNE", missed))
          [] lit.kind = "IPv6" -> whereDynamicMultiByte(op, Halves("entry", "r2", HostMasks, lit.bytes, missed))
          [] lit.kind = "MAC" -> whereDynamicMultiByte(op, macCheck("entry", lit, missed))
          [] lit.kind = "CIDR4" -> genDynamicCIDRv4(lit, op)
          [] lit.kind = "CIDR6" -> genDynamicCIDRv6(lit, op)

genOwnerBoundCIDRv4(lit, op) ==
    CASE lit.prefix = 0 -> NoAddress(op)
      [] lit.prefix = 8 -> V4Check("option", lit, rejectingJumpOp(op), Fail)
      [] OTHER -> multiWordRoute(op, V4Check("option", lit, "JNE", MissLabel(op, Fail)), Fail)

genOwnerBoundCIDRv6(lit, op) ==
    IF lit.prefix = 0 THEN NoAddress(op)
    ELSE multiWordRoute(op, Halves("option", "r2", V6Masks(lit), lit.bytes, MissLabel(op, Fail)), Fail)

genOptionLiteralCompare(lit, op) ==
    LET missed == MissLabel(op, Fail)
    IN  <<Address(Fail)>> \o
        CASE lit.kind = "IPv4" -> V4Check("option", lit, rejectingJumpOp(op), Fail)
          [] lit.kind = "IPv6" -> multiWordRoute(op, Halves("option", "r2", HostMasks, lit.bytes, missed), Fail)
          [] lit.kind = "MAC" -> multiWordRoute(op, macCheck("option", lit, missed), Fail)
          [] lit.kind = "CIDR4" -> genOwnerBoundCIDRv4(lit, op)
          [] lit.kind = "CIDR6" -> genOwnerBoundCIDRv6(lit, op)

\* A slice off byte boundaries compares as a number.
literalScalarCompare(lit, op, label) ==
    LET mask == ipv4PrefixMaskBE(lit.prefix)
    IN  IF lit.kind # "CIDR4" THEN cmpRegConst("r3", rejectingJumpOp(op), Number(lit.bytes), label)
        ELSE IF lit.prefix = 0 THEN (IF op = "==" THEN << >> ELSE constantFail(label))
        ELSE <<AndImm("r3", mask)>>
             \o cmpRegConst("r3", rejectingJumpOp(op), BitAnd(Number(lit.bytes), mask), label)

ScalarLiteral(mode, f, lit, op, label) ==
    emitScalarFieldLoad(mode, f, label) \o emitFieldValue(f) \o literalScalarCompare(lit, op, label)

genLiteralCompare(a) ==
    CASE NeedsNarrowing(a.field) -> ScalarLiteral(a.mode, a.field, a.lit, a.op, Fail)
      [] a.mode = "option" -> genOptionLiteralCompare(a.lit, a.op)
      [] a.mode = "entry" -> genLiteralCompareDynamic(a.lit, a.op)
      [] OTHER -> StaticLiteralCompare(a.mode, a.lit, a.op)

\* The action is a zero-extended Word compared by a 32-bit jump.
genActionAtom(a) == loadAt("primary", 0, LiteralWord) \o <<JumpImm32("JNE", a.lit.int, Fail)>>

------------------------------------------------------------------------------
(* The bpf_loop callback: the entry the index names against one literal.   *)

Mismatch == <<"mismatch", 0>>
Break    == <<"break", 0>>

auxWalkWord(mask, host, label) ==
    loadAt("walk", 0, LiteralWord)
    \o (IF mask = AllOnes(LiteralWord) THEN << >> ELSE <<AndImm("r3", byteSwap(mask, LiteralWord))>>)
    \o <<Const("r2", byteSwap(host, LiteralWord)), JumpReg("JNE", "r3", "r2", label)>>

auxWalkHalfWord(off, host, label) ==
    loadAt("walk", off, LiteralHalf) \o <<Const("r2", byteSwap(host, LiteralHalf)), JumpReg("JNE", "r3", "r2", label)>>

auxWalkCompare(lit) ==
    LET mask == ipv4PrefixMaskBE(lit.prefix)
    IN  CASE lit.kind = "IPv4" -> auxWalkWord(AllOnes(LiteralWord), Number(lit.bytes), Mismatch)
          [] lit.kind = "MAC" ->
                auxWalkWord(AllOnes(LiteralWord), Number(SubSeq(lit.bytes, 1, 4)), Mismatch)
                \o auxWalkHalfWord(4, Number(SubSeq(lit.bytes, 5, 6)), Mismatch)
          [] lit.kind = "CIDR4" ->
                IF lit.prefix = 0 THEN << >>
                ELSE auxWalkWord(mask, BitAnd(Number(lit.bytes), mask), Mismatch)
          [] OTHER -> Halves("walk", "r2", V6Masks(lit), lit.bytes, Mismatch)

genAuxWalkCallback(lit) ==
    <<Gate(Break)>> \o auxWalkCompare(lit)
    \o <<Return("hit"), Landing(Mismatch), Return("miss"), Landing(Break), Return("stop")>>

------------------------------------------------------------------------------
(* Bracket predicates: every comparison, failing to the filter's reject.   *)

highHalfJumps(op) == IF op \in {"<", "<="} THEN <<"JLT", "JGT">> ELSE <<"JGT", "JLT">>

\* <<offset, size, value>> of each load of an ordered compare.
Chunks(bytes) ==
    LET chunk(from, size) == <<from, size, Number(SubSeq(bytes, from + 1, from + size))>>
    IN  CASE Len(bytes) = 4 -> <<chunk(0, LiteralWord)>>
          [] Len(bytes) = 6 -> <<chunk(0, LiteralWord), chunk(4, LiteralHalf)>>
          [] Len(bytes) = 16 -> <<chunk(0, DWord), chunk(8, DWord)>>

emitOrderedWireCmpTo(mode, chunks, op, reg, label, match) ==
    LET compare(i) ==
            loadAt(mode, chunks[i][1], chunks[i][2])
            \o <<HostTo(chunks[i][2]), Const(reg, chunks[i][3])>>
            \o (IF i = Len(chunks) THEN <<JumpReg(rejectingJumpOp(op), "r3", reg, label)>>
                ELSE <<JumpReg(highHalfJumps(op)[1], "r3", reg, match),
                       JumpReg(highHalfJumps(op)[2], "r3", reg, label)>>)
    IN  Concat([i \in DOMAIN chunks |-> compare(i)])
        \o (IF Len(chunks) > 1 THEN <<Landing(match)>> ELSE << >>)

emitOrderedWireCmp(mode, bytes, op) ==
    emitOrderedWireCmpTo(mode, Chunks(bytes), op, bracketConstReg(mode), Reject, Match)

emitIPv4Predicate(mode, lit, op) ==
    bracketAuxLoad(mode)
    \o (IF IsEquality(op) THEN V4Check(mode, lit, rejectingJumpOp(op), Reject)
        ELSE emitOrderedWireCmp(mode, lit.bytes, op))

emitIPv6Predicate(mode, lit, op) ==
    bracketAuxLoad(mode)
    \o (IF IsEquality(op)
        THEN multiWordRoute(op, Halves(mode, bracketConstReg(mode), HostMasks, lit.bytes,
                                       MissLabel(op, Reject)), Reject)
        ELSE emitOrderedWireCmp(mode, lit.bytes, op))

emitMACPredicate(mode, lit, op) ==
    bracketAuxLoad(mode)
    \o (IF IsEquality(op) THEN multiWordRoute(op, macCheck(mode, lit, MissLabel(op, Reject)), Reject)
        ELSE emitOrderedWireCmp(mode, lit.bytes, op))

emitIPv4CIDRPredicate(mode, lit, op) ==
    CASE lit.prefix = 8 -> emitIPv4Predicate(mode, lit, op)
      [] lit.prefix = 0 -> IF op = "==" THEN << >> ELSE constantFail(Reject)
      [] OTHER -> bracketAuxLoad(mode) \o V4Check(mode, lit, rejectingJumpOp(op), Reject)

emitIPv6CIDRPredicate(mode, lit, op) ==
    CASE lit.prefix = 32 -> emitIPv6Predicate(mode, lit, op)
      [] lit.prefix = 0 -> IF op = "==" THEN << >> ELSE constantFail(Reject)
      [] OTHER -> bracketAuxLoad(mode)
                  \o multiWordRoute(op, Halves(mode, bracketConstReg(mode), V6Masks(lit), lit.bytes,
                                                 MissLabel(op, Reject)), Reject)

\* An integer on a 48- or 128-bit field is the address with that number.
intAsAddrValue(lit, size) ==
    LET b == Bytes(lit.int, DWord)
        high == IF lit.neg /\ b[1] > 1 THEN 3 ELSE 0
    IN  [lit EXCEPT !.kind = IF size = 6 THEN "MAC" ELSE "IPv6",
                    !.bytes = IF size = 6 THEN SubSeq(b, 3, 8) ELSE [i \in 1 .. 8 |-> high] \o b]

\* Equality swaps the constant, anything else the register.
emitIntPredicate(mode, f, lit, op) ==
    LET value == lit.int % 2^f.bits
        hostOrder == NeedsNarrowing(f) \/ ~ IsEquality(op)
    IN  CASE f.bytes = 16 -> emitIPv6Predicate(mode, intAsAddrValue(lit, 16), op)
          [] f.bytes = 6 -> emitMACPredicate(mode, intAsAddrValue(lit, 6), op)
          [] OTHER ->
               emitScalarFieldLoad(mode, f, Reject)
               \o (IF hostOrder THEN emitFieldValue(f) ELSE << >>)
               \o cmpRegConst("r3", rejectingJumpOp(op),
                              IF hostOrder THEN value ELSE byteSwap(value, f.bytes), Reject)

emitCmpPredicate(a) ==
    CASE a.lit.kind = "Int" -> emitIntPredicate(a.mode, a.field, a.lit, a.op)
      [] NeedsNarrowing(a.field) -> ScalarLiteral(a.mode, a.field, a.lit, a.op, Reject)
      [] a.lit.kind = "IPv4" -> emitIPv4Predicate(a.mode, a.lit, a.op)
      [] a.lit.kind = "IPv6" -> emitIPv6Predicate(a.mode, a.lit, a.op)
      [] a.lit.kind = "MAC" -> emitMACPredicate(a.mode, a.lit, a.op)
      [] a.lit.kind = "CIDR4" -> emitIPv4CIDRPredicate(a.mode, a.lit, a.op)
      [] a.lit.kind = "CIDR6" -> emitIPv6CIDRPredicate(a.mode, a.lit, a.op)

------------------------------------------------------------------------------
(* `field in [...]`: every alternative jumps to the match, the last miss   *)
(* to the reject.                                                          *)

inListShape(list, f) ==
    CASE f.bytes = 16 -> "IPv6"
      [] f.bytes = 6 -> "MAC"
      [] OTHER -> "scalar"

HasRange(list) == \E i \in DOMAIN list : list[i].kind = "Range"

\* An alternative that holds for every value of the field.
Trivial(list, shape) ==
    \E i \in DOMAIN list :
        \/ list[i].kind \in {"CIDR4", "CIDR6"} /\ list[i].prefix = 0
        \/ shape = "MAC" /\ list[i].kind = "Range" /\ list[i].lo = 0 /\ list[i].hi = 4^6 - 1

RangeAlternative(lit, i, last) ==
    LET next == IF last THEN Reject ELSE Alternative(i)
    IN  (IF lit.lo > 0 THEN cmpRegConst("r3", "JLT", lit.lo, next) ELSE << >>)
        \o cmpRegConst("r3", "JLE", lit.hi, Match)
        \o (IF lit.lo > 0 /\ ~ last THEN <<Landing(next)>> ELSE << >>)

\* A CIDR masks a copy, in the byte order of the register.
CIDRAlternative(lit, f, hostOrder) ==
    LET order(v) == IF hostOrder THEN v ELSE byteSwap(v, f.bytes)
        mask == ipv4PrefixMaskBE(lit.prefix)
    IN  <<LiteralCopy, AndImm("r2", order(mask))>>
        \o cmpRegConst("r2", "JEq", order(BitAnd(Number(lit.bytes), mask)), Match)

ValueAlternative(lit, f, hostOrder) ==
    LET value == (IF lit.kind = "Int" THEN lit.int ELSE Number(lit.bytes)) % 2^f.bits
    IN  cmpRegConst("r3", "JEq", IF hostOrder THEN value ELSE byteSwap(value, f.bytes), Match)

emitAddrAlternative(mode, lit, label) ==
    IF lit.kind = "MAC" THEN macCheck(mode, lit, label)
    ELSE Halves(mode, "r2", V6Masks(lit), lit.bytes, label)

\* Drops the trailing chunks a bound leaves free.
trimChunks(chunks, bound) ==
    LET free(i) == chunks[i][3] = (IF bound = "lo" THEN 0 ELSE AllOnes(chunks[i][2]))
    IN  SubSeq(chunks, 1, CHOOSE n \in 0 .. Len(chunks) :
            (\A i \in n + 1 .. Len(chunks) : free(i)) /\ (n > 0 => ~ free(n)))

emitAddrRange(mode, lit, size, label, i) ==
    LET of(v) == Chunks(intAsAddrValue([lit EXCEPT !.int = v], size).bytes)
        lo == of(lit.lo)
        hi == of(lit.hi)
        shared == lo[1] = hi[1]
        rest(c) == IF shared THEN Tail(c) ELSE c
        from == trimChunks(rest(lo), "lo")
        to   == trimChunks(rest(hi), "hi")
    IN  (IF shared THEN loadAt(mode, 0, lo[1][2])
                        \o <<Const("r2", byteSwap(lo[1][3], lo[1][2])), JumpReg("JNE", "r3", "r2", label)>>
         ELSE << >>)
        \o (IF from = << >> THEN << >>
            ELSE emitOrderedWireCmpTo(mode, from, ">=", "r2", label, <<"low", i>>))
        \o (IF to = << >> THEN << >>
            ELSE emitOrderedWireCmpTo(mode, to, "<=", "r2", label, <<"high", i>>))

emitInAddrList(mode, list, size) ==
    LET n == Len(list)
        alternative(i) ==
            LET label == IF i = n THEN Reject ELSE Alternative(i)
            IN  (CASE list[i].kind = "Range" -> emitAddrRange(mode, list[i], size, label, i)
                   [] list[i].kind = "Int" -> emitAddrAlternative(mode, intAsAddrValue(list[i], size), label)
                   [] OTHER -> emitAddrAlternative(mode, list[i], label))
                \o (IF i = n THEN << >> ELSE <<LiteralJa(Match), Landing(label)>>)
    IN  Concat([i \in 1 .. n |-> alternative(i)]) \o (IF n > 1 THEN <<Landing(Match)>> ELSE << >>)

emitInPredicate(a) ==
    LET f == a.field
        shape == inListShape(a.list, f)
        trivial == Trivial(a.list, shape)
        hostOrder == HasRange(a.list) \/ NeedsNarrowing(f)
        alternative(i) ==
            CASE a.list[i].kind = "Range" -> RangeAlternative(a.list[i], i, i = Len(a.list))
              [] a.list[i].kind = "CIDR4" /\ a.list[i].prefix < 8 ->
                    CIDRAlternative(a.list[i], f, hostOrder)
              [] OTHER -> ValueAlternative(a.list[i], f, hostOrder)
        load == emitScalarFieldLoad(a.mode, f, Reject) \o (IF hostOrder THEN emitFieldValue(f) ELSE << >>)
    IN  CASE shape # "scalar" ->
                bracketAuxLoad(a.mode)
                \o (IF trivial THEN << >> ELSE emitInAddrList(a.mode, a.list, f.bytes))
          [] trivial -> load
          [] OTHER -> load \o Concat([i \in DOMAIN a.list |-> alternative(i)])
                      \o <<LiteralJa(Reject), Landing(Match)>>

genPredicate(a) == countGuard(a.mode) \o (IF a.list = << >> THEN emitCmpPredicate(a) ELSE emitInPredicate(a))

Compile(a) ==
    CASE a.form = "where" -> genLiteralCompare(a) \o <<Return("hit")>>
      [] a.form = "action" -> genActionAtom(a) \o <<Return("hit")>>
      [] a.form = "walk" -> genAuxWalkCallback(a.lit)
      [] a.form = "bracket" -> genPredicate(a) \o <<Return("hit")>>

AtomOf == LiteralAtoms
LiteralProgram == [i \in DOMAIN AtomOf |-> Compile(AtomOf[i])]

------------------------------------------------------------------------------
(* The machine.                                                            *)

VARIABLES atom, literalPresent, window, literalPc, r2, literalR3, r5, literalOut  \* atom: an index of AtomOf
literalVars == <<atom, literalPresent, window, literalPc, r2, literalR3, r5, literalOut>>

\* Register contents that are no number.
Garbage == -1
EntryAddress == -2

LiteralInit ==
    /\ atom \in DOMAIN AtomOf
    /\ window \in Windows(AtomOf[atom])
    /\ literalPresent \in (IF AtomOf[atom].mode = "primary" THEN {TRUE} ELSE BOOLEAN)
    /\ literalPc = 1
    /\ r2 = Garbage /\ literalR3 = Garbage /\ r5 = Garbage
    /\ literalOut = "running"

Reg(name) == CASE name = "r2" -> r2 [] name = "r3" -> literalR3 [] name = "r5" -> r5
Packet == <<atom, literalPresent, window>>

LiteralStep == literalPc' = literalPc + 1 /\ literalOut' = literalOut
LiteralJump(code, label) ==
    IF label \in {Fail, Reject} THEN literalOut' = (IF label = Fail THEN "miss" ELSE "reject") /\ literalPc' = literalPc
    ELSE /\ literalPc' = CHOOSE i \in literalPc + 1 .. Len(code) : code[i].op = "landing" /\ code[i].label = label
         /\ literalOut' = literalOut

LiteralTaken(if, a, b) ==
    CASE if = "JEq" -> a = b [] if = "JNE" -> a # b [] if = "JLT" -> a < b
      [] if = "JLE" -> a <= b [] if = "JGT" -> a > b [] if = "JGE" -> a >= b

DoLoad(ins) ==
    /\ ins.op = "load"
    /\ literalR3' = IF ins.via \in {"r5", "r5 through r2"} /\ r5 # EntryAddress THEN Garbage
                    ELSE Number(Reverse(SubSeq(window, ins.off + 1, ins.off + ins.size)))
    /\ r2' = IF ins.via \in {"r5 through r2", "index"} THEN Garbage ELSE r2
    /\ LiteralStep /\ UNCHANGED <<Packet, r5>>

DoConst(ins) ==
    /\ ins.op = "const"
    /\ r2' = IF ins.reg = "r2" THEN ins.v ELSE r2
    /\ literalR3' = IF ins.reg = "r3" THEN ins.v ELSE literalR3
    /\ r5' = IF ins.reg = "r5" THEN ins.v ELSE r5
    /\ LiteralStep /\ UNCHANGED Packet

DoCopy(ins) == ins.op = "copy" /\ r2' = literalR3 /\ LiteralStep /\ UNCHANGED <<Packet, literalR3, r5>>

DoAnd(ins) ==
    /\ ins.op \in {"and", "andimm"}
    /\ LET v == BitAnd(Reg(ins.dst), IF ins.op = "and" THEN Reg(ins.reg) ELSE Immediate(ins.v))
       IN  /\ r2' = IF ins.dst = "r2" THEN v ELSE r2
           /\ literalR3' = IF ins.dst = "r3" THEN v ELSE literalR3
    /\ LiteralStep /\ UNCHANGED <<Packet, r5>>

DoSwap(ins) ==
    /\ ins.op = "swap"
    /\ literalR3' = byteSwap(literalR3, ins.size)
    /\ LiteralStep /\ UNCHANGED <<Packet, r2, r5>>

DoNarrow(ins) ==
    /\ ins.op = "narrow"
    /\ literalR3' = (literalR3 \div 2^ins.shift) % 2^ins.bits
    /\ LiteralStep /\ UNCHANGED <<Packet, r2, r5>>

DoBranch(code, ins) ==
    /\ ins.op \in {"jreg", "jimm", "jimm32"}
    /\ LET taken == CASE ins.op = "jreg" -> LiteralTaken(ins.if, Reg(ins.l), Reg(ins.r))
                      [] ins.op = "jimm" -> LiteralTaken(ins.if, Reg(ins.l), Immediate(ins.v))
                      [] OTHER -> LiteralTaken(ins.if, literalR3 % 4^LiteralWord, ins.v)
       IN  IF taken THEN LiteralJump(code, ins.label) ELSE LiteralStep
    /\ UNCHANGED <<Packet, r2, literalR3, r5>>

DoJump(code, ins) == ins.op = "ja" /\ LiteralJump(code, ins.label) /\ UNCHANGED <<Packet, r2, literalR3, r5>>

DoLanding(ins) == ins.op = "landing" /\ LiteralStep /\ UNCHANGED <<Packet, r2, literalR3, r5>>

DoReturn(ins) == ins.op = "return" /\ literalOut' = ins.result /\ UNCHANGED <<Packet, literalPc, r2, literalR3, r5>>

\* The gate reads a byte into r3; an address prelude also uses r2.
DoGate(code, ins) ==
    /\ ins.op \in {"gate", "address"}
    /\ IF literalPresent THEN LiteralStep ELSE LiteralJump(code, ins.label)
    /\ literalR3' = Garbage
    /\ IF ins.op = "address" THEN r5' = EntryAddress /\ r2' = Garbage ELSE UNCHANGED <<r2, r5>>
    /\ UNCHANGED Packet

LiteralNext ==
    /\ literalOut = "running"
    /\ \E code \in {LiteralProgram[atom]} : \E ins \in {code[literalPc]} :
           \/ DoLoad(ins) \/ DoConst(ins) \/ DoCopy(ins) \/ DoAnd(ins) \/ DoSwap(ins) \/ DoNarrow(ins)
           \/ DoBranch(code, ins) \/ DoJump(code, ins) \/ DoLanding(ins) \/ DoReturn(ins) \/ DoGate(code, ins)

LiteralSpec == LiteralInit /\ [][LiteralNext]_literalVars

------------------------------------------------------------------------------
(* What an atom means: the field's bytes as one unsigned number, network   *)
(* order first, against the literal; false when the field is not there.    *)

Less(a, b) == \E i \in DOMAIN a : a[i] < b[i] /\ \A j \in 1 .. i - 1 : a[j] = b[j]

LiteralCompare(a, op, b) ==
    CASE op = "==" -> a = b [] op = "!=" -> a # b
      [] op = "<" -> Less(a, b) [] op = "<=" -> ~ Less(b, a)
      [] op = ">" -> Less(b, a) [] op = ">=" -> ~ Less(a, b)

BitOf(bytes, i) == (bytes[(i + 1) \div 2] \div 2^(i % 2)) % 2

\* The bits of the field, as the bytes of a literal of its width.
FieldBytes(a) ==
    IF ~ NeedsNarrowing(a.field) THEN window
    ELSE Bytes((Number(window) \div 2^a.field.shift) % 2^a.field.bits, (a.field.bits + 1) \div 2)

\* The bytes of an integer narrowed to a field.
IntBytes(v, neg, f) ==
    LET n == (f.bits + 1) \div 2
        all == Bytes(v, 8)
        sign == IF neg /\ all[1] > 1 THEN 3 ELSE 0
    IN  IF n > 8 THEN [i \in 1 .. n - 8 |-> sign] \o all
        ELSE Bytes(v % 2^f.bits, n)

Satisfies(bytes, op, lit, f) ==
    CASE lit.kind \in {"IPv4", "IPv6", "MAC"} -> LiteralCompare(bytes, op, lit.bytes)
      [] lit.kind \in {"CIDR4", "CIDR6"} ->
            (op = "==") = (\A i \in 1 .. lit.prefix : BitOf(bytes, i) = BitOf(lit.bytes, i))
      [] lit.kind = "Int" -> LiteralCompare(bytes, op, IntBytes(lit.int, lit.neg, f))
      [] lit.kind = "Range" -> /\ ~ Less(bytes, IntBytes(lit.lo, FALSE, f))
                               /\ ~ Less(IntBytes(lit.hi, FALSE, f), bytes)
      [] lit.kind = "Action" -> Number(Reverse(bytes)) = lit.int

LiteralHolds ==
    literalPresent /\ \E a \in {AtomOf[atom]}, bytes \in {FieldBytes(AtomOf[atom])} :
        IF a.list = << >> THEN Satisfies(bytes, a.op, a.lit, a.field)
        ELSE \E i \in DOMAIN a.list : Satisfies(bytes, "==", a.list[i], a.field)

\* A comparison accepts exactly the packets whose field satisfies it.  A
\* where atom that does not hold goes to its own label, which `not` turns
\* around; a callback tells a miss from the end of the list.
AtomDecides ==
    literalOut # "running" =>
               literalOut = CASE LiteralHolds -> "hit"
                       [] AtomOf[atom].form = "bracket" -> "reject"
                       [] AtomOf[atom].form = "walk" /\ ~ literalPresent -> "stop"
                       [] OTHER -> "miss"

\* No comparison reads a register that was overwritten, or never written:
\* the address of an entry survives until the last load through it, and a
\* constant until it is compared.
RegistersLive ==
    literalOut = "running" => \A ins \in {LiteralProgram[atom][literalPc]} :
        /\ ins.op \in {"jreg", "jimm", "and", "andimm", "swap", "narrow", "copy"} => literalR3 >= 0
        /\ ins.op \in {"jreg", "jimm"} => Reg(ins.l) >= 0
        /\ ins.op = "jreg" => Reg(ins.r) >= 0

LiteralSuccessors(code, j) ==
    {i \in DOMAIN code : /\ "label" \in DOMAIN code[j] /\ code[j].op # "landing"
                         /\ code[i].op = "landing" /\ code[i].label = code[j].label}
    \cup (IF code[j].op \in {"ja", "return"} \/ j = Len(code) THEN {} ELSE {j + 1})

\* Every instruction of an atom is reached from an earlier one, as the
\* kernel demands of a program without loops when it loads it.
LiteralLoadable == [i \in DOMAIN AtomOf |-> \A code \in {LiteralProgram[i]} :
                \A k \in 2 .. Len(code) : \E j \in 1 .. k - 1 : k \in LiteralSuccessors(code, j)]

AtomLoads == LiteralLoadable[atom]
==============================================================================
