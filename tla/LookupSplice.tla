---------------------------- MODULE LookupSplice ----------------------------
(***************************************************************************)
(* Splicing hook calls around the map helpers of a program                 *)
(* (spliceLookupCalls and what it emits, pkg/inject/lookup.go).            *)
(*                                                                         *)
(* The rewriter adds instructions at the program entry, at the entry of    *)
(* callbacks and of functions the context is passed down to, before and    *)
(* after each observed helper, and relocates every branch.  Here the       *)
(* original and the rewritten program run in lockstep, with the same       *)
(* helper results and branch outcomes: the rewritten one steps alone       *)
(* through inserted code, both step on an original instruction.            *)
(*                                                                         *)
(* Code is indexed by raw slots from 1; a 16-byte load takes two, the      *)
(* second "pad".  A word has three parts of 8 bits where the machine's has *)
(* 64 bits: the site in the lowest, then op and flags, then the result.    *)
(***************************************************************************)
EXTENDS Integers, Sequences, FiniteSets, SequencesExt, Bitwise

CONSTANTS
    Cases,      \* programs with the calls to observe
    MaxJump,    \* the largest branch distance an instruction encodes
    Rets        \* what update, delete, push, pop and peek may return

VARIABLES
    lookupJob,        \* the case, its rewritten code and which slot is original
    lookupO, lookupS,       \* the original and the rewritten program running
    lookupDue         \* hook calls that must come before the next original step

lookupVars == <<lookupJob, lookupO, lookupS, lookupDue>>

RFP == 10
Half == 8
WordBits == 24
OpShift == 8
FlagShift == 12
FlagMask == 7
RetShift == 16

-----------------------------------------------------------------------------
(* Instructions.                                                            *)

I(op, dst, src, off, imm) ==
    [op |-> op, dst |-> dst, src |-> src, off |-> off, imm |-> imm, name |-> ""]
Mov(d, r)    == I("mov", d, r, 0, 0)
MovImm(d, n) == I("movi", d, 0, 0, n)
Load(d, off) == I("ldx", d, RFP, off, 8)
Store(off, r) == I("stx", RFP, r, off, 8)
Jump(op, n)  == I(op, 0, 0, n, 0)
CallLabel(n) == [I("hook", 0, 0, 0, 0) EXCEPT !.name = n]
AddrOf(d, off) == <<Mov(d, RFP), I("add", d, 0, 0, off)>>
When(c, seq) == IF c THEN seq ELSE <<>>

-----------------------------------------------------------------------------
(* The spill slots of a function, below its frame floor.                    *)

lookupSlots(floor) ==
    LET base == floor - (floor % 8)
    IN  [ctx |-> base - 8, key |-> base - 16, result |-> base - 24,
         map |-> base - 32, value |-> base - 40]

updateValue(slots, withMap) == IF withMap THEN slots.value ELSE slots.map

copyAt(slots, size) == slots.map - (((size + 7) \div 8) * 8)

keyless(c) == c.op \in {"push", "pop", "peek"}
MapCall(c) == c.op \in {"update", "delete"} \/ keyless(c)
HasFlags(c) == c.op \in {"update", "push"}
hit(c)  == c.when \in {"hit", "any"}
miss(c) == c.when \in {"miss", "any"}

\* What a site keeps across the helper: in its function's slots, or in the
\* callee-saved registers of its wrapper.
Kept(c, what, r) ==
    IF c.wrapper
    THEN Mov(r, CASE what = "ctx" -> 6 [] what = "key" -> 7 [] what = "map" -> 9)
    ELSE Load(r, lookupSlots(c.floor)[what])

Save(c) == IF c.wrapper THEN Mov(8, 0) ELSE Store(lookupSlots(c.floor).result, 0)
Restore(c) == IF c.wrapper THEN Mov(0, 8) ELSE Load(0, lookupSlots(c.floor).result)

initCtx(c, spill) ==
    LET ctx == lookupSlots(c.floor).ctx
    IN  spill \o CASE c.from.k = "r1"   -> <<Store(ctx, 1)>>
                   [] c.from.k = "reg"  -> <<Store(ctx, c.from.v)>>
                   [] c.from.k = "slot" -> <<Load(0, c.from.v), Store(ctx, 0)>>
                   [] OTHER -> <<>>

before(c) ==
    LET slots == lookupSlots(c.floor)
        withMap(r) == When(c.withMap, <<Store(slots.map, r)>>)
    IN  CASE c.wrapper ->
               << CASE c.from.k = "reg"  -> Mov(4, c.from.v)
                    [] c.from.k = "slot" -> Load(4, c.from.v)
                    [] OTHER -> Load(4, slots.ctx) >>
          [] c.op = "tail" -> initCtx(c, <<Store(slots.key, 3)>> \o withMap(2))
          [] OTHER ->
               initCtx(c, <<Store(slots.key, 2)>>
                          \o When(HasFlags(c), <<Store(slots.result, IF c.op = "push" THEN 3 ELSE 4)>>)
                          \o When(c.op = "update", <<Store(updateValue(slots, c.withMap), 3)>>)
                          \o withMap(1))

Widths == <<8, 4, 2, 1>>

\* Widest loads first, R1 the scratch register.
copyValue(src, off, size) ==
    LET Chunk(done, w) == [n \in 1..((size - done) \div w) |->
                              <<I("ldx", 1, src, done + (n - 1) * w, w),
                                I("stx", RFP, 1, off + done + (n - 1) * w, w)>>]
        Copy(acc, w) == [code |-> acc.code \o FlattenSeq(Chunk(acc.done, w)),
                         done |-> acc.done + ((size - acc.done) \div w) * w]
    IN  FoldLeft(Copy, [code |-> <<>>, done |-> 0], Widths).code

HitArgs(c, copy) ==
    LET at == copyAt(lookupSlots(c.floor), copy)
        value == IF c.withSite THEN 4 ELSE 3
        args == IF c.withSite
                THEN <<MovImm(2, c.pc), Kept(c, "key", 3), Mov(4, 0)>>
                     \o When(c.withMap, <<Kept(c, "map", 5)>>)
                ELSE <<Kept(c, "key", 2), Mov(3, 0)>>
    IN  When(copy > 0, copyValue(0, at, copy)) \o <<Kept(c, "ctx", 1)>> \o args
        \o When(copy > 0, AddrOf(value, at)) \o <<CallLabel(c.hook)>>

\* A generic hook gets the NULL result of a miss, a typed one its miss hook.
MissArgs(c) ==
    IF c.withMap THEN HitArgs(c, 0)
    ELSE <<Kept(c, "ctx", 1)>>
         \o (IF c.withSite THEN <<MovImm(2, c.pc), Kept(c, "key", 3)>> ELSE <<Kept(c, "key", 2)>>)
         \o <<CallLabel(c.missHook)>>

Region(c) ==
    LET skip(op, code) == <<Jump(op, Len(code))>> \o code
        either(op, first, second) ==
            <<Jump(op, Len(first) + 1)>> \o first \o skip("ja", second)
        choose(onHit, onMiss) ==
            CASE hit(c) /\ miss(c) /\ c.missFirst -> either("jne0", onMiss, onHit)
              [] hit(c) /\ miss(c) /\ ~c.missFirst -> either("jeq0", onHit, onMiss)
              [] ~hit(c) -> skip("jne0", onMiss)
              [] ~miss(c) /\ c.missFirst -> <<Jump("jne0", 1)>> \o skip("ja", onHit)
              [] OTHER -> skip("jeq0", onHit)
    IN  choose(HitArgs(c, c.copy), MissArgs(c))

\* Mutant: the result is left to whatever the hook returned.
lookupRegionUnrestored(c) == <<Save(c)>> \o Region(c)

lookupRegion(c) == <<Save(c)>> \o Region(c) \o <<Restore(c)>>

lookupWrapper(c) ==
    <<[Mov(6, 4) EXCEPT !.name = "wrapper", !.imm = c.pc], Mov(7, 2)>> \o When(c.withMap, <<Mov(9, 1)>>)
    \o <<I("help", 0, 0, 0, 0)>> \o lookupRegion(c) \o <<I("exit", 0, 0, 0, 0)>>

infoOps(op) == CASE op = "update" -> 1 [] op = "delete" -> 2 [] op = "push" -> 3
                 [] op = "pop" -> 4 [] OTHER -> 5

Word(c) == IF c.withMap THEN 2 ELSE IF c.op = "update" THEN 5 ELSE 4

\* info = site | op | flags | result, for a generic or dispatch hook.
InfoArgs(c, slots) ==
    LET w == Word(c)
        put(n, shift) == <<MovImm(3, n), I("lsh", 3, 0, 0, shift), I("or", w, 3, 0, 0)>>
    IN  (IF HasFlags(c) THEN <<I("and", w, 0, 0, FlagMask), I("lsh", w, 0, 0, FlagShift)>>
         ELSE <<MovImm(w, 0)>>)
        \o <<Mov(3, 0), I("lsh", 3, 0, 0, RetShift), I("or", w, 3, 0, 0)>>
        \o put(infoOps(c.op), OpShift)
        \o <<MovImm(3, c.pc), I("or", w, 3, 0, 0), Load(1, slots.ctx)>>
        \o (CASE keyless(c) -> <<MovImm(3, 0), Load(4, slots.key)>>
              [] c.op = "update" -> <<Load(3, slots.key), Load(4, updateValue(slots, c.withMap))>>
              [] OTHER -> <<Load(3, slots.key), MovImm(4, 0)>>)
        \o <<Load(5, slots.map)>>

\* status = the low half of the result | flags above it, for a typed hook.
StatusArgs(c, slots) ==
    LET w == Word(c)
    IN  (IF HasFlags(c)
         THEN <<I("lsh", w, 0, 0, Half), I("mov32", 2, 0, 0, 0), I("or", w, 2, 0, 0)>>
         ELSE <<I("mov32", w, 0, 0, 0)>>)
        \o <<Load(1, slots.ctx), MovImm(2, c.pc), Load(3, slots.key)>>
        \o When(c.op = "update", <<Load(4, updateValue(slots, c.withMap))>>)

AfterCall(c, keep) ==
    LET slots == lookupSlots(c.floor)
        args == (IF c.withMap THEN InfoArgs(c, slots) ELSE StatusArgs(c, slots))
                \o <<CallLabel(c.hook)>>
    IN  keep \o When(c.results = "error", <<Jump("jsge32", Len(args))>>)
        \o args \o <<Load(0, slots.result)>>

\* Mutant: the result takes its slot before the flags are loaded from it.
mapCallAfterFlagsLast(c) ==
    LET slots == lookupSlots(c.floor)
    IN  AfterCall(c, <<Store(slots.result, 0)>>
                     \o When(HasFlags(c), <<Load(Word(c), slots.result)>>))

\* An update or push loads its flags before the result takes their slot.
mapCallAfter(c) ==
    LET slots == lookupSlots(c.floor)
    IN  AfterCall(c, When(HasFlags(c), <<Load(Word(c), slots.result)>>)
                     \o <<Store(slots.result, 0)>>)

afterFor(c) ==
    LET slots == lookupSlots(c.floor)
    IN  CASE c.wrapper -> <<>>
          [] MapCall(c) -> mapCallAfter(c)
          [] c.op = "tail" /\ c.dispatch ->
               <<Load(1, slots.ctx), MovImm(2, c.pc)>> \o AddrOf(3, slots.key)
               \o <<MovImm(4, 0), Load(5, slots.map), CallLabel(c.hook)>>
          [] c.op = "tail" ->
               <<Load(1, slots.ctx), MovImm(2, c.pc), Load(3, slots.key),
                 I("mov32", 3, 3, 0, 0), CallLabel(c.hook)>>
          [] OTHER -> lookupRegion(c)

-----------------------------------------------------------------------------
(* spliceLookupCalls: layout of the rewritten program, then its code.  A    *)
(* case k has code, starts (where functions begin), floors, calls, passes,  *)
(* callbacks and the entry hook.                                            *)

Pcs(k) == SelectSeq([i \in DOMAIN k.code |-> i], LAMBDA i : k.code[i].op # "pad")
Size(k, i) == IF i + 1 \in DOMAIN k.code /\ k.code[i + 1].op = "pad" THEN 2 ELSE 1
FuncOf(k, i) == CHOOSE f \in k.starts : f <= i /\ \A g \in k.starts : g <= i => g <= f
Call(k, i) == [k.calls[i] EXCEPT !.pc = i, !.floor = k.floors[FuncOf(k, i)]]
ctxSlot(k, f) == lookupSlots(k.floors[f]).ctx
Target(i, ins) == i + 1 + ins.off

prologue(k) ==
    IF ~k.entry.on THEN <<>>
    ELSE When(k.entry.dispatch, <<MovImm(2, 2^Half - 1), MovImm(3, 0), MovImm(4, 0), MovImm(5, 0)>>)
         \o <<CallLabel("entry"), Load(1, ctxSlot(k, 1))>>

\* What a passed-to function or a callback with a site runs on entry.
callbackPrologue(k, f) ==
    IF f \in DOMAIN k.passes THEN <<Store(ctxSlot(k, f), k.passes[f].reg)>>
    ELSE IF f \in DOMAIN k.callbacks
    THEN <<I("ldx", 0, k.callbacks[f].param, ctxSlot(k, 1) - k.callbacks[f].arg, 8),
           Store(ctxSlot(k, f), 0)>>
    ELSE <<>>

passLoad(k, i) ==
    LET f == Target(i, k.code[i])
    IN  IF k.code[i].op = "callf" /\ f \in DOMAIN k.passes /\ ~k.passes[f].saved
        THEN <<Load(k.passes[f].reg, ctxSlot(k, FuncOf(k, i)))>> ELSE <<>>

HoldsNone(k) ==
    \E i \in DOMAIN k.code : /\ passLoad(k, i) # <<>>
                             /\ FuncOf(k, i) \notin {1} \union DOMAIN k.passes

Wrappers(k) == SelectSeq(Pcs(k), LAMBDA i : i \in DOMAIN k.calls /\ k.calls[i].wrapper)
HookBody == <<I("hookbody", 0, 0, 0, 0), I("hookbody", 0, 0, 0, 0)>>
Unmarked(code) == [j \in DOMAIN code |-> [ins |-> code[j], old |-> 0]]

\* The hooks and wrappers: the helper inside a wrapper is the site's.
hooks(k) ==
    LET marked(code, i) == [j \in DOMAIN code |-> [ins |-> code[j],
                                                   old |-> IF code[j].op = "help" THEN i ELSE 0]]
        wrappers(sites) == [n \in DOMAIN sites |-> marked(lookupWrapper(Call(k, sites[n])), sites[n])]
    IN  Unmarked(HookBody) \o FlattenSeq(wrappers(Wrappers(k)))

hookAt(k) ==
    LET later == k.starts \ {1}
    IN  IF later = {} THEN 0 ELSE CHOOSE f \in later : \A g \in later : f <= g

\* Where a branch to an original instruction lands.
mapped(k) ==
    LET Put(acc, i, at) ==
            [pc |-> at + Len(passLoad(k, i)) + Size(k, i)
                    + (IF i \in DOMAIN k.calls
                       THEN Len(before(Call(k, i))) + Len(afterFor(Call(k, i))) ELSE 0),
             at |-> [j \in DOMAIN acc.at \union {i} |-> IF j = i THEN at ELSE acc.at[j]]]
        Place(acc, i) == Put(acc, i, acc.pc + (IF i = hookAt(k) THEN Len(hooks(k)) ELSE 0)
                                     + Len(callbackPrologue(k, i)))
    IN  FoldLeft(Place, [pc |-> 2 + Len(prologue(k)), at |-> <<>>], Pcs(k)).at

Relative(ins) == ins.op \in {"jcc", "ja", "callf", "ldfn"}
IsFunction(ins) == ins.op \in {"callf", "ldfn"}

relocateOffset(ins, newPC, to) == [ins EXCEPT !.off = to - newPC - 1]

\* The original instruction at i, moved to newPC.
Moved(k, at, i, newPC) ==
    LET ins == k.code[i]
        f == Target(i, ins)
        to == at[f] - (IF IsFunction(ins) THEN Len(callbackPrologue(k, f)) ELSE 0)
    IN  IF i \in DOMAIN k.calls /\ k.calls[i].wrapper
        THEN I("callw", 0, 0, 0, i)
        ELSE IF Relative(ins) THEN relocateOffset(ins, newPC, to) ELSE ins

EmitAround(k, at, i) ==
    LET site == i \in DOMAIN k.calls
        spill == passLoad(k, i) \o When(site, before(Call(k, i)))
        ins == Moved(k, at, i, at[i] + Len(spill))
        wrapped == site /\ k.calls[i].wrapper
    IN  (IF i = hookAt(k) THEN hooks(k) ELSE <<>>)
        \o Unmarked(callbackPrologue(k, i) \o spill)
        \o <<[ins |-> ins, old |-> IF wrapped THEN 0 ELSE i]>>
        \o When(Size(k, i) = 2, Unmarked(<<I("pad", 0, 0, 0, 0)>>))
        \o When(site, Unmarked(afterFor(Call(k, i))))

spliceLookupCalls(k) ==
    LET body(at) == FlattenSeq([n \in DOMAIN Pcs(k) |-> EmitAround(k, at, Pcs(k)[n])])
        whole(at) == Unmarked(<<Store(ctxSlot(k, 1), 1)>> \o prologue(k)) \o body(at)
                     \o (IF hookAt(k) = 0 THEN hooks(k) ELSE <<>>)
        far(slot) == /\ slot.old # 0 /\ slot.ins.op \in {"jcc", "ja"}
                     /\ slot.ins.off \notin (-MaxJump - 1)..MaxJump
        refused(code) ==
           \/ HoldsNone(k)
           \/ \E i \in DOMAIN k.code : IsFunction(k.code[i]) /\ Target(i, k.code[i]) = 1
           \/ \E j \in DOMAIN code : far(code[j])
        emitted(at, code) == [case |-> k, at |-> at, code |-> IF refused(code) THEN <<>> ELSE code]
        laidOut(at) == emitted(at, whole(at))
    IN  laidOut(mapped(k))

-----------------------------------------------------------------------------
(* Execution.  A value is a kind and a number; "none" is unreadable.  A     *)
(* frame keeps the cells written to it, the registers to restore and where  *)
(* to return.                                                               *)

V(kind, n) == [k |-> kind, n |-> n, d |-> 0]
None == V("none", 0)
Num(n) == V("num", n)
Ctx == V("ctx", 0)
Map == V("map", 0)
Key == V("key", 0)
Val == V("val", 0)

Regs == 0..9
Scratch == 0..5

Depth(m) == Len(m.frames)
Get(m, r) == IF r = RFP THEN [k |-> "fp", n |-> 0, d |-> Depth(m)] ELSE m.regs[r]
Set(m, r, v) == [m EXCEPT !.regs[r] = v, !.pc = @ + 1]
Clobber(m, v) ==
    [m EXCEPT !.regs = [r \in Regs |-> IF r = 0 THEN v ELSE IF r \in Scratch THEN None ELSE @[r]]]

Cell(m, d, at, w) ==
    LET found == {c \in m.frames[d].cells : c.at = at /\ c.w = w}
    IN  IF found = {} THEN None ELSE (CHOOSE c \in found : TRUE).v

Written(m, d, at, w, v) ==
    [m EXCEPT !.frames[d].cells =
        {c \in @ : c.at + c.w <= at \/ at + w <= c.at} \union {[at |-> at, w |-> w, v |-> v]}]

LoadFrom(m, base, ins) ==
    CASE base.k = "fp"  -> Cell(m, base.d, base.n + ins.off, ins.imm)
      [] base.k = "val" -> [k |-> "bytes", n |-> ins.off, d |-> ins.imm]
      [] OTHER -> None

ArgSet(op) ==
    CASE op = "update" -> 1..4 [] op \in {"push", "tail"} -> 1..3 [] OTHER -> 1..2

\* The registers an instruction reads; op is the helper's, for a call of one.
ReadBy(ins, op) ==
    CASE ins.op \in {"mov", "mov32"} -> {ins.src}
      [] ins.op \in {"and", "lsh", "add"} -> {ins.dst}
      [] ins.op = "or" -> {ins.dst, ins.src}
      [] ins.op = "ldx" -> {ins.src}
      [] ins.op = "stx" -> {ins.dst, ins.src}
      [] ins.op \in {"jeq0", "jne0", "jsge32", "exit"} -> {0}
      [] ins.op = "help" -> ArgSet(op)
      [] ins.op = "loop" -> 2..3
      [] OTHER -> {}

Readable(m, ins, op) == \A r \in ReadBy(ins, op) : Get(m, r) # None

PushFrame(m, to) ==
    [m EXCEPT !.frames = Append(@, [cells |-> {}, ret |-> m.pc + 1,
                                    saved |-> [r \in 6..9 |-> m.regs[r]]]),
              !.pc = to,
              !.regs = [r \in Regs |-> IF r \in 1..5 THEN @[r] ELSE None]]

PopFrame(m, r0) ==
    LET top == Last(m.frames)
    IN  IF Depth(m) = 1 THEN [m EXCEPT !.pc = 0]
        ELSE [pc |-> top.ret, frames |-> Front(m.frames),
              regs |-> [r \in Regs |-> IF r = 0 THEN r0
                                       ELSE IF r \in Scratch THEN None ELSE top.saved[r]]]

\* The callback of bpf_loop: R1 the index, R2 what the caller passed in R3.
EnterCallback(m) ==
    LET pushed == PushFrame(m, m.regs[2].n)
    IN  [pushed EXCEPT !.regs = [r \in Regs |-> IF r = 1 THEN Num(0)
                                                ELSE IF r = 2 THEN m.regs[3] ELSE None]]

\* Sign of the low half.
Negative(v) == v.k = "num" /\ (v.n \div 2^(Half - 1)) % 2 = 1

Taken(m, ins) ==
    CASE ins.op = "jeq0" -> m.regs[0] = Num(0)
      [] ins.op = "jne0" -> m.regs[0] # Num(0)
      [] ins.op = "jsge32" -> ~Negative(m.regs[0])
      [] OTHER -> TRUE

ShiftLeft(n, by) == (n % 2^(WordBits - by)) * 2^by

\* One step of machine m over ins; c is the outcome both machines share: a
\* helper's result, whether a branch is taken, whether a callback runs.
Step(m, ins, c) ==
    LET d == Get(m, ins.dst)
        r == Get(m, ins.src)
        num(n) == Set(m, ins.dst, Num(n))
    IN  CASE ins.op = "mov"   -> Set(m, ins.dst, r)
          [] ins.op = "movi"  -> num(ins.imm)
          [] ins.op = "mov32" -> num(r.n % 2^Half)
          [] ins.op = "add"   -> Set(m, ins.dst, [d EXCEPT !.n = @ + ins.imm])
          [] ins.op = "and"   -> num(d.n & ins.imm)
          [] ins.op = "lsh"   -> num(ShiftLeft(d.n, ins.imm))
          [] ins.op = "or"    -> num(d.n | r.n)
          [] ins.op = "ldx"   -> Set(m, ins.dst, LoadFrom(m, r, ins))
          [] ins.op = "stx"   -> [Written(m, d.d, d.n + ins.off, ins.imm, r) EXCEPT !.pc = @ + 1]
          [] ins.op = "ldmap" -> [Set(m, 1, Map) EXCEPT !.pc = @ + 1]
          [] ins.op = "ldfn"  -> [Set(m, 2, V("fn", Target(m.pc, ins))) EXCEPT !.pc = @ + 1]
          [] ins.op = "args"  -> [m EXCEPT !.regs = [@ EXCEPT ![2] = Key, ![3] = Val, ![4] = Num(ins.imm)],
                                           !.pc = @ + 1]
          [] ins.op = "tailargs" -> [m EXCEPT !.regs = [@ EXCEPT ![1] = Ctx, ![2] = Map, ![3] = Num(ins.imm)],
                                              !.pc = @ + 1]
          [] ins.op \in {"jeq0", "jne0", "jsge32", "ja"} ->
               [m EXCEPT !.pc = IF Taken(m, ins) THEN Target(@, ins) ELSE @ + 1]
          [] ins.op = "jcc"   -> [m EXCEPT !.pc = IF c = Num(1) THEN Target(@, ins) ELSE @ + 1]
          [] ins.op = "hook"  -> [Clobber(m, Num(0)) EXCEPT !.pc = @ + 1]
          [] ins.op = "help"  -> IF c = V("gone", 0) THEN [m EXCEPT !.pc = 0]
                                 ELSE [Clobber(m, c) EXCEPT !.pc = @ + 1]
          [] ins.op = "loop"  -> IF c = Num(1) THEN EnterCallback(m)
                                 ELSE [Clobber(m, Num(0)) EXCEPT !.pc = @ + 1]
          [] ins.op = "callf" -> PushFrame(m, Target(m.pc, ins))
          [] ins.op = "callw" -> PushFrame(m, CHOOSE j \in DOMAIN lookupJob.code :
                                            /\ lookupJob.code[j].ins.name = "wrapper"
                                            /\ lookupJob.code[j].ins.imm = ins.imm)
          [] OTHER            -> PopFrame(m, m.regs[0])

OpAt(i) == IF i \in DOMAIN lookupJob.case.calls THEN lookupJob.case.calls[i].op ELSE "lookup"

Outcomes(i) ==
    CASE lookupJob.case.code[i].op \in {"jcc", "loop"} -> {Num(0), Num(1)}
      [] lookupJob.case.code[i].op # "help" -> {None}
      [] OpAt(i) = "lookup" -> {Num(0), Val}
      [] OpAt(i) = "tail" -> {None, V("gone", 0)}
      [] OTHER -> {Num(n) : n \in Rets}

-----------------------------------------------------------------------------
(* The hook calls an observed helper owes, from the hooks' signatures: the  *)
(* name and the arguments in order, Free where nothing is passed.           *)

Free == V("free", 0)

Due(name, args) ==
    [name |-> name, args |-> [r \in 1..5 |-> IF r \in DOMAIN args THEN args[r] ELSE Free]]

Status(ret, flags) == Num((ret.n % 2^Half) + ShiftLeft(flags, Half))

Info(c, ret, flags) ==
    Num(c.pc + infoOps(c.op) * 2^OpShift + (flags % (FlagMask + 1)) * 2^FlagShift
        + ShiftLeft(ret.n, RetShift))

DueLookup(c, m, ret) ==
    LET found == ret # Num(0)
        value == IF found /\ c.copy > 0 THEN V("copy", c.copy) ELSE ret
        site == IF c.withSite THEN <<Ctx, Num(c.pc)>> ELSE <<Ctx>>
    IN  IF (found /\ ~hit(c)) \/ (~found /\ ~miss(c)) THEN <<>>
        ELSE IF c.withMap THEN <<Due(c.hook, site \o <<m.regs[2], value, m.regs[1]>>)>>
        ELSE IF found THEN <<Due(c.hook, site \o <<m.regs[2], value>>)>>
        ELSE <<Due(c.missHook, site \o <<m.regs[2]>>)>>

DueMapCall(c, m, ret) ==
    LET flags == IF ~HasFlags(c) THEN 0 ELSE m.regs[IF c.op = "push" THEN 3 ELSE 4].n
        value == IF c.op = "update" THEN m.regs[3] ELSE IF keyless(c) THEN m.regs[2] ELSE Num(0)
        key == IF keyless(c) THEN Num(0) ELSE m.regs[2]
        typed == <<Ctx, Num(c.pc), m.regs[2]>> \o When(c.op = "update", <<value>>)
    IN  IF c.results = "error" /\ ~Negative(ret) THEN <<>>
        ELSE IF c.withMap THEN <<Due(c.hook, <<Ctx, Info(c, ret, flags), key, value, m.regs[1]>>)>>
        ELSE <<Due(c.hook, typed \o <<Status(ret, flags)>>)>>

DueTail(c, m) ==
    IF c.dispatch
    THEN <<Due(c.hook, <<Ctx, Num(c.pc), V("index", m.regs[3].n), Num(0), m.regs[2]>>)>>
    ELSE <<Due(c.hook, <<Ctx, Num(c.pc), Num(m.regs[3].n % 2^Half)>>)>>

DueAfter(i, m, ret) ==
    IF i \notin DOMAIN lookupJob.case.calls \/ lookupJob.case.code[i].op # "help" \/ ret = V("gone", 0) THEN <<>>
    ELSE LET c == Call(lookupJob.case, i)
         IN  CASE c.op = "lookup" -> DueLookup(c, m, ret)
               [] c.op = "tail" -> DueTail(c, m)
               [] OTHER -> DueMapCall(c, m, ret)

-----------------------------------------------------------------------------
Here == lookupJob.code[lookupS.pc]
Running == lookupS.pc \in DOMAIN lookupJob.code

\* The original program reads only what it may: the verifier accepted it.
OriginalFine == lookupO.pc = 0 \/ Readable(lookupO, lookupJob.case.code[lookupO.pc], OpAt(lookupO.pc))

Inserted ==
    /\ Running /\ Here.old = 0 /\ OriginalFine
    /\ lookupS' = Step(lookupS, Here.ins, None)
    /\ lookupDue' = IF Here.ins.op = "hook" /\ lookupDue # <<>> THEN Tail(lookupDue) ELSE lookupDue
    /\ UNCHANGED <<lookupJob, lookupO>>

Original ==
    /\ Running /\ Here.old # 0 /\ lookupO.pc = Here.old /\ OriginalFine
    /\ \E c \in Outcomes(lookupO.pc) :
          /\ lookupO' = Step(lookupO, lookupJob.case.code[lookupO.pc], c)
          /\ lookupS' = Step(lookupS, Here.ins, c)
          /\ lookupDue' = lookupDue \o DueAfter(lookupO.pc, lookupO, c)
    /\ UNCHANGED lookupJob

Entered ==
    [pc |-> 1, regs |-> [r \in Regs |-> IF r = 1 THEN Ctx ELSE None],
     frames |-> <<[cells |-> {}, ret |-> 0, saved |-> [r \in 6..9 |-> None]]>>]

LookupInit ==
    /\ \E k \in Cases :
          /\ lookupJob = spliceLookupCalls(k)
          /\ lookupDue = IF ~k.entry.on THEN <<>>
                         ELSE IF k.entry.dispatch
                         THEN <<Due("entry", <<Ctx, Num(2^Half - 1), Num(0), Num(0), Num(0)>>)>>
                         ELSE <<Due("entry", <<Ctx>>)>>
    /\ lookupO = Entered
    /\ lookupS = Entered

LookupNext == Inserted \/ Original

LookupSpec == LookupInit /\ [][LookupNext]_lookupVars

-----------------------------------------------------------------------------
\* Function pointers are equal when the rewritten one enters the image of the
\* original function, its prologue included.
SameValue(a, b) ==
    \/ a = b
    \/ a.k = "fn" /\ b.k = "fn" /\ b.n = lookupJob.at[a.n] - Len(callbackPrologue(lookupJob.case, a.n))

\* Registers the next original instruction is about to give away: R0 before
\* any call, and the free register that carries the context into a callee.
Given(i) ==
    LET ins == lookupJob.case.code[i]
        f == Target(i, ins)
    IN  (IF ins.op \in {"help", "callf", "loop"} THEN {0} ELSE {})
        \union (IF ins.op = "callf" /\ f \in DOMAIN lookupJob.case.passes THEN {lookupJob.case.passes[f].reg} ELSE {})

InWrapper == Depth(lookupS) # Depth(lookupO)

(* spliceLookupCalls: the rewritten program executes the original's         *)
(* instructions, in the original's order, on the same readable registers    *)
(* and the same stack, whatever helpers return and branches do: branches    *)
(* land on the spills of a helper, past a prologue, or on it for a call.    *)
SameExecution ==
    Running /\ Here.old # 0 /\ OriginalFine =>
        /\ lookupO.pc = Here.old
        /\ \A r \in IF InWrapper THEN ArgSet("lookup") ELSE Regs \ Given(lookupO.pc) :
              lookupO.regs[r] = None \/ SameValue(lookupO.regs[r], lookupS.regs[r])
        /\ \A d \in DOMAIN lookupO.frames : lookupO.frames[d].cells \subseteq lookupS.frames[d].cells

(* before, afterFor and the prologues: inserted code reads no register the  *)
(* verifier counts as unreadable there, whichever way control arrived.      *)
InsertedReadsAreReadable ==
    Running /\ Here.old = 0 /\ OriginalFine =>
        /\ Readable(lookupS, Here.ins, "lookup")
        /\ Here.ins.op = "hook" /\ lookupDue # <<>> =>
              \A r \in 1..5 : Head(lookupDue).args[r] # Free => lookupS.regs[r] # None

ArgMatches(m, want, got) ==
    CASE want.k = "free" -> TRUE
      [] want.k = "copy" ->
           /\ got.k = "fp"
           /\ \A b \in 0..(want.n - 1) :
                 \E c \in m.frames[got.d].cells :
                     /\ c.v.k = "bytes" /\ c.v.d = c.w
                     /\ c.at <= got.n + b /\ got.n + b < c.at + c.w
                     /\ c.v.n - c.at = -got.n
      [] want.k = "index" -> got.k = "fp" /\ Cell(m, got.d, got.n, 8) = Num(want.n)
      [] OTHER -> want = got

(* lookupRegion, mapCallAfter, the tail-call and entry hooks: an observed   *)
(* result calls its hook exactly once before the program goes on, with the  *)
(* context, site, key, value, map and status of that very call; a result    *)
(* that is not observed calls none.                                         *)
HookGetsTheCall ==
    OriginalFine =>
        /\ Running /\ Here.ins.op = "hook" =>
              /\ lookupDue # <<>>
              /\ Here.ins.name = Head(lookupDue).name
              /\ \A r \in 1..5 : ArgMatches(lookupS, Head(lookupDue).args[r], lookupS.regs[r])
        /\ (Running /\ Here.old # 0) \/ lookupS.pc = 0 => lookupDue = <<>>
=============================================================================
