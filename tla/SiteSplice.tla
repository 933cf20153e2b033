----------------------------- MODULE SiteSplice -----------------------------
(***************************************************************************)
(* Observing one 32-bit load (Transform, pkg/inject/inject.go) and the     *)
(* check of the region it inserts (checkU32, pkg/injectcheck/effects.go).  *)
(*                                                                         *)
(* The transform puts a save, a hook call and a restore after the load     *)
(* into R2 through R0, moves every branch over them and appends the         *)
(* hook.  It keeps R0 and R2; R1 is dead because the next instruction sets *)
(* it; that R3 to R5 are dead is the caller's word, which the check takes  *)
(* from liveness.  What both accept runs beside the original.              *)
(*                                                                         *)
(* Code is indexed by raw slots from 1; a 16-byte load takes two, the      *)
(* second "pad".  Register values are known by where they come from.       *)
(* checkStackLimits is in StackLimits.                                     *)
(***************************************************************************)
EXTENDS Integers, Sequences, FiniteSets, SequencesExt

CONSTANTS
    Jobs,           \* programs with a request
    SiteTampered(_),    \* the codes to check for a transformed program
    SiteMaxJump         \* the largest branch distance an instruction encodes

VARIABLES
    siteJob,            \* the program and the request
    status,         \* "asked", "refused", "transformed", "rejected" or "checked"
    siteCode,           \* the new code: instruction, and its original slot or 0
    siteO, siteS,           \* the original and the new program running
    siteDue             \* the hook calls that must come before the next original step

siteVars == <<siteJob, status, siteCode, siteO, siteS, siteDue>>

SiteRFP == 10
valueReg == 2
siteReg == 1
insertSlots == 6
SiteStackBottom == -512

SiteI(op, dst, src, off, imm) == [op |-> op, dst |-> dst, src |-> src, off |-> off, imm |-> imm, ref |-> ""]
SiteStore(off, r) == SiteI("st", SiteRFP, r, off, 8)
SiteLoad(r, off)  == SiteI("ldx", r, SiteRFP, off, 8)
SiteWord(r, p, off) == SiteI("ldx", r, p, off, 4)
SiteCallLabel(name) == [SiteI("call", 0, 0, 0, -1) EXCEPT !.ref = name]

Boundaries(k) == {i \in DOMAIN k.code : k.code[i].op # "pad"}
Next1(k, i) == IF k.code[i].op \in {"ldimm", "ldfn"} THEN i + 2 ELSE i + 1

-----------------------------------------------------------------------------
(* Refusals before the splice.                                              *)

validateRequest(k) ==
    /\ k.hook # "" /\ k.ptrReg = 0
    /\ k.lowest <= 0 /\ k.lowest >= SiteStackBottom

\* k.names: symbols, function metadata and BTF functions of the collection.
checkNoCollision(k) == k.hook \notin k.names

Defined(k, name) == {i \in DOMAIN k.syms : k.syms[i] = name}

checkReferences(k) ==
    \A i \in DOMAIN k.code : k.code[i].ref # "" =>
        /\ k.code[i].ref # k.hook
        /\ k.code[i].op \in {"call", "ldfn"} => Cardinality(Defined(k, k.code[i].ref)) = 1

\* Function metadata on the first instruction, a source line on every function.
checkExtInfo(k) == 1 \in k.funcs /\ k.funcs \subseteq k.lines

checkStackBound(k) ==
    \A i \in DOMAIN k.code : SiteRFP \in {k.code[i].dst, k.code[i].src} => k.code[i].off >= k.lowest

-----------------------------------------------------------------------------
(* The splice.                                                              *)

\* Two slots below the 8-byte floor of the audited mark.
spillSlots(lowest) == LET floor == lowest - (lowest % 8) IN [r0 |-> floor - 8, val |-> floor - 16]

redefinesSiteReg(next) ==
    /\ next.dst = siteReg
    /\ \/ next.op = "movi" \/ next.op = "ldimm"
       \/ next.op \in {"mov", "ldx"} /\ next.src # siteReg

checkShape(k, i) ==
    /\ k.code[i] = SiteWord(valueReg, 0, k.off)
    /\ redefinesSiteReg(k.code[Next1(k, i)])

SiteRelative(ins) == ins.op \in {"jcc", "ja", "long"} \/ (ins.op \in {"call", "ldfn"} /\ ins.ref = "")
SiteIsFunction(ins) == ins.op \in {"call", "ldfn"}
Delta(ins) == IF SiteIsFunction(ins) \/ ins.op = "long" THEN ins.imm ELSE ins.off
Numeric(i, ins) == i + 1 + Delta(ins)

\* The instructions the transform can move.
relocTarget(k, i) ==
    LET ins == k.code[i]
        t   == IF ins.ref = "" THEN {Numeric(i, ins)} ELSE Defined(k, ins.ref)
    IN  CASE ins.op = "ldfn" -> /\ Cardinality(t) = 1 /\ t \subseteq Boundaries(k)
                                /\ t \subseteq k.funcs \ {1} /\ (ins.ref # "" => ins.imm = -1)
          [] ins.op = "call" -> IF ins.ref # "" THEN ins.imm = -1 ELSE t \subseteq Boundaries(k)
          [] ins.op \in {"jcc", "ja"} -> t \subseteq Boundaries(k)
          [] ins.op \in {"long", "indirect"} -> FALSE
          [] OTHER -> ins.ref = ""

\* Everything after the load moves; a branch to the next one skips the call.
siteMapped(k, pc) == IF pc > k.site THEN pc + insertSlots ELSE pc

Encodes(ins, delta) == SiteIsFunction(ins) \/ delta \in (-SiteMaxJump - 1)..SiteMaxJump
siteRelocateOffset(ins, pc, target) ==
    IF SiteIsFunction(ins) THEN [ins EXCEPT !.imm = target - pc - 1]
    ELSE [ins EXCEPT !.off = target - pc - 1]

At(k, pc) == IF pc > k.site THEN pc + insertSlots ELSE pc

SiteMoved(k, i) ==
    LET ins == k.code[i]
    IN  [ins |-> IF SiteRelative(ins) THEN siteRelocateOffset(ins, At(k, i), siteMapped(k, Numeric(i, ins))) ELSE ins,
         old |-> IF ins.op = "pad" THEN 0 ELSE i]

SiteFits(k, i) ==
    LET ins == k.code[i]
    IN  SiteRelative(ins) => Encodes(ins, siteMapped(k, Numeric(i, ins)) - At(k, i) - 1)

insert(k) ==
    LET slot == spillSlots(k.lowest)
    IN  <<SiteStore(slot.r0, 0), SiteStore(slot.val, valueReg), SiteI("movi", siteReg, 0, 0, k.site),
          SiteCallLabel(k.hook), SiteLoad(0, slot.r0), SiteLoad(valueReg, slot.val)>>

New(code0) == [n \in DOMAIN code0 |-> [ins |-> code0[n], old |-> 0]]

appendHook == <<SiteI("mov32", 0, siteReg, 0, 0), SiteI("xor", 0, valueReg, 0, 0), SiteI("exit", 0, 0, 0, 0)>>

Spliceable(k) ==
    /\ k.site \in Boundaries(k) /\ Next1(k, k.site) \in Boundaries(k)
    /\ checkShape(k, k.site)
    /\ spillSlots(k.lowest).val >= SiteStackBottom
    /\ \A i \in Boundaries(k) : relocTarget(k, i) /\ SiteFits(k, i)

siteSplice(k) ==
    LET out == [i \in DOMAIN k.code |-> SiteMoved(k, i)]
    IN  SubSeq(out, 1, k.site) \o New(insert(k)) \o SubSeq(out, k.site + 1, Len(out)) \o New(appendHook)

Accepted(k) ==
    /\ validateRequest(k) /\ checkNoCollision(k) /\ checkReferences(k) /\ checkExtInfo(k)
    /\ checkStackBound(k) /\ Spliceable(k)

-----------------------------------------------------------------------------
(* The check of the new code.                                               *)

HookStart(c) == Len(c) - Len(appendHook) + 1
\* What a name stands for in the new code.
Named(k, c, name) ==
    {j \in DOMAIN c : c[j].old \in Defined(k, name)} \union (IF name = k.hook THEN {HookStart(c)} ELSE {})
SiteOriginal(k, i) == IF k.code[i].ref = "" THEN {Numeric(i, k.code[i])} ELSE Defined(k, k.code[i].ref)
TargetIn(k, c, j) == IF c[j].ins.ref = "" THEN {Numeric(j, c[j].ins)} ELSE Named(k, c, c[j].ins.ref)

SiteEdge(ins) == ins.op \in {"jcc", "ja", "long", "call", "ldfn"}
SiteSuccessors(k, i) ==
    (IF k.code[i].op \in {"jcc", "ja", "long"} THEN SiteOriginal(k, i) ELSE {})
    \union (IF k.code[i].op \in {"ja", "long", "exit"} THEN {} ELSE {Next1(k, i)})

siteReads(ins) ==
    CASE ins.op \in {"mov", "mov32", "ldx"} -> {ins.src}
      [] ins.op \in {"add", "jcc"} -> {ins.dst}
      [] ins.op \in {"st", "xor"} -> {ins.dst, ins.src}
      [] ins.op = "exit" -> {0}
      [] OTHER -> {}
siteWrites(ins) ==
    CASE ins.op \in {"mov", "mov32", "movi", "add", "ldx", "ldimm", "ldfn", "xor"} -> {ins.dst}
      [] ins.op = "call" -> 0..5
      [] OTHER -> {}

siteLiveness(k) ==
    LET pass(live, n) == [i \in Boundaries(k) |->
            LET after == UNION {live[j] : j \in SiteSuccessors(k, i) \cap Boundaries(k)}
                own == IF k.code[i].op # "call" THEN siteReads(k.code[i])
                       ELSE UNION {live[t] \cap 1..5 : t \in SiteOriginal(k, i)}
            IN  own \union (after \ siteWrites(k.code[i]))]
    IN  FoldLeft(pass, [i \in Boundaries(k) |-> {}], [n \in 1..(2 * Len(k.code)) |-> n])

u32Clobbers == {1, 3, 4, 5}

clobbers(live) == live \cap u32Clobbers # {}

siteMove(ins) == ins.op = "movi" /\ ins.dst = siteReg

\* The six instructions after the load, the call to the plan's u32 hook.
checkU32(k, c, is) ==
    LET f == k.lowest - (k.lowest % 8)
    IN  /\ ~clobbers(siteLiveness(k)[Next1(k, k.site)])
        /\ f - 16 >= SiteStackBottom /\ Len(is) = insertSlots
        /\ is[1] = SiteStore(f - 8, 0) /\ is[2] = SiteStore(f - 16, valueReg)
        /\ siteMove(is[3])
        /\ is[4].op = "call" /\ Named(k, c, is[4].ref) = {HookStart(c)}
        /\ is[5] = SiteLoad(0, f - 8) /\ is[6] = SiteLoad(valueReg, f - 16)
        /\ SubSeq(c, HookStart(c), Len(c)) = New(appendHook)

Place(c, i) == CHOOSE j \in DOMAIN c : c[j].old = i

SiteSameOriginal(k, c, i) ==
    LET a == k.code[i]
        b == c[Place(c, i)].ins
    IN  IF ~SiteEdge(a) THEN a = b
        ELSE /\ [a EXCEPT !.off = 0, !.imm = 0] = [b EXCEPT !.off = 0, !.imm = 0]
             /\ \A t \in SiteOriginal(k, i) : TargetIn(k, c, Place(c, i)) = {Place(c, t)}

\* Inserted slots, without the hook: between the load and the next original.
SiteInserted(k, c) ==
    SelectSeq([j \in 1..(HookStart(c) - 1) |-> j], LAMBDA j : c[j].old = 0 /\ c[j].ins.op # "pad")

SiteCheck(k, c) ==
    LET gap == SiteInserted(k, c)
    IN  /\ \A i \in Boundaries(k) : SiteSameOriginal(k, c, i)
        /\ gap = [n \in 1..insertSlots |-> Place(c, k.site) + n]
        /\ checkU32(k, c, [n \in DOMAIN gap |-> c[gap[n]].ins])

-----------------------------------------------------------------------------
(* Running a program.                                                       *)

SiteVal(kind, n) == [k |-> kind, n |-> n]
SiteUndefined == SiteVal("undefined", 0)
FP == SiteVal("frame", 0)
SiteEntered == [pc |-> 1, stack |-> {}, frames |-> <<>>,
                regs |-> [r \in 0..SiteRFP |-> IF r = SiteRFP THEN FP ELSE IF r = 1 THEN SiteVal("ctx", 0) ELSE SiteUndefined]]

SiteWritten(stack, at, w, v) ==
    {c \in stack : c.at + c.w <= at \/ at + w <= c.at} \union {[at |-> at, w |-> w, v |-> v]}
SiteCell(stack, at, w) == {c \in stack : c.at = at /\ c.w = w}

Loaded(m, ins) ==
    IF ins.src # SiteRFP THEN SiteVal("mem", ins.off)
    ELSE IF SiteCell(m.stack, ins.off, ins.imm) = {} THEN SiteUndefined
    ELSE (CHOOSE c \in SiteCell(m.stack, ins.off, ins.imm) : TRUE).v

\* An instruction that falls through; to is the slot after it, fn a function.
Plain(m, ins, to, fn) ==
    LET set(v) == [m EXCEPT !.pc = to, !.regs[ins.dst] = v]
    IN  CASE ins.op \in {"mov", "mov32"} -> set(m.regs[ins.src])
          [] ins.op \in {"movi", "ldimm"} -> set(SiteVal(ins.op, ins.imm))
          [] ins.op = "ldfn" -> set(SiteVal("function", fn))
          [] ins.op \in {"add", "xor"} -> set(SiteVal("sum", 0))
          [] ins.op = "ldx" -> set(Loaded(m, ins))
          [] ins.op = "st" -> [m EXCEPT !.pc = to, !.stack = SiteWritten(@, ins.off, ins.imm, m.regs[ins.src])]

EnterLabel(m, to, back) ==
    [pc |-> to, stack |-> {}, frames |-> Append(m.frames, [back |-> back, regs |-> m.regs, stack |-> m.stack]),
     regs |-> [r \in 0..SiteRFP |-> IF r \in 1..5 \/ r = SiteRFP THEN m.regs[r] ELSE SiteUndefined]]
Return(m) ==
    IF m.frames = <<>> THEN [m EXCEPT !.pc = 0]
    ELSE LET f == Last(m.frames)
         IN  [pc |-> f.back, stack |-> f.stack, frames |-> Front(m.frames),
              regs |-> [r \in 0..SiteRFP |-> IF r = 0 THEN m.regs[0] ELSE IF r \in 1..5 THEN SiteUndefined ELSE f.regs[r]]]

\* One step; targets: where a branch or call goes; taken: what a test yields.
SiteStep(m, ins, next, target, fn, taken) ==
    CASE ins.op \in {"ja", "long"} -> [m EXCEPT !.pc = target]
      [] ins.op = "jcc" -> [m EXCEPT !.pc = IF taken THEN target ELSE next]
      [] ins.op = "call" -> EnterLabel(m, target, next)
      [] ins.op = "exit" -> Return(m)
      [] OTHER -> Plain(m, ins, next, fn)

SiteOne(S) == IF S = {} THEN 0 ELSE CHOOSE x \in S : TRUE
Reading(m, ins) == [r \in siteReads(ins) |-> m.regs[r]]

SiteInit ==
    /\ siteJob \in Jobs
    /\ status = "asked" /\ siteCode = <<>>
    /\ siteO = SiteEntered /\ siteS = SiteEntered /\ siteDue = <<>>

Transform ==
    /\ status = "asked"
    /\ IF Accepted(siteJob)
       THEN status' = "transformed" /\ siteCode' \in SiteTampered(siteSplice(siteJob))
       ELSE status' = "refused" /\ UNCHANGED siteCode
    /\ UNCHANGED <<siteJob, siteO, siteS, siteDue>>

CheckStep ==
    /\ status = "transformed"
    /\ status' = IF SiteCheck(siteJob, siteCode) THEN "checked" ELSE "rejected"
    /\ UNCHANGED <<siteJob, siteCode, siteO, siteS, siteDue>>

SiteHere == siteCode[siteS.pc]
SiteRunning == status = "checked" /\ siteS.pc \in DOMAIN siteCode /\ Len(siteS.frames) <= 2
NextIn(j) == IF siteCode[j].ins.op \in {"ldimm", "ldfn"} THEN j + 2 ELSE j + 1

\* The new program takes a step of inserted code, hook included.
StepInserted ==
    /\ SiteRunning /\ SiteHere.old = 0
    /\ siteS' = SiteStep(siteS, SiteHere.ins, NextIn(siteS.pc), SiteOne(TargetIn(siteJob, siteCode, siteS.pc)), 0, FALSE)
    /\ siteDue' = IF SiteHere.ins.op = "call" /\ siteDue # <<>> THEN Tail(siteDue) ELSE siteDue
    /\ UNCHANGED <<siteJob, status, siteCode, siteO>>

\* Both take a step of the original.
StepBoth ==
    /\ SiteRunning /\ SiteHere.old # 0 /\ SiteHere.old = siteO.pc
    /\ \A r \in siteReads(siteJob.code[siteO.pc]) : siteO.regs[r] # SiteUndefined
    /\ \E taken \in BOOLEAN :
          LET t == SiteOne(TargetIn(siteJob, siteCode, siteS.pc))
              fn == IF t \in DOMAIN siteCode THEN siteCode[t].old ELSE 0
          IN  /\ taken => siteJob.code[siteO.pc].op = "jcc"
              /\ siteO' = SiteStep(siteO, siteJob.code[siteO.pc], Next1(siteJob, siteO.pc), SiteOne(SiteOriginal(siteJob, siteO.pc)), SiteOne(SiteOriginal(siteJob, siteO.pc)), taken)
              /\ siteS' = SiteStep(siteS, SiteHere.ins, NextIn(siteS.pc), t, fn, taken)
    /\ siteDue' = IF siteO.pc = siteJob.site THEN Append(siteDue, siteO'.regs[valueReg]) ELSE siteDue
    /\ UNCHANGED <<siteJob, status, siteCode>>

SiteNext == Transform \/ CheckStep \/ StepInserted \/ StepBoth

SiteSpec == SiteInit /\ [][SiteNext]_siteVars

-----------------------------------------------------------------------------
(* Transform and the check: the new program goes through the original's     *)
(* instructions in the original's order, and each reads in its registers    *)
(* and stack slots what it reads in the original.                           *)
SiteSameExecution ==
    SiteRunning /\ SiteHere.old # 0 =>
        /\ SiteHere.old = siteO.pc
        /\ (\A r \in siteReads(siteJob.code[siteO.pc]) : siteO.regs[r] # SiteUndefined)
              => Reading(siteS, SiteHere.ins) = Reading(siteO, siteJob.code[siteO.pc])

(* The hook: called once for each time the load runs and at no other time,  *)
(* with the value it loaded; a branch to the next instruction skips it.     *)
HookSeesEachLoad ==
    SiteRunning =>
        /\ SiteHere.old = 0 /\ SiteHere.ins.op = "call" => siteDue # <<>> /\ siteS.regs[valueReg] = Head(siteDue)
        /\ SiteHere.old # 0 => siteDue = <<>>

(* checkReferences: "stops the appended hook from silently satisfying a     *)
(* previously unresolved call".  Whatever Transform accepts, a name stands  *)
(* for the same function in the new code as in the original.                *)
NamesKeepTheirMeaning ==
    status = "transformed" =>
        \A i \in Boundaries(siteJob) : SiteIsFunction(siteJob.code[i]) /\ siteJob.code[i].ref # "" =>
            \E t \in Boundaries(siteJob) : /\ SiteOriginal(siteJob, i) = {t}
                                           /\ Named(siteJob, siteCode, siteJob.code[i].ref) = {Place(siteCode, t)}

(* Transform and pkg/injectcheck agree: the check rejects what Transform    *)
(* made only when the caller was wrong that R3 to R5 are dead.              *)
RejectsOnlyLiveRegisters ==
    status = "rejected" /\ siteCode = siteSplice(siteJob) => siteLiveness(siteJob)[Next1(siteJob, siteJob.site)] \cap 3..5 # {}
=============================================================================
