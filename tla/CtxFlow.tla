------------------------------ MODULE CtxFlow ------------------------------
(***************************************************************************)
(* Where a function holds the program context (internal/ctxflow).          *)
(*                                                                         *)
(* Before it splices a hook the rewriter needs a register or stack slot    *)
(* that holds the program's context at the call.  ctxflow.go and analyze   *)
(* of prove.go follow the context through one function: a worklist over    *)
(* abstract states, one instruction a step.  The same function is then     *)
(* executed, with everything a callee may do to the frame, and what the    *)
(* analysis claims at an instruction is compared with what is there.       *)
(*                                                                         *)
(* A value is the context, a number, a pointer into this frame, a function *)
(* pointer, or an alias: memory of this frame that a helper handed back    *)
(* and that the verifier takes for a plain buffer.                         *)
(***************************************************************************)
EXTENDS Integers, Sequences, FiniteSets, SequencesExt, TLC

CONSTANTS
    FlowCode,       \* the functions, sequences of instructions
    CallbacksOf(_), \* what the callback a function loads may be: [static, elsewhere]
    CtxParams,      \* the argument registers that may hold the context
    FlowFrameBytes,     \* the frame, 512 in the kernel
    FnPtrElsewhere, \* whether another function loads a function pointer
    FlowMaxLoops        \* backward jumps on one path

FlowRFP == 10
FlowRegs == {0, 1, 2, 3, 6}
Args == {1, 2, 3}
Scratch == {0, 1, 2, 3}
Slots == {-8 * i : i \in 1..(FlowFrameBytes \div 8)}

VARIABLES
    flowCode, flowParam,
    flowCallback,       \* the callback: a static function; loaded by another function too
    flowPhase,          \* "analyze", "run" or "done"
    refused,        \* why the analysis gave up, "" if it did not
    in, flowWork,       \* the abstract state before each instruction, the worklist
    flowPc, flowRegs, flowSlots,\* execution
    lent,           \* frame offsets helpers were given so far
    flowLoops

flowVars == <<flowCode, flowParam, flowCallback, flowPhase, refused, in, flowWork, flowPc, flowRegs, flowSlots, lent, flowLoops>>

Min2(a, b) == IF a < b THEN a ELSE b

-----------------------------------------------------------------------------
(* ctxflow.go: abstract values, ordered by t.                               *)

Other == [t |-> 0, off |-> 0]
FlowValue == [t |-> 1, off |-> 0]
Func  == [t |-> 2, off |-> 0]
Frame(o) == [t |-> 3, off |-> o]
Unknown == [t |-> 4, off |-> 0]

joinCtx(a, b) ==
    IF a = b THEN a
    ELSE IF a.t <= FlowValue.t /\ b.t <= FlowValue.t THEN Other
    ELSE IF a.t <= Func.t /\ b.t <= Func.t THEN Func
    ELSE Unknown

join(s, o) ==
    [regs  |-> [r \in FlowRegs |-> joinCtx(s.regs[r], o.regs[r])],
     slots |-> [l \in Slots |-> joinCtx(s.slots[l], o.slots[l])],
     floor |-> Min2(s.floor, o.floor)]

reg(s, r) == IF r = FlowRFP THEN Frame(0) ELSE s.regs[r]

set(s, r, k) == IF r = FlowRFP THEN s ELSE [s EXCEPT !.regs[r] = k]

fill(s, lo, hi, k) ==
    [s EXCEPT !.slots = [l \in Slots |-> IF l < hi /\ lo < l + 8 THEN k ELSE @[l]]]

clobber(s, lo) ==
    [s EXCEPT !.slots = [l \in Slots |-> IF lo < l + 8 THEN joinCtx(@[l], Other) ELSE @[l]]]

store(s, base, off, size, k) ==
    LET at == base.off + off
    IN  CASE base.t = 3 ->
               IF at \in Slots /\ size = 8 THEN [s EXCEPT !.slots[at] = k]
               ELSE fill(s, at, at + size, IF k.t = Unknown.t THEN k ELSE Other)
          [] base.t = 4 -> fill(s, -FlowFrameBytes, 0, Unknown)
          [] OTHER -> clobber(s, s.floor)

stepAdd(s, ins) ==
    LET d == reg(s, ins.dst)
        off == d.off + ins.imm
    IN  IF ins.op = "add" /\ d.t = 3
        THEN IF off >= -FlowFrameBytes /\ off <= 0 THEN Frame(off) ELSE Unknown
        ELSE IF d.t >= Func.t \/ (ins.op = "addreg" /\ reg(s, ins.src).t >= Func.t) THEN Unknown
        ELSE Other

stepLoad(s, ins) ==
    LET base == reg(s, ins.src)
    IN  IF base = Unknown THEN Unknown
        ELSE IF base.t = 3 /\ base.off + ins.off \in Slots /\ ins.size = 8
        THEN s.slots[base.off + ins.off]
        ELSE Other

stepAtomic(s, ins) ==
    LET loaded == IF reg(s, ins.dst).t >= 3 \/ reg(s, ins.src).t >= 3 THEN Unknown ELSE Other
        Loaded(t, r) == set(t, r, joinCtx(reg(t, r), loaded))
    IN  FoldLeft(Loaded, store(s, reg(s, ins.dst), ins.off, 8, Unknown), <<0, ins.src, ins.dst>>)

step(s, ins) ==
    CASE ins.op = "mov" -> set(s, ins.dst, reg(s, ins.src))
      [] ins.op \in {"add", "addreg"} -> set(s, ins.dst, stepAdd(s, ins))
      [] ins.op = "alu" -> set(s, ins.dst, Other)
      [] ins.op = "ldx" -> set(s, ins.dst, stepLoad(s, ins))
      [] ins.op = "ldfn" -> set(s, ins.dst, Func)
      [] ins.op = "ldabs" -> [s EXCEPT !.regs = [r \in FlowRegs |-> IF r \in Scratch THEN Other ELSE @[r]]]
      [] ins.op = "st" -> store(s, reg(s, ins.dst), ins.off, ins.size, Other)
      [] ins.op = "stx" -> store(s, reg(s, ins.dst), ins.off, ins.size,
                                 IF ins.size = 8 THEN reg(s, ins.src) ELSE Other)
      [] OTHER -> stepAtomic(s, ins)

call(s, helper, writeFree) ==
    LET callback == \E r \in Args : s.regs[r] \in {Func, Unknown}
        exposed  == {r \in Args : s.regs[r].t >= 3}
        los      == {IF s.regs[r].t = 3 THEN s.regs[r].off ELSE -FlowFrameBytes : r \in exposed}
        floor    == IF helper THEN CHOOSE m \in los \union {s.floor} :
                                      \A n \in los \union {s.floor} : m <= n
                    ELSE s.floor
        lowered  == clobber([s EXCEPT !.floor = floor], floor)
        written  == IF exposed # {} /\ ((helper /\ callback) \/ (~helper /\ ~writeFree))
                    THEN fill(lowered, -FlowFrameBytes, 0, Unknown) ELSE lowered
        result   == IF helper THEN Other
                    ELSE IF exposed # {} THEN Unknown
                    ELSE IF callback \/ FnPtrElsewhere THEN Func ELSE Other
    IN  [written EXCEPT !.regs = [r \in FlowRegs |->
            IF r = 0 THEN result ELSE IF r \in Scratch THEN Other ELSE @[r]]]

-----------------------------------------------------------------------------
(* prove.go: analyze, one instruction taken off the worklist a step.        *)

BpfFunctions == {"pure", "writer", "callback"}

FlowJump(ins) == ins.op \in {"jcc", "ja"}

FlowTarget(i) == i + 1 + flowCode[i].off

Successors(i) ==
    CASE flowCode[i].op = "exit" -> <<>>
      [] flowCode[i].op = "ja"   -> <<FlowTarget(i)>>
      [] flowCode[i].op = "jcc"  -> <<FlowTarget(i), i + 1>>
      [] OTHER               -> <<i + 1>>

\* bpf_get_smp_processor_id leaves its argument registers alone.
Transfer(s, ins) ==
    CASE ins.op \in {"jcc", "ja", "exit"} -> s
      [] ins.op = "call" ->
           LET after == call(s, ins.fn \notin BpfFunctions, ins.fn = "pure")
           IN  IF ins.fn # "smp_id" THEN after
               ELSE [after EXCEPT !.regs = [r \in FlowRegs |->
                        IF r \in Args THEN joinCtx(s.regs[r], Other) ELSE @[r]]]
      [] OTHER -> step(s, ins)

merge(acc, t, s) ==
    LET joined == IF t \in DOMAIN acc.in THEN join(acc.in[t], s) ELSE s
    IN  IF t \in DOMAIN acc.in /\ joined = acc.in[t] THEN acc
        ELSE [in   |-> [i \in DOMAIN acc.in \union {t} |-> IF i = t THEN joined ELSE acc.in[i]],
              work |-> Append(acc.work, t)]

GiveUp(why) ==
    /\ refused' = why
    /\ flowPhase' = "done"
    /\ UNCHANGED <<in, flowWork>>

analyze ==
    /\ flowPhase = "analyze" /\ flowWork # <<>>
    /\ LET i == Last(flowWork)
           after == Transfer(in[i], flowCode[i])
           next == Successors(i)
       IN  IF flowCode[i].op \in {"st", "stx"} /\ flowCode[i].dst = 11
           THEN GiveUp("function passes a stack argument through r11")
           ELSE IF flowCode[i].op = "jindirect"
           THEN GiveUp("the indirect jump is not followed")
           ELSE IF \E k \in DOMAIN next : next[k] \notin DOMAIN flowCode
           THEN GiveUp("control leaves the function")
           ELSE LET end == FoldLeft(LAMBDA acc, t : merge(acc, t, after),
                                    [in |-> in, work |-> Front(flowWork)], next)
                IN  in' = end.in /\ flowWork' = end.work /\ UNCHANGED <<flowPhase, refused>>

Proved ==
    /\ flowPhase = "analyze" /\ flowWork = <<>>
    /\ flowPhase' = "run"
    /\ UNCHANGED <<refused, in, flowWork>>

(* HeldAt: the context in a callee-saved register, else in the shallowest   *)
(* slot; 0 when neither.                                                    *)
HeldAt(i) ==
    IF in[i].regs[6] = FlowValue THEN 6
    ELSE LET held == {l \in Slots : in[i].slots[l] = FlowValue}
         IN  IF held = {} THEN 0 ELSE CHOOSE l \in held : \A m \in held : m <= l

-----------------------------------------------------------------------------
(* callback.go: the helper a function pointer goes to and the R10 offset of *)
(* its context argument, found in straight-line code.                       *)

writesImplicitly(ins) == ins.op \in {"atomic", "ldabs"}

UsesR2(ins) ==
    \/ ins.dst = 2 /\ ins.op # "call"
    \/ ins.src = 2 /\ ins.op # "ldfn"
    \/ writesImplicitly(ins)

CallAfter(i) ==
    LET calls == {j \in DOMAIN flowCode : j > i /\ flowCode[j].op = "call"}
    IN  IF calls = {} THEN 0 ELSE CHOOSE j \in calls : \A k \in calls : j <= k

ContextFrom(callAt) ==
    LET sets == {j \in DOMAIN flowCode : j < callAt /\ flowCode[j].op = "mov"
                                         /\ flowCode[j].dst = 3 /\ flowCode[j].src = FlowRFP}
    IN  IF sets = {} THEN 0 ELSE CHOOSE j \in sets : \A k \in sets : j >= k

StraightBetween(from, callAt) ==
    \A j \in (from + 1)..(callAt - 1) :
        /\ ~FlowJump(flowCode[j]) /\ flowCode[j].op # "call" /\ flowCode[j].op # "exit"
        /\ ~writesImplicitly(flowCode[j])
        /\ flowCode[j].dst = 3 => flowCode[j].op \in {"add", "st", "stx"}

landingIn(from, callAt) ==
    \E j \in DOMAIN flowCode : FlowJump(flowCode[j]) /\ FlowTarget(j) > from /\ FlowTarget(j) <= callAt

ArgOffset(from, callAt) ==
    LET Plus(n, j) == IF flowCode[j].op = "add" /\ flowCode[j].dst = 3 THEN n + flowCode[j].imm ELSE n
    IN  FoldLeft(Plus, 0, SubSeq([j \in DOMAIN flowCode |-> j], from + 1, callAt - 1))

NoCallback == [helper |-> "", arg |-> 0]
NoUse == [call |-> 0, from |-> 0, callback |-> NoCallback]

\* The register the callback receives its context in.
Param(callback) == IF callback.helper = "loop" THEN 2 ELSE 4

CallbackCall(i) ==
    LET c == CallAfter(i)
        f == ContextFrom(c)
    IN  IF /\ flowCode[i].dst = 2 /\ c # 0 /\ f # 0
           /\ \A j \in (i + 1)..(c - 1) : ~FlowJump(flowCode[j]) /\ flowCode[j].op # "exit" /\ ~UsesR2(flowCode[j])
           /\ flowCode[c].fn \in {"loop", "foreach"}
           /\ StraightBetween(f, c)
           /\ ArgOffset(f, c) <= -8 /\ ArgOffset(f, c) >= -FlowFrameBytes
        THEN [call |-> c, from |-> f, callback |-> [helper |-> flowCode[c].fn, arg |-> ArgOffset(f, c)]]
        ELSE NoUse

Refs == {i \in DOMAIN flowCode : flowCode[i].op = "ldfn"}
CalledDirectly == \E i \in DOMAIN flowCode : flowCode[i].op = "call" /\ flowCode[i].fn = "callback"

UseProved(use) ==
    /\ use # NoUse
    /\ ~landingIn(use.from, use.call)
    /\ use.call \in DOMAIN in
    /\ in[use.call].regs[3] = Frame(use.callback.arg)

\* Mutant: each use is proved, whether or not they agree.
proveCallbackAnyUse ==
    IF /\ flowCallback.static /\ ~CalledDirectly /\ refused = "" /\ ~flowCallback.elsewhere
       /\ Refs # {} /\ \A i \in Refs : UseProved(CallbackCall(i))
    THEN CallbackCall(CHOOSE i \in Refs : \A j \in Refs : i <= j).callback
    ELSE NoCallback

\* The context premise of the callback, over every load of its pointer.
proveCallback ==
    IF /\ flowCallback.static /\ ~CalledDirectly /\ refused = "" /\ ~flowCallback.elsewhere
       /\ Refs # {} /\ \A i \in Refs : UseProved(CallbackCall(i))
       /\ \A i, j \in Refs : CallbackCall(i).callback = CallbackCall(j).callback
    THEN CallbackCall(CHOOSE i \in Refs : TRUE).callback
    ELSE NoCallback

-----------------------------------------------------------------------------
(* Execution.                                                               *)

Ctx == [k |-> "ctx", off |-> 0]
Num == [k |-> "num", off |-> 0]
Fn  == [k |-> "fn", off |-> 0]
OtherFn == [k |-> "fn", off |-> 1]
Ptr(o) == [k |-> "frame", off |-> o]
Alias(o) == [k |-> "alias", off |-> o]

FlowIns == flowCode[flowPc]
FlowRunning == flowPhase = "run" /\ flowPc \in DOMAIN flowCode

Val(r) == IF r = FlowRFP THEN Ptr(0) ELSE flowRegs[r]

FlowSetReg(r, v) == flowRegs' = IF r = FlowRFP THEN flowRegs ELSE [flowRegs EXCEPT ![r] = v]

Step1 == flowPc' = flowPc + 1

Stop == flowPc' = 0 /\ UNCHANGED <<flowRegs, flowSlots>>

FlowRunALU ==
    /\ FlowRunning /\ FlowIns.op \in {"mov", "add", "addreg", "alu", "ldfn"}
    /\ \E v \in CASE FlowIns.op = "mov"  -> {Val(FlowIns.src)}
                  [] FlowIns.op = "ldfn" -> {Fn}
                  [] FlowIns.op = "add" /\ Val(FlowIns.dst).k \in {"frame", "alias"} ->
                       {[Val(FlowIns.dst) EXCEPT !.off = @ + FlowIns.imm]}
                  [] FlowIns.op = "addreg" /\ Val(FlowIns.dst).k = "frame" -> {Ptr(l) : l \in Slots}
                  [] OTHER -> {Num} :
           FlowSetReg(FlowIns.dst, v)
    /\ Step1 /\ UNCHANGED flowSlots

At(v) == v.off + FlowIns.off

FlowRunLoad ==
    /\ FlowRunning /\ FlowIns.op = "ldx"
    /\ IF Val(FlowIns.src).k = "frame" /\ (At(Val(FlowIns.src)) < -FlowFrameBytes \/ At(Val(FlowIns.src)) >= 0)
       THEN Stop
       ELSE /\ FlowSetReg(FlowIns.dst, IF Val(FlowIns.src).k = "frame" /\ At(Val(FlowIns.src)) \in Slots /\ FlowIns.size = 8
                                       THEN flowSlots[At(Val(FlowIns.src))] ELSE Num)
            /\ Step1 /\ UNCHANGED flowSlots

\* The slots bytes [at, at + size) overlap.
Hit(at, size) == {l \in Slots : l < at + size /\ at < l + 8}

FlowRunStore ==
    /\ FlowRunning /\ FlowIns.op \in {"st", "stx"} /\ FlowIns.dst # 11
    /\ LET base == Val(FlowIns.dst)
           new  == IF FlowIns.op = "stx" /\ FlowIns.size = 8 THEN Val(FlowIns.src) ELSE Num
       IN  CASE base.k = "frame" ->
                  IF At(base) < -FlowFrameBytes \/ At(base) + FlowIns.size > 0 THEN Stop
                  ELSE /\ flowSlots' = [l \in Slots |->
                            IF l \notin Hit(At(base), FlowIns.size) THEN flowSlots[l]
                            ELSE IF FlowIns.size = 8 /\ l = At(base) THEN new ELSE Num]
                       /\ Step1 /\ UNCHANGED flowRegs
             [] base.k = "alias" ->
                  /\ \E l \in {m \in Slots : m >= base.off} : flowSlots' = [flowSlots EXCEPT ![l] = Num]
                  /\ Step1 /\ UNCHANGED flowRegs
             [] OTHER -> Step1 /\ UNCHANGED <<flowRegs, flowSlots>>

RunAtomic ==
    /\ FlowRunning /\ FlowIns.op = "atomic"
    /\ LET base == Val(FlowIns.dst)
       IN  IF base.k = "frame" /\ At(base) \in Slots
           THEN /\ flowSlots' = [flowSlots EXCEPT ![At(base)] = Num]
                /\ \E old \in {Num, flowSlots[At(base)]} : FlowSetReg(FlowIns.src, old)
                /\ Step1
           ELSE IF base.k = "frame" THEN Stop
           ELSE FlowSetReg(FlowIns.src, Num) /\ Step1 /\ UNCHANGED flowSlots

RunLdAbs ==
    /\ FlowRunning /\ FlowIns.op = "ldabs"
    /\ flowRegs' = [r \in FlowRegs |-> IF r \in Scratch THEN Num ELSE flowRegs[r]]
    /\ Step1 /\ UNCHANGED flowSlots

FlowRunJump ==
    /\ FlowRunning /\ FlowJump(FlowIns)
    /\ \/ /\ flowPc' = FlowTarget(flowPc)
          /\ flowLoops' = IF FlowTarget(flowPc) <= flowPc THEN flowLoops + 1 ELSE flowLoops
          /\ flowLoops' <= FlowMaxLoops
       \/ FlowIns.op = "jcc" /\ flowPc' = flowPc + 1 /\ UNCHANGED flowLoops
    /\ UNCHANGED <<flowRegs, flowSlots, lent>>

FlowRunExit ==
    /\ FlowRunning /\ FlowIns.op = "exit"
    /\ flowPc' = 0
    /\ UNCHANGED <<flowRegs, flowSlots>>

\* What a call may do to the frame: a helper writes numbers forward of what
\* it was ever lent, a callee or callback with a pointer anything anywhere.
Writes(targets, values) ==
    {[l \in Slots |-> IF l \in hit THEN v ELSE flowSlots[l]] :
        hit \in SUBSET targets, v \in values}

FlowRunCall ==
    /\ FlowRunning /\ FlowIns.op = "call"
    /\ LET ptrs     == {r \in Args : flowRegs[r].k \in {"frame", "alias"}}
           offs     == {flowRegs[r].off : r \in ptrs}
           function == FlowIns.fn \in BpfFunctions
           runs     == ~function /\ \E r \in Args : flowRegs[r].k = "fn"
           lentNow  == IF function THEN lent ELSE lent \union offs
           forward  == {l \in Slots : \E o \in lentNow : l + 8 > o}
           frames   == {flowRegs[r] : r \in {q \in ptrs : flowRegs[q].k = "frame"}}
       IN  /\ flowSlots' \in
                IF FlowIns.fn = "pure" \/ FlowIns.fn = "smp_id" THEN {flowSlots}
                ELSE IF frames # {} /\ (function \/ runs) THEN Writes(Slots, {Num} \union frames)
                ELSE IF function THEN {flowSlots}
                ELSE Writes(forward, {Num})
           /\ lent' = lentNow
           /\ \E r0 \in {Num} \union {Alias(o) : o \in IF function THEN {} ELSE offs}
                        \union (IF function THEN frames ELSE {})
                        \union (IF ~function \/ ~FnPtrElsewhere THEN {}
                                ELSE {IF flowCallback.elsewhere THEN Fn ELSE OtherFn}) :
                 flowRegs' = [r \in FlowRegs |-> IF r = 0 THEN r0
                                                 ELSE IF r \in Args /\ FlowIns.fn # "smp_id" THEN Num
                                                 ELSE flowRegs[r]]
           /\ Step1

FlowInit ==
    /\ flowCode \in FlowCode
    /\ flowParam \in CtxParams
    /\ flowCallback \in CallbacksOf(flowCode)
    /\ flowPhase = "analyze" /\ refused = ""
    /\ in = 1 :> [regs  |-> [r \in FlowRegs |-> IF r = flowParam THEN FlowValue ELSE Other],
                  slots |-> [l \in Slots |-> Other], floor |-> 0]
    /\ flowWork = <<1>>
    /\ flowPc = 1
    /\ flowRegs = [r \in FlowRegs |-> IF r = flowParam THEN Ctx ELSE Num]
    /\ flowSlots = [l \in Slots |-> Num]
    /\ lent = {} /\ flowLoops = 0

FlowNext ==
    \/ (analyze \/ Proved) /\ UNCHANGED <<flowCode, flowParam, flowCallback, flowPc, flowRegs, flowSlots, lent, flowLoops>>
    \/ /\ \/ FlowRunJump
          \/ FlowRunCall /\ UNCHANGED flowLoops
          \/ /\ FlowRunALU \/ FlowRunLoad \/ FlowRunStore \/ RunAtomic \/ RunLdAbs \/ FlowRunExit
             /\ UNCHANGED <<lent, flowLoops>>
       /\ UNCHANGED <<flowCode, flowParam, flowCallback, flowPhase, refused, in, flowWork>>

FlowSpec == FlowInit /\ [][FlowNext]_flowVars

-----------------------------------------------------------------------------
(* analyze and HeldAt: wherever an execution stands, a register or slot the *)
(* proof says holds the context does hold it, and a register it places in   *)
(* the frame points there.  The hook spliced at a site reads its context    *)
(* from what HeldAt names.                                                  *)
HeldIsContext ==
    FlowRunning =>
        /\ \A r \in FlowRegs : in[flowPc].regs[r] = FlowValue => flowRegs[r] = Ctx
        /\ \A l \in Slots : in[flowPc].slots[l] = FlowValue => flowSlots[l] = Ctx
        /\ \A r \in FlowRegs : in[flowPc].regs[r].t = 3 => flowRegs[r] = Ptr(in[flowPc].regs[r].off)
        /\ HeldAt(flowPc) # 0 => Ctx = (IF HeldAt(flowPc) = 6 THEN flowRegs[6] ELSE flowSlots[HeldAt(flowPc)])

\* The contexts a call gives the callback: as the helper that runs it, called
\* directly, or by a function that passes it a frame of its own.
ContextsGiven ==
    IF FlowIns.fn \in BpfFunctions
    THEN (IF FlowIns.fn = "callback" THEN {IF Param(proveCallback) = 2 THEN flowRegs[2] ELSE Num} ELSE {})
             \union (IF flowCallback.elsewhere THEN {Num} ELSE {})
    ELSE IF \E r \in Args : flowRegs[r] = Fn THEN {flowRegs[3]} ELSE {}

(* Whenever the helper found for a function pointer is called, by whatever  *)
(* path, its context argument is R10 plus the offset read off the           *)
(* straight-line code, which is all the offline checker looks at; and every *)
(* call that runs a callback proveCallback accepts gives it the context     *)
(* that was proved (callback.go).                                           *)
CallbackContextIsArg ==
    FlowRunning /\ FlowIns.op = "call" =>
        /\ \A i \in Refs :
              LET use == CallbackCall(i)
              IN  use.call = flowPc /\ ~landingIn(use.from, use.call)
                      => flowRegs[3] = Ptr(use.callback.arg) /\ UseProved(use)
        /\ proveCallback # NoCallback => ContextsGiven \subseteq {Ptr(proveCallback.arg)}
=============================================================================
