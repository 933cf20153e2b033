-------------------------- MODULE MCInjectAnalyses --------------------------
(***************************************************************************)
(* The analyses of a program that is about to be rewritten (pkg/inject):    *)
(* stack limits, frame depth, context flow, context proof, argument reads   *)
(* and site arguments.  They share no state; a behaviour is one of them on  *)
(* one program, and the others are at rest.                                 *)
(***************************************************************************)
EXTENDS StackLimits, StackFrame, CtxFlow, CtxProve, ArgReads, SiteArgs

-----------------------------------------------------------------------------
(* Limits: three functions whose frames straddle the kernel's limits.  A    *)
(* 448-byte frame takes slots and no callee, a 200-byte one leaves room for *)
(* one more frame below the caller-depth limit, and one shows more in its   *)
(* text than the verifier counts.  A chain of four frames is one too many.  *)
(*                                                                          *)
(* Tail: four functions of no stack, called in every order that puts the    *)
(* hook before, after or below a function that calls bpf_tail_call.         *)

LimitWalks == 1 :> {<<>>, <<2>>, <<2, 3>>, <<3, 2>>}
           @@ 2 :> {<<>>, <<3>>}
           @@ 3 :> {<<>>, <<2>>}
LimitProfiles ==
    {[real |-> 0, text |-> 0, floor |-> 0],
     [real |-> 200, text |-> 200, floor |-> 204],
     [real |-> 40, text |-> 440, floor |-> 120],
     [real |-> 448, text |-> 448, floor |-> 448]}
LimitSample ==
    [walks |-> LimitWalks, profiles |-> LimitProfiles, tails |-> {{}, {3}},
     sites |-> {{1}, {2}, {1, 2, 3}}, firsts |-> {TRUE}, bugs |-> {FALSE},
     callbacks |-> {0}, roundings |-> {16, 32}, frames |-> 3]
AsyncSample == [LimitSample EXCEPT !.tails = {{}}, !.callbacks = {3}, !.roundings = {16}]

TailWalks == 1 :> {<<2>>, <<2, 3>>, <<3, 2>>, <<2, 2>>}
          @@ 2 :> {<<>>, <<3>>, <<3, 4>>}
          @@ 3 :> {<<>>, <<4>>, <<4, 4>>}
          @@ 4 :> {<<>>}
TailSample ==
    [walks |-> TailWalks, profiles |-> {[real |-> 0, text |-> 0, floor |-> 0]},
     tails |-> {S \in SUBSET (1..4) : Cardinality(S) \in 1..2},
     sites |-> {{2}, {4}, {2, 3}, 1..4}, firsts |-> BOOLEAN, bugs |-> BOOLEAN,
     callbacks |-> {0}, roundings |-> {16}, frames |-> 8]
LimitsSamples == {LimitSample, AsyncSample, TailSample}

-----------------------------------------------------------------------------
(* Every function of four instructions over two registers: copies of R10,   *)
(* constant and variable additions, direct and indirect accesses, a spill,  *)
(* branches both ways and calls that do and do not take stack pointers.     *)

I(op, dst, src, off, imm) ==
    [op |-> op, dst |-> dst, src |-> src, off |-> off, imm |-> imm, fn |-> ""]

Call(fn) == [I("call", 0, 0, 0, 0) EXCEPT !.fn = fn]

MCVarOffsets == {-24, -64}

MCInsns ==
    {I("mov", 1, RFP, 0, 0), I("mov", 2, 1, 0, 0),
     I("movi", 1, 0, 0, 0), I("ldx", 2, 1, -8, 0),
     I("add", 1, 0, 0, -8), I("add", 2, 0, 0, -16), I("addreg", 1, 0, 0, 0),
     I("st", 1, 0, -8, 0), I("st", RFP, 0, -16, 0), I("stx", RFP, 1, -8, 0),
     I("atomic", 2, 0, -8, 0), I("atomic", RFP, 0, -24, 0),
     I("jcc", 1, 0, 1, 0), I("jcc", 1, 0, -3, 0),
     Call("lookup"), Call("function")}

-----------------------------------------------------------------------------
(* Flow: a start that spreads the context and frame pointers, then every    *)
(* three instructions over six registers and two slots.                     *)
(*                                                                          *)
(* Callback: a function pointer, a context argument and a bpf_loop call     *)
(* with every two instructions around them, branches into them included.    *)

FlowI(op, dst, src) == [op |-> op, dst |-> dst, src |-> src, off |-> 0, imm |-> 0, size |-> 8, fn |-> ""]
Add(dst, imm) == [FlowI("add", dst, 0) EXCEPT !.imm = imm]
Store(dst, src, off) == [FlowI("stx", dst, src) EXCEPT !.off = off]
Short(ins) == [ins EXCEPT !.size = 4]
Load(dst, src, off) == [FlowI("ldx", dst, src) EXCEPT !.off = off]
FlowCall(fn) == [FlowI("call", 0, 0) EXCEPT !.fn = fn]
J(op, off) == [FlowI(op, 9, 0) EXCEPT !.off = off]
FlowExit == FlowI("exit", 9, 9)

Starts ==
    {<<FlowI("mov", 6, 1)>>,
     <<Store(FlowRFP, 1, -8), FlowI("mov", 2, FlowRFP)>>,
     <<FlowI("mov", 6, 1), FlowI("mov", 2, FlowRFP), Add(2, -16), Store(FlowRFP, 1, -8)>>,
     <<Store(FlowRFP, 1, -8), FlowI("mov", 2, FlowRFP), Add(2, -8), Store(FlowRFP, 2, -16)>>}

FlowInsns ==
    {FlowI("mov", 6, 2), FlowI("mov", 1, 6), Add(2, -8), FlowI("addreg", 2, 0), FlowI("alu", 6, 6),
     FlowI("ldfn", 1, 9), Load(6, FlowRFP, -8), Load(2, FlowRFP, -16), Load(6, 2, 0),
     Store(2, 6, 0), Short(Store(FlowRFP, 6, -4)), Store(0, 3, 0), FlowI("atomic", 2, 6),
     J("jcc", 1), J("jcc", -3), FlowI("ldabs", 0, 9),
     FlowCall("helper"), FlowCall("smp_id"), FlowCall("pure"), FlowCall("writer")}

FlowLast ==
    {FlowI("mov", 1, 6), FlowI("ldfn", 1, 9), Load(6, 2, 0), Store(2, 6, 0), J("jcc", -3), FlowCall("writer")}

FlowPrograms == {s \o <<a, b, c, FlowExit>> : s \in Starts, a \in FlowInsns, b \in FlowInsns, c \in FlowLast}

CbInsns ==
    {FlowI("mov", 3, FlowRFP), Add(3, -8), Add(3, -16), FlowI("mov", 3, 6), FlowI("alu", 3, 3), FlowI("mov", 6, FlowRFP),
     FlowI("mov", 2, 6), FlowI("ldabs", 0, 9), J("jcc", 1), J("jcc", 2), Load(3, FlowRFP, -8), Store(FlowRFP, 1, -8)}

CbFirst == {FlowI("mov", 3, FlowRFP), FlowI("mov", 6, FlowRFP), Store(FlowRFP, 1, -8), J("jcc", 1), J("jcc", 2), J("jcc", 4)}
CbLast == {Add(3, -8), FlowI("mov", 3, 6), FlowI("alu", 3, 3), FlowI("mov", 2, 6), J("jcc", 1), Store(FlowRFP, 1, -8)}

CbPrograms ==
    {<<a, FlowI("ldfn", 2, 9), b, c, d, FlowCall("loop"), FlowExit>> :
        a \in CbFirst, b \in CbInsns, c \in CbInsns, d \in CbLast}

\* The pointer is loaded twice, or the callback also called, with a function between.
TwicePrograms ==
    {<<FlowI("mov", 3, FlowRFP), Add(3, -8), FlowI("ldfn", 2, 9), FlowCall("loop")>> \o middle
         \o <<FlowI("mov", 3, FlowRFP), Add(3, arg), FlowI("ldfn", 2, 9), FlowCall(fn), FlowExit>> :
        middle \in {<<>>, <<FlowCall("pure")>>, <<FlowCall("callback")>>},
        arg \in {-8, -16}, fn \in {"loop", "foreach", "helper"}}
AllFlow == FlowPrograms \union CbPrograms \union TwicePrograms
StaticCallback == [static |-> TRUE, elsewhere |-> FALSE]
MCCallbacks(code) ==
    IF code \in TwicePrograms THEN [static : BOOLEAN, elsewhere : BOOLEAN] ELSE {StaticCallback}

-----------------------------------------------------------------------------
(* Three functions and the entry's call lists that mix callers that show    *)
(* the context with callers that do not, recursion included.                *)

C(callee, shows) == [callee |-> callee, shows |-> shows]
One(called) == {<<>>} \union {<<C(f, b)>> : f \in called, b \in BOOLEAN}
MCCalls == 1 :> (One({2, 3}) \union {<<C(2, a), C(3, b)>> : a \in BOOLEAN, b \in BOOLEAN})
        @@ 2 :> One({3}) @@ 3 :> One({2})
MCBodies == {1..3, {1, 3}}

-----------------------------------------------------------------------------
(* Every function of three instructions, followed by its exit, with three   *)
(* argument registers and four callees.                                     *)

ArgI(op, dst, src) == [op |-> op, dst |-> dst, src |-> src, off |-> 0, fn |-> ""]
ArgJ(op, dst, off) == [ArgI(op, dst, 9) EXCEPT !.off = off]
ArgC(fn) == [ArgI("call", 9, 9) EXCEPT !.fn = fn]
Ret == <<ArgI("movi", 0, 9), ArgI("exit", 9, 9)>>

Body == {ArgI("mov", 6, 3), ArgI("mov", 3, 1), ArgI("movi", 3, 9), ArgI("add", 6, 2),
         ArgI("neg", 3, 9), ArgI("ldx", 2, 3), ArgI("stx", 1, 2), ArgI("atomic", 2, 3), ArgI("ldabs", 9, 6),
         ArgJ("jcc", 1, 1), ArgJ("jcc", 6, -2), ArgJ("ja", 9, 1),
         ArgC("one"), ArgC("two"), ArgC("kfunc"), ArgC("callee")}

MCMains == {<<a, b, c>> \o Ret : a \in Body, b \in Body, c \in Body}
MCCallees == {<<a>> \o Ret : a \in {ArgI("mov", 6, 3), ArgI("movi", 3, 9), ArgI("add", 2, 1), ArgJ("jcc", 3, 0)}}
MCHelperArgs == [one |-> 1, two |-> 2]

-----------------------------------------------------------------------------
(* A start that puts map, value or frame pointers in place, then every      *)
(* three instructions, the second of them maybe a call of a function, then   *)
(* a lookup with whatever is in R1 and R2.                                   *)

SiteI(op, dst, src) == [op |-> op, dst |-> dst, src |-> src, off |-> 0, imm |-> 0, size |-> 8, map |-> ""]
LdMap(dst, m) == [SiteI("ldmap", dst, 0) EXCEPT !.map = m]
LdVal(dst, m) == [SiteI("ldval", dst, 0) EXCEPT !.map = m]
SiteAdd(dst, n) == [SiteI("add", dst, 0) EXCEPT !.imm = n]
SiteLoad(dst, src, o) == [SiteI("ldx", dst, src) EXCEPT !.off = o]
SiteStore(dst, src, o) == [SiteI("stx", dst, src) EXCEPT !.off = o]
SiteCall(fn) == [SiteI("call", 6, 6) EXCEPT !.map = fn]
SiteJump(o) == [SiteI("jcc", 6, 6) EXCEPT !.off = o]
End == <<SiteCall("lookup"), SiteI("exit", 6, 6)>>

SiteStarts ==
    {<<LdMap(1, "ro"), SiteCall("lookup"), SiteI("mov", 6, 0)>>,
     <<LdMap(1, "dev"), SiteI("mov", 2, SiteRFP), SiteAdd(2, -8)>>,
     <<LdVal(2, "ro"), SiteStore(SiteRFP, 2, -8), SiteI("mov", 1, SiteRFP)>>,
     <<LdMap(1, "outer"), SiteCall("lookup"), SiteI("mov", 1, 0)>>}

SiteInsns ==
    {SiteI("mov", 2, 6), SiteI("mov", 1, 0), SiteI("mov", 2, SiteRFP), SiteAdd(2, -8),
     SiteI("addreg", 6, 2), LdMap(1, "rw"), SiteLoad(2, SiteRFP, -8), SiteI("alu", 1, 1),
     SiteStore(2, 6, 0), SiteStore(SiteRFP, 6, -16), [SiteStore(SiteRFP, 6, -4) EXCEPT !.size = 4],
     SiteI("fetch", 2, 6), SiteJump(1), SiteJump(-3), SiteI("ldabs", 0, 0),
     SiteCall("lookup"), SiteCall("sub"), SiteCall("loop"), SiteCall("kfunc")}

SiteSimple == {i \in SiteInsns : i.map \notin {"sub", "loop", "kfunc"}}
SiteLast ==
    {SiteI("mov", 2, 6), SiteAdd(2, -8), LdMap(1, "rw"), SiteLoad(2, SiteRFP, -8), SiteStore(2, 6, 0), SiteJump(-3)}

Codes == {s \o <<a, b, c>> \o End : s \in SiteStarts, a \in SiteSimple, b \in SiteInsns, c \in SiteLast}

Sub(loads, looks, calls) == [loads |-> loads, looks |-> looks, calls |-> calls]
Subs == {<<Sub({}, FALSE, 0)>>, <<Sub({"ro"}, FALSE, 0)>>, <<Sub({"dev"}, FALSE, 0)>>,
         <<Sub({"dev"}, TRUE, 0)>>, <<Sub({}, FALSE, 2), Sub({"dev"}, TRUE, 0)>>,
         <<Sub({"dev"}, FALSE, 2), Sub({}, TRUE, 0)>>}

-----------------------------------------------------------------------------
(* Composition *)

NoLimits ==
    /\ limitsProg = [walk |-> <<>>] /\ limitsPhase = "rest" /\ walk = <<>>
    /\ sites = {} /\ roots = {} /\ marked = {}
    /\ hookFirst = FALSE /\ buggy = FALSE /\ local = FALSE
    /\ limitsLoads = [original |-> FALSE] /\ reached = [original |-> FALSE]
    /\ rounding = 0 /\ async = "plain" /\ refusal = ""
NoFrame ==
    /\ frameCode = <<>> /\ frame = [depth |-> 0, exact |-> FALSE]
    /\ framePc = 0 /\ frameRegs = <<>> /\ frameSlots = <<>> /\ frameLoops = 0
    /\ touched = 0 /\ verified = [k \in Kernels |-> 0]
NoFlow ==
    /\ flowCode = <<>> /\ flowParam = 0 /\ flowCallback = StaticCallback /\ flowPhase = "rest" /\ refused = ""
    /\ in = <<>> /\ flowWork = <<>> /\ flowPc = 0 /\ flowRegs = <<>>
    /\ flowSlots = <<>> /\ lent = {} /\ flowLoops = 0
NoProve ==
    /\ proveProg = <<>> /\ proof = <<>> /\ proveAt = 0 /\ progress = FALSE
    /\ provePhase = "rest" /\ site = 0 /\ stack = <<>>
NoArgs ==
    /\ argCode = <<>> /\ second = 0 /\ argStatic = FALSE /\ argFree = 0 /\ argPc = 0
    /\ back = 0 /\ foreign = {} /\ argLoops = 0 /\ leaked = FALSE
NoSite ==
    /\ siteCode = <<>> /\ subs = <<>> /\ sitePhase = "rest" /\ before = <<>>
    /\ siteWork = <<>> /\ sitePc = 0 /\ siteRegs = <<>> /\ siteSlots = <<>> /\ siteLoops = 0

Init ==
    \/ LimitsInit /\ NoFrame /\ NoFlow /\ NoProve /\ NoArgs /\ NoSite
    \/ FrameInit /\ NoLimits /\ NoFlow /\ NoProve /\ NoArgs /\ NoSite
    \/ FlowInit /\ NoLimits /\ NoFrame /\ NoProve /\ NoArgs /\ NoSite
    \/ ProveInit /\ NoLimits /\ NoFrame /\ NoFlow /\ NoArgs /\ NoSite
    \/ ArgInit /\ NoLimits /\ NoFrame /\ NoFlow /\ NoProve /\ NoSite
    \/ SiteInit /\ NoLimits /\ NoFrame /\ NoFlow /\ NoProve /\ NoArgs

Next ==
    \/ LimitsNext /\ UNCHANGED <<frameVars, flowVars, proveVars, argVars, siteVars>>
    \/ FrameNext /\ UNCHANGED <<limitsVars, flowVars, proveVars, argVars, siteVars>>
    \/ FlowNext /\ UNCHANGED <<limitsVars, frameVars, proveVars, argVars, siteVars>>
    \/ ProveNext /\ UNCHANGED <<limitsVars, frameVars, flowVars, argVars, siteVars>>
    \/ ArgNext /\ UNCHANGED <<limitsVars, frameVars, flowVars, proveVars, siteVars>>
    \/ SiteNext /\ UNCHANGED <<limitsVars, frameVars, flowVars, proveVars, argVars>>

Spec == Init /\ [][Next]_<<limitsVars, frameVars, flowVars, proveVars, argVars, siteVars>>

-----------------------------------------------------------------------------
(* The stack the rewriter counts on (stackframe.go, stackdepth.go) is what   *)
(* the program leaves and the kernel grants.                                 *)
StackSound == LimitsSound /\ ExactDepthBoundsEveryPath /\ UsableFloorCoversTheFrame

(* Where internal/ctxflow says a hook finds the context, it is, in the       *)
(* function of the site and down the calls to it, and the register it is     *)
(* passed in was free.                                                       *)
ContextSound ==
    /\ HeldIsContext /\ CallbackContextIsArg
    /\ ProvenMeansContext /\ PassedContextArrives /\ FreeArgIsNeverRead
=============================================================================
