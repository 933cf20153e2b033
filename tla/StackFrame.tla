----------------------------- MODULE StackFrame -----------------------------
(***************************************************************************)
(* The audited depth of one stack frame (pkg/inject/stackframe.go and      *)
(* FrameFloors of verifierdepth.go).                                       *)
(*                                                                         *)
(* The rewriter places its slots below everything the function touches.    *)
(* stackFrameDepthExact reads the depth off the instructions, following    *)
(* constant copies of R10 inside basic blocks; FrameFloors joins it with   *)
(* the depth the verifier reported for a trial load.  The instructions are *)
(* then executed, one a step, on every path, recording the deepest byte    *)
(* really touched and the deepest one the verifier counts.                 *)
(***************************************************************************)
EXTENDS Integers, Sequences, FiniteSets, SequencesExt

CONSTANTS
    Insns,      \* the instructions programs are made of
    Length,     \* instructions before the final exit
    MaxLoops,   \* backward jumps taken on one path
    VarOffsets  \* frame offsets a variable addition may produce

R0 == 0
RFP == 10
Regs == {0, 1, 2}
Caller == 0..5
FrameBytes == 512
Exit == [op |-> "exit", dst |-> 0, src |-> 0, off |-> 0, imm |-> 0, fn |-> ""]

VARIABLES
    frameCode,       \* the function
    frame,      \* the result of stackFrameDepthExact
    framePc, frameRegs, frameSlots, frameLoops,
    touched,    \* the deepest byte touched so far
    verified    \* the deepest byte each kernel's verifier counts so far

frameVars == <<frameCode, frame, framePc, frameRegs, frameSlots, frameLoops, touched, verified>>

\* A kernel of 6.8 or later counts variable-offset accesses, and one with
\* fastcall spills drops direct accesses it can do without.
Kernels == [new : BOOLEAN, fastcall : BOOLEAN]

FrameMax2(a, b) == IF a > b THEN a ELSE b

-----------------------------------------------------------------------------
(* stackFrameDepthExact: one pass in text order over aliases of R10.        *)

NoAlias == [stack |-> FALSE, off |-> 0]

Target(i) == i + 1 + frameCode[i].off

Jump(i) == frameCode[i].op \in {"jcc", "ja"}

BranchTargets == {Target(i) : i \in {k \in DOMAIN frameCode : Jump(k)}}

DirectDepths ==
    {-frameCode[i].off : i \in {k \in DOMAIN frameCode :
        \/ frameCode[k].op = "ldx" /\ frameCode[k].src = RFP
        \/ frameCode[k].op \in {"st", "stx", "atomic"} /\ frameCode[k].dst = RFP}}

MaxOf(S) == IF S = {} THEN 0 ELSE CHOOSE m \in S : \A n \in S : n <= m

\* These helpers access memory forward of their pointer arguments only.
forwardStackArg(fn, r) ==
    \/ fn = "lookup" /\ r = 2
    \/ fn = "update" /\ r \in {2, 3}

count(s, off) ==
    IF off < -FrameBytes \/ off > 0 THEN [s EXCEPT !.precise = FALSE]
    ELSE [s EXCEPT !.depth = FrameMax2(@, -off)]

\* Mutant: only the first argument register is looked at.
liveFirstArg(s) == s.alias[1].stack

live(s) == \E r \in Regs : s.alias[r].stack

AliasOf(s, r) == IF r = RFP THEN [stack |-> TRUE, off |-> 0] ELSE s.alias[r]

SetAlias(s, r, a) == IF r = RFP THEN s ELSE [s EXCEPT !.alias[r] = a]

CallArgs(s, fn) ==
    LET Arg(t, r) ==
          IF ~t.alias[r].stack THEN t
          ELSE count([t EXCEPT !.precise = @ /\ forwardStackArg(fn, r)], t.alias[r].off)
    IN  FoldLeft(Arg, s, <<1, 2>>)

scan(s, ins) ==
    LET dst == AliasOf(s, ins.dst)
        src == AliasOf(s, ins.src)
    IN  CASE ins.op = "mov" -> SetAlias(s, ins.dst, src)
          [] ins.op = "add" ->
               IF ~dst.stack THEN s
               ELSE LET off == dst.off + ins.imm
                    IN  count(SetAlias(s, ins.dst, [dst EXCEPT !.off = off]), off)
          [] ins.op = "movi" -> SetAlias(s, ins.dst, NoAlias)
          [] ins.op \in {"addreg", "mov32"} ->
               SetAlias([s EXCEPT !.precise = ~dst.stack /\ ~src.stack], ins.dst, NoAlias)
          [] ins.op = "ldx" ->
               SetAlias(IF src.stack THEN count(s, src.off + ins.off) ELSE s,
                        ins.dst, NoAlias)
          [] ins.op \in {"st", "stx"} ->
               LET t == IF dst.stack THEN count(s, dst.off + ins.off) ELSE s
               IN  [t EXCEPT !.precise = @ /\ ~(ins.op = "stx" /\ src.stack)]
          [] ins.op = "call" ->
               [CallArgs(s, ins.fn) EXCEPT
                   !.alias = [r \in Regs |-> IF r \in Caller THEN NoAlias ELSE @[r]]]
          [] ins.op = "exit" ->
               [s EXCEPT !.precise = ~s.alias[R0].stack, !.alias = [r \in Regs |-> NoAlias]]
          [] ins.op \in {"jcc", "ja"} -> [s EXCEPT !.precise = ~live(s)]
          [] OTHER -> [s EXCEPT !.precise = ~live(s) /\ ins.src # RFP /\ ins.dst # RFP]

stackFrameDepthExact(lowest) ==
    LET Step(s, i) ==
          IF ~s.precise THEN s
          ELSE IF i \in BranchTargets /\ live(s) THEN [s EXCEPT !.precise = FALSE]
          ELSE scan(s, frameCode[i])
        end == FoldLeft(Step,
                        [depth |-> FrameMax2(MaxOf(DirectDepths), 0), precise |-> TRUE,
                         alias |-> [r \in Regs |-> NoAlias]],
                        [i \in DOMAIN frameCode |-> i])
    IN  [depth |-> IF end.precise THEN end.depth ELSE FrameMax2(end.depth, -lowest),
         exact |-> end.precise]

(* FrameFloors for a function the trial load kept: its floor and whether    *)
(* it may hold a site.                                                      *)
FrameFloors(kernel) ==
    LET text == IF frame.exact THEN frame.depth
                ELSE FrameMax2(frame.depth, verified[kernel])
    IN  [floor |-> FrameMax2(verified[kernel], text), usable |-> kernel.new \/ frame.exact]

-----------------------------------------------------------------------------
(* Execution.  A value is a pointer into the frame or a scalar; an access   *)
(* outside the frame is one the verifier would have rejected, and ends the  *)
(* path.                                                                    *)

Scalar == [ptr |-> FALSE, off |-> 0, var |-> FALSE]

Value(r) == IF r = RFP THEN [ptr |-> TRUE, off |-> 0, var |-> FALSE] ELSE frameRegs[r]

InFrame(off) == off >= -FrameBytes /\ off < 0

Touch(offs, counts) ==
    /\ touched' = FrameMax2(touched, MaxOf({-o : o \in offs}))
    /\ verified' = [k \in Kernels |-> IF k \in counts THEN FrameMax2(verified[k], MaxOf({-o : o \in offs}))
                                     ELSE verified[k]]

\* The kernels that count an access through register r.
Counts(r) ==
    {k \in Kernels : IF Value(r).var THEN k.new ELSE r # RFP \/ ~k.fastcall}

Ins == frameCode[framePc]

Running == framePc \in DOMAIN frameCode

SetReg(r, v) == frameRegs' = IF r = RFP THEN frameRegs ELSE [frameRegs EXCEPT ![r] = v]

Goto(t) == framePc' = IF t \in DOMAIN frameCode THEN t ELSE 0

Scan ==
    /\ framePc = -1
    /\ frame' = stackFrameDepthExact(0)
    /\ framePc' = 1
    /\ UNCHANGED <<frameCode, frameRegs, frameSlots, frameLoops, touched, verified>>

RunALU ==
    /\ Running /\ Ins.op \in {"mov", "movi", "mov32", "add", "addreg"}
    /\ \E v \in CASE Ins.op = "mov" -> {Value(Ins.src)}
                  [] Ins.op \in {"movi", "mov32"} -> {Scalar}
                  [] Ins.op = "add" -> {[Value(Ins.dst) EXCEPT !.off = @ + Ins.imm]}
                  [] OTHER -> IF ~Value(Ins.dst).ptr /\ ~Value(Ins.src).ptr THEN {Scalar}
                              ELSE {[ptr |-> TRUE, off |-> o, var |-> TRUE] : o \in VarOffsets} :
           SetReg(Ins.dst, IF v.ptr THEN v ELSE Scalar)
    /\ Goto(framePc + 1)
    /\ UNCHANGED <<frameSlots, touched, verified>>

Access(base) == Value(base).off + Ins.off

RunLoad ==
    /\ Running /\ Ins.op = "ldx"
    /\ IF ~Value(Ins.src).ptr
       THEN SetReg(Ins.dst, Scalar) /\ Goto(framePc + 1) /\ UNCHANGED <<touched, verified>>
       ELSE IF InFrame(Access(Ins.src))
       THEN /\ SetReg(Ins.dst, IF Access(Ins.src) \in DOMAIN frameSlots
                               THEN frameSlots[Access(Ins.src)] ELSE Scalar)
            /\ Touch({Access(Ins.src)}, Counts(Ins.src)) /\ Goto(framePc + 1)
       ELSE framePc' = 0 /\ UNCHANGED <<frameRegs, touched, verified>>
    /\ UNCHANGED frameSlots

RunStore ==
    /\ Running /\ Ins.op \in {"st", "stx", "atomic"}
    /\ IF ~Value(Ins.dst).ptr
       THEN Goto(framePc + 1) /\ UNCHANGED <<frameSlots, touched, verified>>
       ELSE IF InFrame(Access(Ins.dst))
       THEN /\ frameSlots' = [o \in DOMAIN frameSlots \union {Access(Ins.dst)} |->
                            IF o # Access(Ins.dst) THEN frameSlots[o]
                            ELSE IF Ins.op = "stx" THEN Value(Ins.src) ELSE Scalar]
            /\ Touch({Access(Ins.dst)}, Counts(Ins.dst)) /\ Goto(framePc + 1)
       ELSE framePc' = 0 /\ UNCHANGED <<frameSlots, touched, verified>>
    /\ UNCHANGED frameRegs

\* A helper of the list reads forward; any other callee may reach anywhere in
\* the frame through a pointer it gets, which the verifier counts.
RunCall ==
    /\ Running /\ Ins.op = "call"
    /\ LET args == {r \in {1, 2} : frameRegs[r].ptr}
           wild == {r \in args : ~forwardStackArg(Ins.fn, r)}
       IN  IF \E r \in args : ~InFrame(frameRegs[r].off)
           THEN framePc' = 0 /\ UNCHANGED <<frameRegs, touched, verified>>
           ELSE /\ IF wild # {}
                   THEN Touch({-FrameBytes}, Kernels)
                   ELSE Touch({frameRegs[r].off : r \in args},
                              {k \in Kernels : \A r \in args : k \in Counts(r)})
                /\ frameRegs' = [r \in Regs |-> IF r \in Caller THEN Scalar ELSE frameRegs[r]]
                /\ Goto(framePc + 1)
    /\ UNCHANGED frameSlots

RunJump ==
    /\ Running /\ Ins.op \in {"jcc", "ja"}
    /\ \/ /\ Goto(Target(framePc))
          /\ frameLoops' = IF Target(framePc) <= framePc THEN frameLoops + 1 ELSE frameLoops
          /\ frameLoops' <= MaxLoops
       \/ Ins.op = "jcc" /\ Goto(framePc + 1) /\ UNCHANGED frameLoops
    /\ UNCHANGED <<frameRegs, frameSlots, touched, verified>>

RunExit ==
    /\ Running /\ Ins.op = "exit"
    /\ framePc' = 0
    /\ UNCHANGED <<frameRegs, frameSlots, touched, verified>>

FrameInit ==
    /\ frameCode \in {Append(p, Exit) : p \in [1..Length -> Insns]}
    /\ frame = [depth |-> 0, exact |-> FALSE]
    /\ framePc = -1
    /\ frameRegs = [r \in Regs |-> Scalar]
    /\ frameSlots = <<>>
    /\ frameLoops = 0
    /\ touched = 0 /\ verified = [k \in Kernels |-> 0]

FrameNext ==
    \/ Scan
    \/ /\ \/ RunJump
          \/ (RunALU \/ RunLoad \/ RunStore \/ RunCall \/ RunExit) /\ UNCHANGED frameLoops
       /\ UNCHANGED <<frameCode, frame>>

FrameSpec == FrameInit /\ [][FrameNext]_frameVars

-----------------------------------------------------------------------------
(* stackFrameDepthExact: when the scan calls its depth exact, no path of    *)
(* the function touches a byte below it, so slots placed there are free.    *)
ExactDepthBoundsEveryPath == framePc # -1 /\ frame.exact => touched <= frame.depth

(* FrameFloors: a floor it offers for a site lies at or below every byte    *)
(* the function touches, although an older kernel leaves variable offsets   *)
(* out of its depth and a newer one the spills it removes.                  *)
UsableFloorCoversTheFrame ==
    framePc # -1 => \A k \in Kernels :
        FrameFloors(k).usable => touched <= FrameFloors(k).floor
=============================================================================
