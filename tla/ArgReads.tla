------------------------------ MODULE ArgReads ------------------------------
(***************************************************************************)
(* The free argument register of a function (ArgReads, operands and        *)
(* FreeArg of internal/ctxflow/pass.go).                                   *)
(*                                                                         *)
(* To hand the context down a call chain the rewriter puts it in an        *)
(* argument register the callee never reads before writing it.  ArgReads   *)
(* finds those registers over every path, callees included.  The program   *)
(* is then executed with that register holding a foreign value.            *)
(***************************************************************************)
EXTENDS Integers, Sequences, FiniteSets, SequencesExt

CONSTANTS
    Mains, Callees, \* the bodies tried for the function and for its callee
    MaxArg,         \* argument registers, 5 in the kernel
    HelperArgs,     \* helper -> the number of arguments it takes
    ArgMaxLoops

ArgRegs == 1..MaxArg
AllArgs == ArgRegs
ArgScratch == 0..MaxArg

VARIABLES
    argCode,       \* the function, then its callee
    second,     \* where the callee starts
    argStatic,     \* whether the callee is static
    argFree,       \* the register FreeArg chose, 0 if none
    argPc, back,   \* execution; where the callee returns to, 0 in the function
    foreign,    \* registers that hold the foreign value
    argLoops,
    leaked      \* an instruction read it

argVars == <<argCode, second, argStatic, argFree, argPc, back, foreign, argLoops, leaked>>

-----------------------------------------------------------------------------
(* operands: what an instruction may read and surely writes of R0-R5.       *)

Low(S) == S \intersect ArgScratch

operands(ins) ==
    CASE ins.op = "mov"   -> [use |-> Low({ins.src}), def |-> Low({ins.dst})]
      [] ins.op = "movi"  -> [use |-> {}, def |-> Low({ins.dst})]
      [] ins.op = "add"   -> [use |-> Low({ins.src, ins.dst}), def |-> Low({ins.dst})]
      [] ins.op = "neg"   -> [use |-> Low({ins.dst}), def |-> Low({ins.dst})]
      [] ins.op = "ldx"   -> [use |-> Low({ins.src}), def |-> Low({ins.dst})]
      [] ins.op = "stx"   -> [use |-> Low({ins.dst, ins.src}), def |-> {}]
      [] ins.op = "atomic" -> [use |-> Low({ins.dst, ins.src, 0}), def |-> {}]
      [] ins.op = "ldabs" -> [use |-> Low({ins.src}) \union AllArgs, def |-> ArgScratch]
      [] ins.op = "exit"  -> [use |-> {0}, def |-> {}]
      [] ins.op = "call"  -> [use |-> IF ins.fn \in DOMAIN HelperArgs
                                      THEN 1..HelperArgs[ins.fn] ELSE AllArgs,
                              def |-> ArgScratch]
      [] ins.op = "ja"    -> [use |-> {}, def |-> {}]
      [] OTHER            -> [use |-> Low({ins.dst}), def |-> {}]

ArgTarget(i) == i + 1 + argCode[i].off

ArgSuccessors(i) ==
    CASE argCode[i].op = "exit" -> {}
      [] argCode[i].op = "ja"   -> {ArgTarget(i)}
      [] argCode[i].op = "jcc"  -> {ArgTarget(i), i + 1}
      [] OTHER               -> {i + 1}

Unresolved == -1

(* The worklist of one function: `written` before each instruction reached, *)
(* `out` the registers read before written.  A path that leaves the program *)
(* adds the marker Unresolved.                                              *)
RECURSIVE reads(_), Flow(_, _, _)

UseAt(i) ==
    IF argCode[i].op = "call" /\ argCode[i].fn = "callee"
    THEN IF argStatic THEN reads(second) ELSE AllArgs
    ELSE operands(argCode[i]).use

Flow(written, work, out) ==
    IF work = {} THEN out
    ELSE LET i == CHOOSE k \in work : TRUE
         IN  IF i \notin DOMAIN argCode THEN AllArgs \union {Unresolved}
             ELSE LET w     == written[i] \union operands(argCode[i]).def
                      ArgNext(t) == IF t \in DOMAIN written THEN written[t] \intersect w ELSE w
                      fresh == {t \in ArgSuccessors(i) : t \notin DOMAIN written \/ ArgNext(t) # written[t]}
                  IN  Flow([t \in DOMAIN written \union fresh |->
                                IF t \in fresh THEN ArgNext(t) ELSE written[t]],
                           (work \ {i}) \union fresh,
                           out \union (UseAt(i) \ written[i]))

reads(start) == Flow([t \in {start} |-> {}], {start}, {})

ArgReads(start) == reads(start) \ {0}

FreeArg(taken) ==
    LET left == ArgRegs \ taken
    IN  IF Unresolved \in taken \/ left = {} THEN 0
        ELSE CHOOSE r \in left : \A q \in left : q <= r

-----------------------------------------------------------------------------
(* Execution: the registers an instruction really reads and writes.         *)

ArgIns == argCode[argPc]

Reads ==
    CASE ArgIns.op \in {"mov", "ldx"}        -> {ArgIns.src}
      [] ArgIns.op \in {"add", "stx"}        -> {ArgIns.src, ArgIns.dst}
      [] ArgIns.op = "atomic"                -> {0, ArgIns.src, ArgIns.dst}
      [] ArgIns.op \in {"neg", "jcc"}        -> {ArgIns.dst}
      [] ArgIns.op = "exit"                  -> {0}
      [] ArgIns.op = "ldabs"                 -> {ArgIns.src}
      [] ArgIns.op = "call" /\ ArgIns.fn = "callee" -> IF argStatic THEN {} ELSE AllArgs
      [] ArgIns.op = "call" /\ ArgIns.fn = "kfunc"  -> AllArgs
      [] ArgIns.op = "call"                  -> 1..HelperArgs[ArgIns.fn]
      [] OTHER                            -> {}

\* A register holds the foreign value until it is overwritten; a copy of it
\* would be a read, so writing always clears.
Written ==
    CASE ArgIns.op \in {"mov", "movi", "add", "neg", "ldx"} -> {ArgIns.dst}
      [] ArgIns.op = "atomic" -> {ArgIns.src}
      [] ArgIns.op \in {"ldabs", "call"} -> ArgScratch
      [] OTHER -> {}

ArgRunning == argPc \in DOMAIN argCode /\ argFree # 0

Read == leaked' = (leaked \/ Reads \intersect foreign # {})

Straight ==
    /\ ArgRunning /\ ArgIns.op \notin {"jcc", "ja", "exit"}
    /\ ~(ArgIns.op = "call" /\ ArgIns.fn = "callee")
    /\ Read
    /\ foreign' = foreign \ Written
    /\ argPc' = argPc + 1
    /\ UNCHANGED <<back, argLoops>>

Branch ==
    /\ ArgRunning /\ ArgIns.op \in {"jcc", "ja"}
    /\ Read
    /\ \/ /\ argPc' = ArgTarget(argPc)
          /\ argLoops' = IF ArgTarget(argPc) <= argPc THEN argLoops + 1 ELSE argLoops
          /\ argLoops' <= ArgMaxLoops
       \/ ArgIns.op = "jcc" /\ argPc' = argPc + 1 /\ UNCHANGED argLoops
    /\ UNCHANGED <<foreign, back>>

\* A callee sees its caller's registers; what it did not write comes back dead.
EnterCallee ==
    /\ ArgRunning /\ ArgIns.op = "call" /\ ArgIns.fn = "callee" /\ back = 0
    /\ Read
    /\ back' = argPc + 1 /\ argPc' = second
    /\ UNCHANGED <<foreign, argLoops>>

ArgExit ==
    /\ ArgRunning /\ ArgIns.op = "exit"
    /\ Read
    /\ argPc' = back /\ back' = 0
    /\ foreign' = IF back = 0 THEN foreign ELSE {}
    /\ UNCHANGED argLoops

ArgInit ==
    /\ \E m \in Mains, c \in Callees :
         /\ argCode = m \o c
         /\ second = Len(m) + 1
    /\ argStatic \in BOOLEAN
    /\ argFree = -1
    /\ argPc = 0 /\ back = 0 /\ argLoops = 0
    /\ foreign = {}
    /\ leaked = FALSE

Choose ==
    /\ argFree = -1
    /\ argFree' = FreeArg(ArgReads(1))
    /\ foreign' = {argFree'} \ {0}
    /\ argPc' = 1
    /\ UNCHANGED <<back, argLoops, leaked>>

ArgNext ==
    /\ \/ Choose
       \/ (Straight \/ Branch \/ EnterCallee \/ ArgExit) /\ UNCHANGED argFree
    /\ UNCHANGED <<argCode, second, argStatic>>

ArgSpec == ArgInit /\ [][ArgNext]_argVars

-----------------------------------------------------------------------------
(* ArgReads and FreeArg: on no path does the function, a callee or a helper *)
(* it calls read the register chosen for the context before writing it, so  *)
(* setting it at the call changes nothing the program computes.             *)
FreeArgIsNeverRead == ~leaked
=============================================================================
