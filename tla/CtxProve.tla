------------------------------ MODULE CtxProve ------------------------------
(***************************************************************************)
(* Which functions of a program get its context (Prove of                  *)
(* internal/ctxflow/prove.go and the pass chains of pass.go).              *)
(*                                                                         *)
(* Prove walks the functions of a program until nothing more is decided:   *)
(* the entry and a global function start from their own prototype, a       *)
(* static one needs every direct caller proved and passing the context.    *)
(* A function that cannot be proved may still get the context passed down: *)
(* every function between it and the entry stores it in a reserved slot    *)
(* and sets a free argument register before the call.  What one function   *)
(* body does with the context (CtxFlow) is given here by its calls: a call *)
(* shows the context in the callee's register or does not.                 *)
(*                                                                         *)
(* The rewritten program is then executed call by call.                    *)
(***************************************************************************)
EXTENDS Naturals, Sequences, FiniteSets, SequencesExt

CONSTANTS
    ProveN,          \* functions; 1 is the entry
    CallsOf,    \* function -> the call lists tried for it, [callee, shows]
    Bodies,     \* the sets of functions whose body can be analyzed
    MaxDepth    \* call frames

ProveFuncs == 1..ProveN

ASSUME ProveAssumption == ProveN \in Nat \ {0} /\ MaxDepth \in Nat

VARIABLES
    proveProg,       \* static, param, calls, refs, free, analyzable
    proof,      \* function -> "open", "proven" or "refused"
    proveAt, progress, \* the loop over functions
    provePhase,      \* "prove", "run"
    site,       \* the unproved function that holds a site, 0 if none
    stack       \* the running frames: [fn, param, slot]

proveVars == <<proveProg, proof, proveAt, progress, provePhase, site, stack>>

callback(f) == \E c \in ProveFuncs : f \in proveProg.refs[c]

callers(f) ==
    FlattenSeq([c \in ProveFuncs |->
        [k \in DOMAIN SelectSeq(proveProg.calls[c], LAMBDA x : x.callee = f) |->
            [caller |-> c, shows |-> SelectSeq(proveProg.calls[c], LAMBDA x : x.callee = f)[k].shows]]])

-----------------------------------------------------------------------------
(* Prove.                                                                   *)

\* What the loop concludes about function f now; "open" is not yet.
FirstProof(f) ==
    IF proveProg.param[f] = 0 \/ callback(f) THEN "refused" ELSE "open"

Verdict(f) ==
    IF f = 1 \/ ~proveProg.static[f] THEN (IF f \in proveProg.analyzable THEN "proven" ELSE "refused")
    ELSE LET bad == SelectSeq(callers(f), LAMBDA c : proof[c.caller] # "proven" \/ ~c.shows)
         IN  IF callers(f) = <<>> THEN "refused"
             ELSE IF bad # <<>> THEN (IF proof[bad[1].caller] = "open" THEN "open" ELSE "refused")
             ELSE IF f \in proveProg.analyzable THEN "proven" ELSE "refused"

\* One function of one round.
Prove ==
    /\ provePhase = "prove" /\ proveAt <= ProveN
    /\ proof' = [proof EXCEPT ![proveAt] = IF @ = "open" THEN Verdict(proveAt) ELSE @]
    /\ progress' = (progress \/ proof' # proof)
    /\ proveAt' = proveAt + 1
    /\ UNCHANGED <<proveProg, provePhase, site, stack>>

Again ==
    /\ provePhase = "prove" /\ proveAt > ProveN /\ progress
    /\ proveAt' = 1 /\ progress' = FALSE
    /\ UNCHANGED <<proveProg, proof, provePhase, site, stack>>

\* Mutual recursion leaves functions open; they are refused.
Settled == [f \in ProveFuncs |-> IF proof[f] = "open" THEN "refused" ELSE proof[f]]

\* A tool that asks whether calls to f pass the context takes Prove's answer.
CallsRefusal(f) == Settled[f] # "proven"

-----------------------------------------------------------------------------
(* pass.go: the functions that pass the context down to f, itself first, or *)
(* {} when it cannot be passed.  `up` are the functions being resolved.     *)

RECURSIVE pass(_, _)
pass(f, up) ==
    LET above == {c.caller : c \in ToSet(callers(f))} \ {1}
    IN  IF ~proveProg.static[f] \/ callback(f) \/ f \in up THEN {}
        ELSE IF Settled[f] = "proven" THEN {f}
        ELSE IF callers(f) = <<>> \/ f \notin proveProg.free THEN {}
        ELSE IF \E c \in above : pass(c, up \union {f}) = {} THEN {}
        ELSE {f} \union UNION {pass(c, up \union {f}) : c \in above}

passes(f) == IF f = 1 THEN {} ELSE pass(f, {})

\* A site in an unproved function whose chain exists is spliced through it.
ChooseSite ==
    /\ provePhase = "prove" /\ proveAt > ProveN /\ ~progress
    /\ provePhase' = "run"
    /\ site' \in {f \in ProveFuncs : Settled[f] # "proven" /\ passes(f) # {}} \union {0}
    /\ UNCHANGED <<proveProg, proof, proveAt, progress, stack>>

-----------------------------------------------------------------------------
(* Execution of the rewritten program.  The entry spills its context; a     *)
(* function of the chain stores its own parameter when that is proved, and  *)
(* otherwise the register its caller loaded from the caller's slot.         *)

Top == Last(stack)

Chain == IF site = 0 THEN {} ELSE passes(site)

Saved(f) == Settled[f] = "proven"

SlotOf(f, param) ==
    IF f \notin Chain THEN FALSE
    ELSE IF Saved(f) THEN param
    ELSE Top.slot

Push(f, param) ==
    stack' = Append(stack, [fn |-> f, param |-> param, slot |-> SlotOf(f, param)])

\* The verifier makes sure that a global function gets its context argument.
CallFunction ==
    /\ provePhase = "run" /\ Len(stack) < MaxDepth
    /\ \E k \in DOMAIN proveProg.calls[Top.fn] :
         LET c == proveProg.calls[Top.fn][k]
         IN  \E param \in IF ~proveProg.static[c.callee] /\ proveProg.param[c.callee] # 0 THEN {TRUE}
                          ELSE IF c.shows THEN {Top.param} ELSE BOOLEAN :
                Push(c.callee, param)
    /\ UNCHANGED <<proveProg, proof, proveAt, progress, provePhase, site>>

RunCallback ==
    /\ provePhase = "run" /\ Len(stack) < MaxDepth
    /\ \E f \in proveProg.refs[Top.fn] : Push(f, FALSE)
    /\ UNCHANGED <<proveProg, proof, proveAt, progress, provePhase, site>>

ReturnFrom ==
    /\ provePhase = "run" /\ Len(stack) > 1
    /\ stack' = Front(stack)
    /\ UNCHANGED <<proveProg, proof, proveAt, progress, provePhase, site>>

ProveInit ==
    /\ proveProg \in [static : {[f \in ProveFuncs |-> f # 1 /\ f \in s] : s \in SUBSET (ProveFuncs \ {1})},
                      param  : {[f \in ProveFuncs |-> IF f \in p THEN 1 ELSE 0] :
                                   p \in {{1} \union q : q \in SUBSET (ProveFuncs \ {1})}},
                      calls  : {c \in [ProveFuncs -> UNION {CallsOf[f] : f \in ProveFuncs}] :
                                   \A f \in ProveFuncs : c[f] \in CallsOf[f]},
                      refs   : {[f \in ProveFuncs |-> {}], [f \in ProveFuncs |-> IF f = 1 THEN {ProveN} ELSE {}]},
                      free   : {ProveFuncs, ProveFuncs \ {2}},
                      analyzable : Bodies]
    /\ proof = [f \in ProveFuncs |-> FirstProof(f)]
    /\ proveAt = 1 /\ progress = FALSE
    /\ provePhase = "prove"
    /\ site = 0
    /\ stack = <<[fn |-> 1, param |-> TRUE, slot |-> TRUE]>>

ProveNext == Prove \/ Again \/ ChooseSite \/ CallFunction \/ RunCallback \/ ReturnFrom

ProveSpec == ProveInit /\ [][ProveNext]_proveVars

-----------------------------------------------------------------------------
(* Prove: a function it calls proven holds the context in its parameter     *)
(* whenever it runs, whoever called it and however often it is re-entered.  *)
(* The hooks in it read the context from there, and CallsRefusal lets a     *)
(* caller attach to it on the same ground.                                  *)
ProvenMeansContext ==
    provePhase = "run" => \A k \in DOMAIN stack :
        ~CallsRefusal(stack[k].fn) => stack[k].param

(* passes: when a site's function runs, the chain of slots and argument     *)
(* registers has brought the context down to its own reserved slot.         *)
PassedContextArrives ==
    provePhase = "run" /\ site # 0 => \A k \in DOMAIN stack :
        stack[k].fn = site => stack[k].slot
=============================================================================
