------------------------------ MODULE WhereCode ------------------------------
(***************************************************************************)
(* The code generator of a where clause (pkg/kunai/codegen/where.go,       *)
(* where_fold.go, where_auxloop.go): how a condition tree becomes a list   *)
(* of BPF instructions with forward jumps, and what running that list on a *)
(* packet answers.                                                         *)
(*                                                                         *)
(* The control is kept whole: constant folding, short-circuit labels, the  *)
(* 0/1 materialisation of a Bool == Bool operand and the stack slot that   *)
(* holds it, the guards of absent layers and of stack entries past their   *)
(* count, the unrolled and the bpf_loop walk of any() and all().  What an  *)
(* atom compares is abstracted to its truth value per stack entry, and to  *)
(* the number of arithmetic slots its evaluation overwrites.               *)
(***************************************************************************)
EXTENDS Integers, Sequences, FiniteSets, SequencesExt

CONSTANTS
    Conditions,  \* the where conditions compiled: a sequence of trees
    Layers,      \* layer -> can it be absent from a matching packet
    Stacks       \* stack -> [layer, capacity, count, bound]

\* Slots of the arithmetic scratch region, and how many of them the operands
\* of a Bool == Bool keep for themselves.
MaxArithDepth == 16
BoolEqOperandReserve == 5

\* The largest capacity whose any()/all() walk is unrolled.
StaticAuxCap == 2

-----------------------------------------------------------------------------
(***************************************************************************)
(* Conditions (ir.Condition).  A reference of an atom is to a plain field  *)
(* ("field"), to one fixed entry of a stack ("static"), or to the entry an *)
(* enclosing any()/all() iterates over ("iter").                           *)
(***************************************************************************)
Lit(b) == [k |-> "lit", v |-> b]

Field(name, layer, need) ==
    [k |-> "atom", name |-> name, layer |-> layer, ref |-> "field", stack |-> "", idx |-> 0,
     guarded |-> FALSE, walk |-> FALSE, need |-> need, all |-> FALSE]

\* A comparison that holds wherever its field is: == with a /0 prefix.
Anywhere(a) == [a EXCEPT !.all = TRUE]

Entry(name, stack, idx) ==
    [k |-> "atom", name |-> name, layer |-> Stacks[stack].layer, ref |-> "static", stack |-> stack,
     idx |-> idx, guarded |-> FALSE, walk |-> FALSE, need |-> 0, all |-> FALSE]

Iter(name, stack, walked) ==
    [k |-> "atom", name |-> name, layer |-> Stacks[stack].layer, ref |-> "iter", stack |-> stack,
     idx |-> 0, guarded |-> FALSE, walk |-> walked, need |-> 0, all |-> FALSE]

AndOf(l, r) == [k |-> "and", l |-> l, r |-> r]
OrOf(l, r) == [k |-> "or", l |-> l, r |-> r]
NotOf(i) == [k |-> "not", i |-> i]
Eq(l, r) == [k |-> "booleq", l |-> l, r |-> r, neg |-> FALSE]
Neq(l, r) == [k |-> "booleq", l |-> l, r |-> r, neg |-> TRUE]
AnyOf(stack, i) == [k |-> "any", i |-> i, stack |-> stack]
AllOf(stack, i) == [k |-> "all", i |-> i, stack |-> stack]

Quantifier(w) == w.k \in {"any", "all"}
IsLit(w, b) == w.k = "lit" /\ w.v = b

\* Every atom of a condition (ir.WalkConditionFieldRefs).
RECURSIVE Atoms(_)
Atoms(w) ==
    CASE w.k = "lit" -> {}
      [] w.k = "atom" -> {w}
      [] w.k \in {"and", "or", "booleq"} -> Atoms(w.l) \cup Atoms(w.r)
      [] OTHER -> Atoms(w.i)

-----------------------------------------------------------------------------
(***************************************************************************)
(* Where the number of entries of a stack comes from (refCountSource): the *)
(* length byte of the option it sits in, a field of its layer's header,    *)
(* the slot the parser's pushes count in, or nowhere.                      *)
(***************************************************************************)
CountSource(stack) == Stacks[stack].count

\* stackCountSource: read off the first iterator reference below a quantifier.
HasIterator(w) == \E a \in Atoms(w) : a.ref = "iter"

\* Entries past what the parser can push are not unrolled.
UnrollCount(stack) ==
    LET s == Stacks[stack]
    IN  IF s.count = "push" /\ s.bound < s.capacity THEN s.bound ELSE s.capacity

-----------------------------------------------------------------------------
(***************************************************************************)
(* Constant folding (where_fold.go).                                       *)
(***************************************************************************)
FoldQuantifier(w, inner) ==
    IF /\ IsLit(inner, FALSE)
       /\ w.k = "any" \/ (HasIterator(w.i) /\ CountSource(w.stack) = "none")
    THEN Lit(FALSE)
    ELSE w

FoldNot(i) == IF i.k = "lit" THEN Lit(~i.v) ELSE NotOf(i)

FoldAnd(l, r) ==
    IF IsLit(l, FALSE) \/ IsLit(r, FALSE) THEN Lit(FALSE)
    ELSE IF IsLit(l, TRUE) THEN r
    ELSE IF IsLit(r, TRUE) THEN l
    ELSE AndOf(l, r)

FoldOr(l, r) ==
    IF IsLit(l, TRUE) \/ IsLit(r, TRUE) THEN Lit(TRUE)
    ELSE IF IsLit(l, FALSE) THEN r
    ELSE IF IsLit(r, FALSE) THEN l
    ELSE OrOf(l, r)

FoldBoolEq(l, r, neg) ==
    IF l.k = "lit" /\ r.k = "lit" THEN Lit((l.v = r.v) # neg)
    ELSE [k |-> "booleq", l |-> l, r |-> r, neg |-> neg]

RECURSIVE Fold(_)
Fold(w) ==
    CASE w.k \in {"lit", "atom"} -> w
      [] Quantifier(w) -> FoldQuantifier(w, Fold(w.i))
      [] w.k = "not" -> FoldNot(Fold(w.i))
      [] w.k = "and" -> FoldAnd(Fold(w.l), Fold(w.r))
      [] w.k = "or" -> FoldOr(Fold(w.l), Fold(w.r))
      [] w.k = "booleq" -> FoldBoolEq(Fold(w.l), Fold(w.r), w.neg)

-----------------------------------------------------------------------------
(***************************************************************************)
(* Binding the iterator to one index (rebindIterator and its clones).  The *)
(* clone copies the operands of a comparison, of and/or and of not, and    *)
(* shares everything else: a Bool == Bool keeps its operands as they were. *)
(***************************************************************************)
Rebound(a, idx) ==
    IF a.ref = "iter" THEN [a EXCEPT !.ref = "static", !.idx = idx, !.guarded = TRUE] ELSE a

RECURSIVE Rebind(_, _)
Rebind(w, idx) ==
    CASE w.k = "atom" -> Rebound(w, idx)
      [] w.k \in {"and", "or"} -> [w EXCEPT !.l = Rebind(@, idx), !.r = Rebind(@, idx)]
      [] w.k \in {"not", "any", "all"} -> [w EXCEPT !.i = Rebind(@, idx)]
      [] OTHER -> w

-----------------------------------------------------------------------------
(***************************************************************************)
(* Instructions.  A label is a tuple; <<"fail">> is the clause's own fail  *)
(* label.  "mark" is a label put on the instruction after it, "land" an    *)
(* instruction of its own that carries one.                                *)
(***************************************************************************)
Ja(l) == [op |-> "ja", l |-> l]
Land(l) == [op |-> "land", l |-> l]
Mark(l) == [op |-> "mark", l |-> l]
Refuse(why) == [op |-> "refuse", why |-> why]
Refused(code) == \E i \in DOMAIN code : code[i].op = "refuse"

FailLabel == <<"fail">>

\* absentLayerGuard: nothing for a layer that is always there or that an
\* enclosing quantifier has guarded.
AbsentLayerGuard(layer, fail, cx) ==
    IF layer \in cx.present \/ ~Layers[layer] THEN <<>>
    ELSE <<[op |-> "absent", layer |-> layer, l |-> fail]>>

\* emitCountGuard: jump when entry idx is past the stack's count.
CountGuard(stack, idx, skip) ==
    IF CountSource(stack) = "none" THEN <<>>
    ELSE <<[op |-> "count", stack |-> stack, idx |-> idx, l |-> skip]>>

\* truncatedStackGuard: only a header field can declare more than fits.
TruncatedStackGuard(w, fail) ==
    IF CountSource(w.stack) # "header" THEN <<>>
    ELSE <<[op |-> "over", stack |-> w.stack, l |-> fail]>>

\* withStackGuards, for a fixed index no any()/all() has guarded.
StackGuards(a, fail) ==
    IF a.ref = "static" /\ ~a.guarded THEN CountGuard(a.stack, a.idx, fail) ELSE <<>>

\* An arithmetic or literal atom behind its guards.  A value whose evaluation
\* needs more slots than the enclosing Bool == Bool leave is refused, and an
\* iterator nothing bound has no index to read from.
GenAtom(a, fail, cx) ==
    AbsentLayerGuard(a.layer, fail, cx) \o StackGuards(a, fail) \o
    CASE a.need > MaxArithDepth - cx.depth -> <<Refuse("depth")>>
      [] a.ref = "iter" -> <<Refuse("index")>>
      [] a.all -> <<>>
      [] OTHER -> <<[op |-> "test", name |-> a.name, idx |-> a.idx, need |-> a.need, l |-> fail]>>

GenBoolLit(w, fail) == IF w.v THEN <<>> ELSE <<Ja(fail)>>

GenAnd(left, right) == left \o right

GenOr(left, right, cx) ==
    IF right = <<>> THEN <<Refuse("empty")>>
    ELSE IF right[1].op \in {"land", "mark"} THEN <<Refuse("symbol")>>
    ELSE left \o <<Ja(<<"done">> \o cx.path), Mark(<<"right">> \o cx.path)>> \o right
              \o <<Land(<<"done">> \o cx.path)>>

GenNot(inner, fail, cx) == inner \o <<Ja(fail), Land(<<"not">> \o cx.path)>>

\* genConditionAsBool: R3 is 1 when the condition holds, else 0.
ConditionAsBool(folded, inner, path) ==
    IF folded.k = "lit" THEN <<[op |-> "set", v |-> folded.v]>>
    ELSE inner \o <<[op |-> "set", v |-> TRUE], Ja(<<"bool">> \o path),
                    Mark(<<"zero">> \o path), [op |-> "set", v |-> FALSE],
                    Land(<<"bool">> \o path)>>

\* MUTANT: every nesting level parks in the top slot.
OneSlotForAllLevels(cx) == MaxArithDepth - 1

\* genBoolEq parks the left truth value in a slot of its nesting level.
BoolEqSlot(cx) == MaxArithDepth - 1 - cx.depth

GenBoolEq(w, left, right, fail, cx) ==
    IF BoolEqSlot(cx) < BoolEqOperandReserve THEN <<Refuse("depth")>>
    ELSE left \o <<[op |-> "park", slot |-> BoolEqSlot(cx)]>> \o right
              \o <<[op |-> "cmp", slot |-> BoolEqSlot(cx), neg |-> w.neg, l |-> fail]>>

\* useBpfLoopAuxWalk: one == on the iterator, over a stack too large to unroll
\* whose count a callback can read.
UseBpfLoop(w) ==
    /\ Stacks[w.stack].capacity > StaticAuxCap
    /\ w.i.k = "atom" /\ w.i.walk /\ w.i.ref = "iter"
    /\ CountSource(w.stack) \in {"header", "owner"}

\* genQuantBpfLoop with its callback (genAuxWalkCallback).
GenQuantBpfLoop(w, fail) ==
    <<[op |-> "loop", stack |-> w.stack, name |-> w.i.name, any |-> w.k = "any", l |-> fail]>>

\* One iteration of genQuantUnroll: the guard of its index, the bound inner
\* condition, and its landing.
UnrollStep(w, idx, test, skip, match) ==
    CountGuard(w.stack, idx, skip) \o test
    \o (IF w.k = "any" THEN <<Ja(match)>> ELSE <<>>) \o <<Land(skip)>>

\* withQuantLayerGuard: the layer that owns the stack is tested once.
GenQuantifier(w, walked, fail, cx) ==
    AbsentLayerGuard(Stacks[w.stack].layer, fail, cx)
    \o CASE w.k = "any" /\ UseBpfLoop(w) -> walked
         [] w.k = "any" -> walked \o <<Ja(fail), Land(<<"match">> \o cx.path)>>
         [] OTHER -> TruncatedStackGuard(w, fail) \o walked

Deeper(cx, step) == [cx EXCEPT !.path = <<step>> \o @]
InOperand(cx, step) == [Deeper(cx, step) EXCEPT !.depth = @ + 1]
InQuantifier(w, cx, idx) ==
    [Deeper(cx, idx) EXCEPT !.present =
        IF Layers[Stacks[w.stack].layer] THEN @ \cup {Stacks[w.stack].layer} ELSE @]

\* gen: a condition falls through when it holds and jumps to fail when not.
RECURSIVE Gen(_, _, _)
Gen(unfolded, fail, cx) ==
    LET w == Fold(unfolded)
        AsBool(operand, step) ==
            ConditionAsBool(Fold(operand),
                            Gen(operand, <<"zero", step>> \o cx.path, InOperand(cx, step)),
                            <<step>> \o cx.path)
        Skip(idx) == <<"skip", idx>> \o cx.path
        Match == <<"match">> \o cx.path
        Iteration(idx) ==
            UnrollStep(w, idx,
                       Gen(Rebind(w.i, idx), IF w.k = "any" THEN Skip(idx) ELSE fail,
                           InQuantifier(w, cx, idx)),
                       Skip(idx), Match)
        Walk ==
            CASE ~HasIterator(w.i) -> <<Refuse("iterator")>>
              [] UseBpfLoop(w) -> GenQuantBpfLoop(w, fail)
              [] OTHER -> FlattenSeq([i \in 1..UnrollCount(w.stack) |-> Iteration(i - 1)])
    IN  CASE w.k = "lit" -> GenBoolLit(w, fail)
          [] w.k = "atom" -> GenAtom(w, fail, cx)
          [] w.k = "and" -> GenAnd(Gen(w.l, fail, Deeper(cx, 1)), Gen(w.r, fail, Deeper(cx, 2)))
          [] w.k = "or" -> GenOr(Gen(w.l, <<"right">> \o cx.path, Deeper(cx, 1)),
                                 Gen(w.r, fail, Deeper(cx, 2)), cx)
          [] w.k = "not" -> GenNot(Gen(w.i, <<"not">> \o cx.path, Deeper(cx, 1)), fail, cx)
          [] w.k = "booleq" -> GenBoolEq(w, AsBool(w.l, 1), AsBool(w.r, 2), fail, cx)
          [] OTHER -> GenQuantifier(w, Walk, fail, cx)

\* The end of Gen: a clause that folds to false is a program that rejects, any
\* other is genCondition's code before the accept and the reject tail.
Program(w) ==
    IF IsLit(Fold(w), FALSE) THEN <<[op |-> "reject"]>>
    ELSE Gen(w, FailLabel, [path |-> <<>>, depth |-> 0, present |-> {}])
         \o <<[op |-> "accept"], Mark(FailLabel), [op |-> "reject"]>>

Programs == [c \in DOMAIN Conditions |-> Program(Conditions[c])]
RefusedAt == [c \in DOMAIN Conditions |-> Refused(Programs[c])]

-----------------------------------------------------------------------------
(***************************************************************************)
(* What the kernel's load-time check asks of the instruction list.         *)
(***************************************************************************)
WhereTarget(code, l) ==
    CHOOSE i \in DOMAIN code : code[i].op \in {"land", "mark"} /\ code[i].l = l

WhereSuccessors(code, i) ==
    LET in == code[i]
        to == IF in.op \in {"ja", "absent", "count", "over", "test", "loop", "cmp"}
              THEN {WhereTarget(code, in.l)} ELSE {}
    IN  to \cup (IF in.op \in {"ja", "accept", "reject"} THEN {} ELSE {i + 1})

RECURSIVE Reach(_, _)
Reach(code, seen) ==
    LET more == UNION {WhereSuccessors(code, i) : i \in seen} \ seen
    IN  IF more = {} THEN seen ELSE Reach(code, seen \cup more)

LoadsCode(code) ==
    /\ \A i \in DOMAIN code : \A j \in WhereSuccessors(code, i) : j > i
    /\ \A i, j \in DOMAIN code :
         i # j /\ {code[i].op, code[j].op} \subseteq {"land", "mark"} => code[i].l # code[j].l
    /\ {i \in DOMAIN code : \E j \in i..Len(code) : code[j].op = "accept"} \subseteq Reach(code, {1})

Loadable == [c \in DOMAIN Conditions |-> RefusedAt[c] \/ LoadsCode(Programs[c])]

-----------------------------------------------------------------------------
(***************************************************************************)
(* Running a compiled clause on a packet.  A packet is what the clause can *)
(* tell apart: the layers it has, the entry count of each stack (a header  *)
(* may declare one more than fit), and which atoms hold on which entry.    *)
(***************************************************************************)
VARIABLES
    cond,    \* the condition whose program runs
    packet,  \* [present, count, truth]
    wherePc,      \* next instruction
    whereR3,      \* R3: 0, 1, or 2 for a value that is no truth value
    whereSlots    \* the arithmetic scratch slots, same values

whereVars == <<cond, packet, wherePc, whereR3, whereSlots>>

Uses(w) ==
    UNION {{<<a.name, i>> : i \in IF a.ref = "iter" THEN 0..Stacks[a.stack].capacity - 1 ELSE {a.idx}}
            : a \in Atoms(w)}

CountRange(stack) ==
    LET s == Stacks[stack]
    IN  CASE s.count = "header" -> 0..s.capacity + 1
          [] s.count = "owner" -> 0..s.capacity
          [] s.count = "push" -> 0..UnrollCount(stack)
          [] OTHER -> {s.capacity}

StacksOf(w) == {a.stack : a \in Atoms(w)} \ {""}
Absentable(w) == {a.layer : a \in {b \in Atoms(w) : Layers[b.layer]}}

Counts(w) == {f \in [StacksOf(w) -> 0..9] : \A s \in StacksOf(w) : f[s] \in CountRange(s)}

Packets(w) ==
    [present : SUBSET Absentable(w), count : Counts(w), truth : SUBSET Uses(w)]

Present(layer) == ~Layers[layer] \/ layer \in packet.present

\* Where an instruction that does not fall through goes on.
Goto(prog, in, taken) == wherePc' = IF taken THEN WhereTarget(prog, in.l) ELSE wherePc + 1

\* The flag a bpf_loop walk leaves: an entry below the count and the capacity
\* on which any() succeeds, or all() fails.
WalkFlag(in) ==
    \E i \in 0..Stacks[in.stack].capacity - 1 :
        /\ i < packet.count[in.stack]
        /\ (<<in.name, i>> \in packet.truth) = in.any

Fallthrough(in) ==
    /\ in.op \in {"mark", "land"}
    /\ wherePc' = wherePc + 1
    /\ UNCHANGED <<whereR3, whereSlots>>

WhereJump(prog, in) ==
    /\ in.op = "ja"
    /\ Goto(prog, in, TRUE)
    /\ UNCHANGED <<whereR3, whereSlots>>

LayerGuard(prog, in) ==
    /\ in.op = "absent"
    /\ Goto(prog, in, ~Present(in.layer))
    /\ whereR3' = 2
    /\ UNCHANGED whereSlots

EntryGuard(prog, in) ==
    /\ \/ in.op = "count" /\ Goto(prog, in, packet.count[in.stack] <= in.idx)
       \/ in.op = "over" /\ Goto(prog, in, packet.count[in.stack] > Stacks[in.stack].capacity)
    /\ whereR3' = 2
    /\ UNCHANGED whereSlots

\* Evaluating an atom overwrites R3 and the low slots.
Test(prog, in) ==
    /\ in.op = "test"
    /\ Goto(prog, in, <<in.name, in.idx>> \notin packet.truth)
    /\ whereR3' = 2
    /\ whereSlots' = [s \in DOMAIN whereSlots |-> IF s < in.need THEN 2 ELSE whereSlots[s]]

BpfLoop(prog, in) ==
    /\ in.op = "loop"
    /\ Goto(prog, in, WalkFlag(in) # in.any)
    /\ whereR3' = 2
    /\ UNCHANGED whereSlots

SetBool(in) ==
    /\ in.op = "set"
    /\ whereR3' = IF in.v THEN 1 ELSE 0
    /\ wherePc' = wherePc + 1
    /\ UNCHANGED whereSlots

Park(in) ==
    /\ in.op = "park"
    /\ whereSlots' = [whereSlots EXCEPT ![in.slot] = whereR3]
    /\ wherePc' = wherePc + 1
    /\ UNCHANGED whereR3

Compare(prog, in) ==
    /\ in.op = "cmp"
    /\ Goto(prog, in, (whereSlots[in.slot] = whereR3) = in.neg)
    /\ UNCHANGED <<whereR3, whereSlots>>

WhereInit ==
    /\ cond \in DOMAIN Conditions
    /\ packet \in Packets(Conditions[cond])
    /\ wherePc = IF RefusedAt[cond] THEN 0 ELSE 1
    /\ whereR3 = 2
    /\ whereSlots = [s \in 0..MaxArithDepth - 1 |-> 2]

WhereNext ==
    \E prog \in {Programs[cond]} :
        /\ wherePc \in DOMAIN prog
        /\ UNCHANGED <<cond, packet>>
        /\ \E in \in {prog[wherePc]} :
              \/ Fallthrough(in) \/ WhereJump(prog, in) \/ LayerGuard(prog, in)
              \/ EntryGuard(prog, in) \/ Test(prog, in) \/ BpfLoop(prog, in)
              \/ SetBool(in) \/ Park(in) \/ Compare(prog, in)

WhereSpec == WhereInit /\ [][WhereNext]_whereVars

-----------------------------------------------------------------------------
(***************************************************************************)
(* What a where condition means (spec/lean/Kunai/Eval/Where.lean).         *)
(***************************************************************************)
EntryThere(stack, i) == CountSource(stack) = "none" \/ i < packet.count[stack]

AtomHolds(a, it) ==
    LET i == IF a.ref = "iter" THEN it ELSE a.idx
    IN  /\ Present(a.layer)
        /\ a.ref = "field" \/ EntryThere(a.stack, i)
        /\ a.all \/ <<a.name, i>> \in packet.truth

WhereEntries(stack) == {i \in 0..Stacks[stack].capacity - 1 : EntryThere(stack, i)}
Truncated(stack) == packet.count[stack] > Stacks[stack].capacity

RECURSIVE Holds(_, _)
Holds(w, it) ==
    CASE w.k = "lit" -> w.v
      [] w.k = "atom" -> AtomHolds(w, it)
      [] w.k = "and" -> Holds(w.l, it) /\ Holds(w.r, it)
      [] w.k = "or" -> Holds(w.l, it) \/ Holds(w.r, it)
      [] w.k = "not" -> ~Holds(w.i, it)
      [] w.k = "booleq" -> (Holds(w.l, it) = Holds(w.r, it)) # w.neg
      [] w.k = "any" -> /\ Present(Stacks[w.stack].layer)
                        /\ \E i \in WhereEntries(w.stack) : Holds(w.i, i)
      [] w.k = "all" -> /\ Present(Stacks[w.stack].layer)
                        /\ ~Truncated(w.stack)
                        /\ \A i \in WhereEntries(w.stack) : Holds(w.i, i)

\* The program accepts exactly the packets the condition holds on: no label,
\* guard or parked truth value of one sub-condition changes another's answer
\* (gen and everything it calls).
ConditionDecides ==
    \A prog \in {Programs[cond]} :
        wherePc \in DOMAIN prog =>
            /\ prog[wherePc].op = "accept" => Holds(Conditions[cond], 0)
            /\ prog[wherePc].op = "reject" => ~Holds(Conditions[cond], 0)

\* The kernel loads no program with an instruction that no path reaches or a
\* jump back, and the loader resolves a label landed once: whatever folding and
\* the guards leave out, each label a condition mints is landed once, after
\* its jumps, and each instruction up to the accept is reached
\* (foldBooleanConstants, genOr, genNot, genConditionAsBool).
ClauseLoads == wherePc = 1 => Loadable[cond]

RECURSIVE Nesting(_)
Nesting(w) ==
    CASE w.k \in {"lit", "atom"} -> 0
      [] w.k \in {"and", "or"} -> Max({Nesting(w.l), Nesting(w.r)})
      [] w.k = "booleq" -> 1 + Max({Nesting(w.l), Nesting(w.r)})
      [] OTHER -> Nesting(w.i)

\* A condition the resolver typed compiles, unless its Bool == Bool nest deeper
\* than the slots left for them or an atom under them needs more slots than
\* they leave: no other shape of a tree is refused (genBoolEq, genOr,
\* cloneConditionWithRebind).
TypedCompiles ==
    wherePc = 0 =>
        LET w == Conditions[cond]
        IN  Nesting(w) + Max({BoolEqOperandReserve} \cup {a.need : a \in Atoms(w)}) > MaxArithDepth
=============================================================================
