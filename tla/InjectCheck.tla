----------------------------- MODULE InjectCheck -----------------------------
(***************************************************************************)
(* The independent check of a rewritten program (pkg/injectcheck).         *)
(*                                                                         *)
(* Check takes the original, the rewritten code, which of its slots are    *)
(* original (hints), and the planned hook of each site and result.  It     *)
(* accounts for every instruction.  Here the rewritten code is what        *)
(* LookupSplice emits, or that with one instruction changed, dropped,      *)
(* doubled or swapped.  What Check accepts then runs beside the original.  *)
(*                                                                         *)
(* Positions are raw slots from 1.  A target names its hook where the code *)
(* has the hook's first instruction.  An immediate 0 stands for the 64-bit *)
(* zero, any other for a 32-bit immediate.                                 *)
(***************************************************************************)
EXTENDS LookupSplice, Functions

CONSTANT Tampered(_)    \* the codes to check for a rewritten job

VARIABLE verdict       \* "pending", "accepted" or "rejected"

checkVars == <<lookupJob, lookupO, lookupS, lookupDue, verdict>>

StackBottom == -512

-----------------------------------------------------------------------------
(* Premises: the plan's hook for each site and result.  Site 0 is the entry.*)

ArgRoles(c, when) ==
    <<"ctx">> \o When(c.withSite, <<"site">>) \o <<"key">>
    \o (IF c.withMap THEN <<"value", "map">> ELSE When(when # "miss", <<"value">>))

Planned(i, when, hook, c) ==
    [site |-> i, when |-> when, hook |-> hook,
     args |-> IF c.op = "lookup" THEN ArgRoles(c, when) ELSE <<>>]

TargetsAt(k, i) ==
    LET c == k.calls[i]
    IN  CASE c.op = "tail" -> {Planned(i, "any", c.hook, c)}
          [] MapCall(c) -> {Planned(i, c.results, c.hook, c)}
          [] c.withMap -> {Planned(i, c.when, c.hook, c)}
          [] OTHER -> (IF hit(c) THEN {Planned(i, "hit", c.hook, c)} ELSE {})
                      \union (IF miss(c) THEN {Planned(i, "miss", c.missHook, c)} ELSE {})

Targets(k) ==
    UNION {TargetsAt(k, i) : i \in DOMAIN k.calls}
    \union (IF k.entry.on THEN {[site |-> 0, when |-> "any", hook |-> "entry", args |-> <<>>]} ELSE {})

Bound(k, i, when) == {t \in Targets(k) : t.site = i /\ t.when = when}
\* The target of a lookup's result: its own, or the site's any.
arm(k, i, when) == IF Bound(k, i, when) # {} THEN Bound(k, i, when) ELSE Bound(k, i, "any")

consume(k, i, when, hook, lookupArm) ==
    {t \in IF lookupArm THEN arm(k, i, when) ELSE Bound(k, i, when) : t.hook = hook}

planned(k, i, when, lookup) ==
    \/ Bound(k, i, when) # {}
    \/ lookup /\ when \in {"hit", "miss"} /\ Bound(k, i, "any") # {}

IsSite(k, i) == i \in DOMAIN k.calls
CtxFrom(k, i) == IF IsSite(k, i) THEN k.calls[i].from.k ELSE "entry"
callbackSite(k, i) == CtxFrom(k, i) \in {"callback", "pass"}
\* The context a site's prelude initializes: a register or a slot.
siteCtx(k, i) == IF CtxFrom(k, i) \in {"reg", "slot"} THEN k.calls[i].from ELSE [k |-> "none", v |-> 0]

FloorAt(k, i) == LET f == k.floors[FuncOf(k, i)] IN f - (f % 8)

-----------------------------------------------------------------------------
(* The original program, from its own instructions.                         *)

Edge(ins) == Relative(ins)
Branches(k) == {i \in DOMAIN k.code : k.code[i].op \in {"jcc", "ja"}}
Refs(k, f) == {i \in DOMAIN k.code : k.code[i].op = "ldfn" /\ Target(i, k.code[i]) = f}
CallsOf(k, f) == {i \in DOMAIN k.code : k.code[i].op = "callf" /\ Target(i, k.code[i]) = f}

Successors(k, i) ==
    (IF i \in Branches(k) THEN {Target(i, k.code[i])} ELSE {})
    \union (IF k.code[i].op \in {"ja", "exit"} THEN {} ELSE {i + Size(k, i)})

Times(n, step(_), x) == FoldLeft(LAMBDA acc, m : step(acc), x, [m \in 1..n |-> m])

body(k, start) ==
    LET grow(X) == (X \union UNION {Successors(k, i) : i \in X}) \cap DOMAIN k.code
    IN  Times(Len(k.code), grow, {start})

HelperReads(c) ==
    CASE c = "update" -> 1..4 [] c \in {"push", "tail"} -> 1..3 [] OTHER -> 1..2

reads(k, i) ==
    LET ins == k.code[i]
    IN  CASE ins.op \in {"mov", "ldx"} -> {ins.src}
          [] ins.op = "add" -> {ins.dst}
          [] ins.op = "stx" -> {ins.dst, ins.src}
          [] ins.op = "help" -> HelperReads(IF IsSite(k, i) THEN k.calls[i].op ELSE "lookup")
          [] ins.op = "loop" -> 1..4
          [] ins.op = "exit" -> {0}
          [] OTHER -> {}
writes(k, i) ==
    LET ins == k.code[i]
    IN  CASE ins.op \in {"mov", "movi", "add", "ldx"} -> {ins.dst}
          [] ins.op = "ldmap" -> {1}
          [] ins.op = "ldfn" -> {2}
          [] ins.op = "args" -> 2..4
          [] ins.op = "tailargs" -> 1..3
          [] ins.op \in {"help", "loop", "callf"} -> 0..5
          [] OTHER -> {}

\* Registers read before they are written, from each instruction on.
liveness(k) ==
    LET pass(live) == [i \in DOMAIN k.code |->
            LET after == UNION {live[j] : j \in Successors(k, i) \cap DOMAIN k.code}
                own == IF k.code[i].op = "callf" THEN live[Target(i, k.code[i])] \cap 1..5
                       ELSE reads(k, i)
            IN  own \union (after \ writes(k, i))]
    IN  Times(2 * Len(k.code), pass, [i \in DOMAIN k.code |-> {}])

\* A function the context is passed to takes it in a register it does not read.
passFrames(k) ==
    /\ \A f \in DOMAIN k.passes :
          /\ Refs(k, f) = {} /\ CallsOf(k, f) # {}
          /\ ~k.passes[f].saved =>
                /\ k.passes[f].reg \notin liveness(k)[f]
                /\ \A i \in CallsOf(k, f) : /\ FuncOf(k, i) \in {1} \union DOMAIN k.passes
                                            /\ i \in body(k, FuncOf(k, i))
    /\ \A i \in DOMAIN k.calls : k.calls[i].from.k = "pass" => i \in body(k, FuncOf(k, i))

\* The frame offset a callback helper is given, read off r3 = r10 + arg.
Helper(k, ref) == ref + 2
CallbackArg(k, ref) ==
    IF /\ ref > 2 /\ Helper(k, ref) \in DOMAIN k.code
       /\ k.code[ref - 2] = Mov(3, RFP) /\ k.code[ref - 1].op = "add" /\ k.code[ref - 1].dst = 3
       /\ k.code[Helper(k, ref)].op = "loop"
    THEN {k.code[ref - 1].imm} ELSE {}
Landings(k) == {Target(i, k.code[i]) : i \in Branches(k)}

callbackFrames(k) ==
    /\ \A f \in DOMAIN k.callbacks :
          /\ Refs(k, f) # {} /\ CallsOf(k, f) = {}
          /\ \A r \in Refs(k, f) :
                /\ r \in body(k, 1)
                /\ CallbackArg(k, r) = {k.callbacks[f].arg} /\ k.callbacks[f].param = 2
                /\ Landings(k) \cap (r - 1)..Helper(k, r) = {}
          /\ k.callbacks[f].arg >= k.floors[1]
    /\ \A i \in DOMAIN k.calls : k.calls[i].from.k = "callback" =>
          FuncOf(k, i) \in DOMAIN k.callbacks /\ i \in body(k, FuncOf(k, i))
    /\ k.callbacks # <<>> =>
          \A i \in DOMAIN k.calls : i \in body(k, 1) => k.calls[i].from.k \notin {"reg", "slot"}

-----------------------------------------------------------------------------
(* The rewritten code: originals in order, and the gaps between them.       *)

InSpan(w, j) == \E n \in DOMAIN w.spans : w.spans[n].from <= j /\ j <= w.spans[n].to
Labelled(w, i) ==
    {j \in DOMAIN w.code : \/ w.code[j].old = i /\ ~InSpan(w, j)
                           \/ w.code[j].ins.op = "callw" /\ w.code[j].ins.imm = i}
fromLabels(w) == [i \in ToSet(Pcs(w.case)) |-> CHOOSE j \in Labelled(w, i) : TRUE]
Ordered(w) ==
    /\ \A i \in ToSet(Pcs(w.case)) : Cardinality(Labelled(w, i)) = 1
    /\ \A place \in {fromLabels(w)} : \A h, i \in DOMAIN place : h < i => place[h] < place[i]

Ins(w, j) == w.code[j].ins
InsAt(w, js) == [n \in DOMAIN js |-> Ins(w, js[n])]

\* The inserted slots before each original and after the last one.
gaps(w, place) ==
    LET end == Len(w.case.code) + 1
        at(i) == IF i = end THEN Len(w.code) + 1 ELSE place[i]
        inserted == SelectSeq([j \in DOMAIN w.code |-> j], LAMBDA j :
            /\ Ins(w, j).op \notin {"pad", "hookbody"} /\ ~InSpan(w, j)
            /\ \A i \in DOMAIN place : place[i] # j)
    IN  [i \in DOMAIN place \union {end} |->
            SelectSeq(inserted, LAMBDA j :
                j < at(i) /\ \A h \in DOMAIN place : place[h] < at(i) => place[h] < j)]

Whole(g) == \A n \in 2..Len(g) : g[n] = g[n - 1] + 1

terminal(ins) == ins.op \in {"exit", "ja"}
NoFallThrough(w) ==
    LET first == {w.spans[n].from : n \in DOMAIN w.spans}
                 \union {j \in DOMAIN w.code : /\ Ins(w, j).op = "hookbody"
                                               /\ j = 1 \/ Ins(w, j - 1).op # "hookbody"}
    IN  \A j \in first : j > 1 /\ (terminal(Ins(w, j - 1)) \/ Ins(w, j - 1).op = "hookbody")

Drop(g, n) == SubSeq(g, n + 1, Len(g))
Keep(g, n) == SubSeq(g, 1, Len(g) - n)

\* The prologues of passed-to functions and callbacks, and the loads before
\* calls that pass the context: their instructions, then the gaps without.
PassCalls(k) == {i \in DOMAIN k.code : /\ k.code[i].op = "callf"
                                       /\ Target(i, k.code[i]) \in DOMAIN k.passes
                                       /\ ~k.passes[Target(i, k.code[i])].saved}
PassInto(k, i) == k.passes[Target(i, k.code[i])]

ContextSlot(k, i) == FloorAt(k, i) - 8

Prologues(w, g) ==
    LET k == w.case
        entrySpilled == g[1] # <<>>
    IN  /\ \A f \in DOMAIN k.passes :
              /\ ContextSlot(k, f) >= StackBottom
              /\ g[f] # <<>> /\ Ins(w, Head(g[f])) = Store(ContextSlot(k, f), k.passes[f].reg)
        /\ \A i \in PassCalls(k) :
              /\ FuncOf(k, i) = 1 => entrySpilled
              /\ g[i] # <<>> /\ Ins(w, Last(g[i])) = Load(PassInto(k, i).reg, ContextSlot(k, i))
        /\ \A f \in DOMAIN k.callbacks :
              /\ entrySpilled /\ Len(g[f]) >= 2
              /\ Ins(w, g[f][1]) = I("ldx", 0, k.callbacks[f].param,
                                     ContextSlot(k, 1) - k.callbacks[f].arg, 8)
              /\ Ins(w, g[f][2]) = Store(ContextSlot(k, f), 0)

WithoutPrologues(w, g) ==
    LET k == w.case
        head(i) == IF i \in DOMAIN k.passes THEN 1 ELSE IF i \in DOMAIN k.callbacks THEN 2 ELSE 0
    IN  [i \in DOMAIN g |-> Keep(Drop(g[i], head(i)), IF i \in PassCalls(k) THEN 1 ELSE 0)]

\* A site whose helper moved to a wrapper: one load, then the call.
wrapped(w, place) == {i \in DOMAIN place : Ins(w, place[i]).op = "callw"}
WrappersCalled(w, place) ==
    /\ Len(w.spans) = Cardinality(wrapped(w, place))
    /\ \A n \in DOMAIN w.spans : Ins(w, w.spans[n].from).imm \in wrapped(w, place)

stackSpill(ins) == ins.op = "stx" /\ ins.dst = RFP /\ ins.imm = 8

SpillsBack(w, g) ==
    LET n[m \in 0..Len(g)] == IF m < Len(g) /\ stackSpill(Ins(w, g[Len(g) - m]))
                              THEN n[m + 1] ELSE m
    IN  n[0]

\* How many slots before a helper are its prelude.
PreludeLen(w, place, g, i) ==
    LET ctx  == siteCtx(w.case, i)
        back == SpillsBack(w, g)
        rest == Keep(g, back)
    IN  IF i \in wrapped(w, place) THEN 1
        ELSE IF w.case.code[i].op # "help" THEN 0
        ELSE IF /\ rest # <<>> /\ back > 0 /\ ctx.k = "slot"
                /\ Ins(w, Last(rest)) = Load(0, ctx.v)
             THEN back + 1 + SpillsBack(w, Front(rest))
             ELSE back

checkBefore(k, i, code) ==
    LET f == FloorAt(k, i)
        op == IF IsSite(k, i) THEN k.calls[i].op ELSE "lookup"
        ctx == siteCtx(k, i)
        withCtx == CASE ctx.k = "reg"  -> {<<Store(f - 8, ctx.v)>>}
                     [] ctx.k = "none" -> {<<>>}
                     [] ctx.v >= k.floors[FuncOf(k, i)] /\ ctx.v % 8 = 0 ->
                          {<<Load(0, ctx.v), Store(f - 8, 0)>>}
                     [] OTHER -> {}
        map(withMap, r) == When(withMap, <<Store(f - 32, r)>>)
        tail(withMap) == <<Store(f - 16, 3)>> \o map(withMap, 2)
        call(withMap) ==
            <<Store(f - 16, 2)>>
            \o When(op = "update", <<Store(f - 24, 4), Store(IF withMap THEN f - 40 ELSE f - 32, 3)>>)
            \o When(op = "push", <<Store(f - 24, 3)>>) \o map(withMap, 1)
        variants == IF op = "tail"
                    THEN {tail(m) : m \in BOOLEAN} \union {tail(m) \o <<Store(f - 8, 1)>> : m \in BOOLEAN}
                    ELSE {call(m) \o init : m \in BOOLEAN, init \in withCtx}
    IN  code \in variants /\ \A n \in DOMAIN code : code[n].off >= StackBottom

checkEntry(k, code) ==
    LET slot == ContextSlot(k, 1)
        args == <<MovImm(2, 2^Half - 1), MovImm(3, 0), MovImm(4, 0), MovImm(5, 0)>>
        call == IF Len(code) = 7 THEN 6 ELSE 2
    IN  /\ slot >= StackBottom /\ code[1] = Store(slot, 1)
        /\ Len(code) > 1 =>
              /\ Len(code) = 7 => SubSeq(code, 2, 5) = args
              /\ Len(code) = call + 1 /\ Last(code) = Load(1, slot)
              /\ code[call].op = "hook"
              /\ consume(k, 0, "any", code[call].name, FALSE) # {}

-----------------------------------------------------------------------------
(* checkAfter: every path of a postlude, on values known by their origin.   *)

Sym(id, n) == [id |-> id, n |-> n]
Undefined == Sym("undefined", 0)
Opaque == Sym("opaque", 0)
Result == Sym("result", 0)
Saved == Sym("context", 0)

\* e: the case, the site, its code, its slots' base, what the helper is.
Written2(stack, at, w, v) ==
    {c \in stack : c.at + c.w <= at \/ at + w <= c.at} \union {[at |-> at, w |-> w, v |-> v]}
Held(stack, at) == {c.v : c \in {c \in stack : c.at = at}}

Entering(e, prelude, entryCtx) ==
    LET ctx == siteCtx(e.k, e.site)
        start == [regs |-> [r \in 0..RFP |-> IF r = RFP THEN Sym("frame", 0)
                                ELSE IF ctx.k = "reg" /\ ctx.v = r THEN Saved ELSE Sym("arg", r)],
                  stack |-> (IF entryCtx THEN {[at |-> e.f - 8, w |-> 8, v |-> Saved]} ELSE {})
                            \union (IF ctx.k = "slot" THEN {[at |-> ctx.v, w |-> 8, v |-> Saved]} ELSE {})]
        run(st, ins) ==
            IF ins.op = "ldx"
            THEN [st EXCEPT !.regs[ins.dst] =
                     IF Held(st.stack, ins.off) = {} THEN Undefined
                     ELSE CHOOSE v \in Held(st.stack, ins.off) : TRUE]
            ELSE [st EXCEPT !.stack = Written2(@, ins.off, 8, st.regs[ins.src])]
        after == FoldLeft(run, start, prelude)
    IN  [regs |-> [r \in 0..RFP |-> IF r = 0 /\ ~e.tail THEN Result
                                    ELSE IF r \in 0..5 THEN Undefined ELSE after.regs[r]],
         stack |-> after.stack, calls |-> 0, when |-> "any"]

CanRead(st, r) == (r \in 0..5 \/ r = RFP) /\ st.regs[r] # Undefined

RoleHolds(e, st, role, v) ==
    CASE role = "ctx"   -> v \in Held(st.stack, e.f - 8)
      [] role = "site"  -> v = Sym("imm", e.site)
      [] role = "key"   -> v \in Held(st.stack, e.f - 16)
      [] role = "value" -> v = Result \/ (v.id = "frame" /\ v.n < e.f - 32)
      [] role = "map"   -> v \in Held(st.stack, e.f - 32)

plannedArgs(e, st, args) ==
    /\ \A n \in DOMAIN args : RoleHolds(e, st, args[n], st.regs[n])
    /\ \A r \in (Len(args) + 1)..5 : st.regs[r] = Undefined

\* A generic hook's R3 to R5, by the helper; a dispatch tail call's.
GenericArgs(e, st) ==
    LET map == Held(st.stack, e.f - 32)
        key == Held(st.stack, e.f - 16)
        zero(r) == st.regs[r] = Sym("zero", 0)
    IN  IF e.tail /\ map # {}
        THEN st.regs[3] = Sym("frame", e.f - 16) /\ zero(4) /\ st.regs[5] \in map
        ELSE Sym("arg", 1) \in map =>
              /\ st.regs[5] \in map
              /\ CASE e.op = "lookup" -> st.regs[3] \in key /\ st.regs[4] = Result
                   [] e.op = "update" -> st.regs[3] \in key /\ st.regs[4] \in Held(st.stack, e.f - 40)
                   [] e.op = "delete" -> st.regs[3] \in key /\ zero(4)
                   [] OTHER -> zero(3) /\ st.regs[4] \in key

StoreOk(e, st, n) ==
    LET ins == e.code[n]
        saved == /\ ins.off = e.f - 24 /\ ins.src = 0 /\ ins.imm = 8
                 /\ n = 1 \/ (n = 2 /\ e.code[1].op = "ldx")
        copy == /\ e.lookup /\ st.calls = 0 /\ n > 1 /\ ins.src = 1 /\ ins.off + ins.imm <= e.f - 32
                /\ e.code[n - 1] = I("ldx", 1, 0, e.code[n - 1].off, ins.imm) /\ e.code[n - 1].off >= 0
    IN  /\ ins.dst = RFP /\ ins.off >= StackBottom /\ ins.off + ins.imm <= e.f
        /\ CanRead(st, ins.src) /\ (saved \/ copy)

LoadOk(e, st, n) ==
    LET ins == e.code[n]
    IN  /\ ins.dst \in 0..5 /\ (ins.dst = 0 => n = Len(e.code))
        /\ IF ins.src = RFP THEN \E c \in st.stack : c.at = ins.off /\ c.w = ins.imm
           ELSE /\ e.lookup /\ st.calls = 0 /\ ins.src = 0 /\ ins.dst = 1 /\ ins.off >= 0
                /\ n < Len(e.code) /\ e.code[n + 1].op = "stx" /\ CanRead(st, 0)

ALUs == {"mov", "movi", "mov32", "add", "and", "lsh", "or"}
ALUOk(e, st, ins) ==
    /\ ins.dst \in 1..5
    /\ ins.op \in {"mov", "mov32", "or"} => CanRead(st, ins.src)
    /\ ins.op \notin {"mov", "movi", "mov32"} => CanRead(st, ins.dst)
    /\ ins.op = "add" => /\ st.regs[ins.dst].id = "frame"
                         /\ ins.imm >= StackBottom /\ ins.imm < e.f
                         /\ st.regs[ins.dst].n + ins.imm \in StackBottom..(e.f - 1)

ALUValue(st, ins) ==
    CASE ins.op = "mov"  -> st.regs[ins.src]
      [] ins.op = "movi" -> IF ins.imm = 0 THEN Sym("zero", 0) ELSE Sym("imm", ins.imm)
      [] ins.op = "add"  -> [st.regs[ins.dst] EXCEPT !.n = @ + ins.imm]
      [] OTHER -> Opaque

Guards == {"jeq0", "jne0", "jsge32"}
BranchOk(e, st, n) ==
    LET ins == e.code[n]
        to == n + 1 + ins.off
    IN  /\ ins.off >= 0 /\ to <= Len(e.code) + 1
        /\ ins.op = "ja" => ~e.lookup \/ to >= Len(e.code)
        /\ ins.op # "ja" =>
              /\ ~e.tail /\ CanRead(st, 0)
              /\ ins.op \in IF e.lookup THEN {"jeq0", "jne0"} ELSE {"jsge32"}

\* The result on the branch taken and on the one that falls through.
Arms(op) == CASE op = "jeq0" -> [taken |-> "miss", fall |-> "hit"]
              [] op = "jne0" -> [taken |-> "hit", fall |-> "miss"]
              [] OTHER -> [taken |-> "success", fall |-> "error"]

\* Mutant: a path may end with any R0.
EndOkAnyResult(e, st) == st.calls # 0 \/ ~planned(e.k, e.site, st.when, e.lookup)

EndOk(e, st) ==
    /\ st.calls # 0 \/ ~planned(e.k, e.site, st.when, e.lookup)
    /\ e.tail \/ st.regs[0] = Result

CallOk(e, st, name) ==
    LET bound == consume(e.k, e.site, st.when, name, e.lookup /\ st.when \in {"hit", "miss"})
    IN  /\ st.calls = 0 /\ bound # {}
        /\ st.regs[1] \in Held(st.stack, e.f - 8)
        /\ \A t \in bound : t.args # <<>> => plannedArgs(e, st, t.args)
        /\ GenericArgs(e, st)

\* The set of targets used on all paths from n on, or {"rejected"} among them.
Rejected == {[site |-> -1]}

RECURSIVE walk(_, _, _)
walk(e, n, st) ==
    IF n > Len(e.code) THEN (IF EndOk(e, st) THEN {} ELSE Rejected)
    ELSE LET ins == e.code[n]
             on(ok, next) == IF ok THEN walk(e, n + 1, next) ELSE Rejected
         IN  CASE ins.op = "stx" ->
                    on(StoreOk(e, st, n), [st EXCEPT !.stack = Written2(@, ins.off, ins.imm, st.regs[ins.src])])
               [] ins.op = "ldx" ->
                    on(LoadOk(e, st, n), [st EXCEPT !.regs[ins.dst] =
                        IF ins.src = RFP THEN CHOOSE v \in Held(st.stack, ins.off) : TRUE ELSE Opaque])
               [] ins.op \in ALUs ->
                    on(ALUOk(e, st, ins), [st EXCEPT !.regs[ins.dst] = ALUValue(st, ins)])
               [] ins.op = "hook" ->
                    IF ~CallOk(e, st, ins.name) THEN Rejected
                    ELSE consume(e.k, e.site, st.when, ins.name, e.lookup /\ st.when \in {"hit", "miss"})
                         \union walk(e, n + 1, [st EXCEPT !.calls = 1, !.regs = [r \in 0..RFP |->
                                    IF r = 0 THEN Opaque ELSE IF r \in 1..5 THEN Undefined ELSE @[r]]])
               [] ins.op = "ja" /\ BranchOk(e, st, n) -> walk(e, n + 1 + ins.off, st)
               [] ins.op \in Guards /\ BranchOk(e, st, n) ->
                    walk(e, n + 1, [st EXCEPT !.when = Arms(ins.op).fall])
                    \union walk(e, n + 1 + ins.off, [st EXCEPT !.when = Arms(ins.op).taken])
               [] OTHER -> Rejected

Count(e, ops) == Cardinality({n \in DOMAIN e.code : e.code[n].op \in ops})

checkAfter(e, prelude, entryCtx) ==
    LET save == IF e.code[1].op = "ldx" THEN 2 ELSE 1
        calls == Count(e, {"hook"})
        guards == Count(e, Guards)
        branches == Count(e, Guards \union {"ja"})
    IN  IF /\ ~e.tail => /\ Len(e.code) > save
                         /\ e.code[save] = Store(e.f - 24, 0) /\ Last(e.code) = Load(0, e.f - 24)
           /\ IF e.lookup
              THEN calls \in 1..2 /\ guards = 1 /\ branches <= 2 /\ e.code[2].op \in {"jeq0", "jne0"}
              ELSE calls = 1 /\ branches <= 1 /\ guards = branches /\ (e.tail => branches = 0)
        THEN walk(e, 1, Entering(e, prelude, entryCtx))
        ELSE Rejected

-----------------------------------------------------------------------------
(* A wrapper is compared with the one function the plan allows.             *)

checkWrapperPrelude(k, i, ins, entryCtx) ==
    LET from == CtxFrom(k, i)
        v == k.calls[i].from.v
    IN  CASE from = "reg" -> ins = Mov(4, v)
          [] from = "slot" -> v < 0 /\ v >= k.floors[FuncOf(k, i)] /\ ins = Load(4, v)
          [] from = "entry" /\ entryCtx -> ContextSlot(k, i) >= StackBottom /\ ins = Load(4, ContextSlot(k, i))
          [] OTHER -> FALSE

WrapperArm(i, t) ==
    [n \in DOMAIN t.args |->
        CASE t.args[n] = "site" -> MovImm(n, i) [] t.args[n] = "ctx" -> Mov(n, 6)
          [] t.args[n] = "key" -> Mov(n, 7) [] t.args[n] = "value" -> Mov(n, 0)
          [] t.args[n] = "map" -> Mov(n, 9)] \o <<CallLabel(t.hook)>>

\* The bodies for the bound targets H on a hit and M on a miss.
WrapperBodies(H, M, onHit, onMiss) ==
    LET skip(op, armCode) == <<Jump(op, Len(armCode))>> \o armCode
        either(op, a, b) == <<Jump(op, Len(a) + 1)>> \o a \o skip("ja", b)
    IN  CASE H # {} /\ M # {} -> {either("jeq0", onHit, onMiss), either("jne0", onMiss, onHit)}
          [] H # {} -> {skip("jeq0", onHit), <<Jump("jne0", 1)>> \o skip("ja", onHit)}
          [] OTHER -> {skip("jne0", onMiss)}

AllowedWrappers(i, H, M) ==
    LET armOf(T) == IF T = {} THEN <<>> ELSE WrapperArm(i, CHOOSE t \in T : TRUE)
        first == [Mov(6, 4) EXCEPT !.name = "wrapper", !.imm = i]
    IN  {<<first, Mov(7, 2)>> \o When(\E t \in H \union M : "map" \in ToSet(t.args), <<Mov(9, 1)>>)
         \o <<I("help", 0, 0, 0, 0), Mov(8, 0)>> \o b \o <<Mov(0, 8), I("exit", 0, 0, 0, 0)>>
            : b \in WrapperBodies(H, M, armOf(H), armOf(M))}

WrapperUse(k, i, code, H, M) ==
    IF k.calls[i].op = "lookup" /\ H \union M # {} /\ code \in AllowedWrappers(i, H, M)
    THEN H \union M ELSE Rejected

checkWrapper(k, i, code) == WrapperUse(k, i, code, arm(k, i, "hit"), arm(k, i, "miss"))

\* Where a branch to each original must land: on a helper's prelude, on the
\* load before a call that passes the context, past the entry's prologue.
Starts(place, g, len, loads) ==
    [i \in DOMAIN place |->
        IF i \in loads \/ (i # 1 /\ len[i] > 0)
        THEN place[i] - (IF i \in loads THEN 1 ELSE len[i]) ELSE place[i]]

Heads(k, g) == [f \in DOMAIN k.passes \union DOMAIN k.callbacks |-> Head(g[f])]

SameOriginal(w, place, starts, heads, i) ==
    LET a == w.case.code[i]
        b == Ins(w, place[i])
        t == Target(i, a)
    IN  IF ~Edge(a) THEN a = b
        ELSE /\ [a EXCEPT !.off = 0] = [b EXCEPT !.off = 0]
             /\ ~(IsFunction(a) /\ t = 1)
             /\ Target(place[i], b) = IF IsFunction(a) /\ t \in DOMAIN heads THEN heads[t] ELSE starts[t]

stackAudit(k, i) ==
    LET ins == k.code[i]
    IN  \/ ins.op = "ldx" /\ ins.src = RFP
        \/ ins.op = "stx" /\ ins.dst = RFP
        => ins.off >= k.floors[FuncOf(k, i)]

\* What the site at i uses of the plan, from its prelude, its gap after and
\* its wrapper; nothing for an instruction with neither.
SiteUse(w, place, prelude, after, i, entrySpilled) ==
    LET k == w.case
        op == IF IsSite(k, i) THEN k.calls[i].op ELSE "lookup"
        entryEnd == \A f \in k.starts \ {1} : i < f
        entryCtx == entrySpilled /\ entryEnd
        e == [k |-> k, site |-> i, code |-> after, f |-> FloorAt(k, i), op |-> op,
              lookup |-> op = "lookup", tail |-> op = "tail"]
        span == CHOOSE n \in DOMAIN w.spans : Ins(w, w.spans[n].from).imm = i
    IN  IF i \in wrapped(w, place)
        THEN IF after # <<>> \/ ~checkWrapperPrelude(k, i, prelude[1], entryCtx) THEN Rejected
             ELSE checkWrapper(k, i, InsAt(w, [n \in 1..(w.spans[span].to - w.spans[span].from + 1) |->
                                                  w.spans[span].from + n - 1]))
        ELSE IF prelude # <<>>
        THEN IF after = <<>> \/ ~checkBefore(k, i, prelude) THEN Rejected
             ELSE checkAfter(e, prelude, entryCtx \/ callbackSite(k, i))
        ELSE IF after # <<>> THEN Rejected ELSE {}

\* Everything after the layout, on the gaps g of a well-ordered code: g3 without
\* the prologues, len the length of each prelude, left what no prelude takes.
GapsChecked(w, place, g, g3, len, left) ==
    /\ \A i \in wrapped(w, place) : g3[i] # <<>>
    /\ \A i \in DOMAIN place : stackAudit(w.case, i)
    /\ \A starts \in {Starts(place, g3, len, PassCalls(w.case))}, heads \in {Heads(w.case, g)} :
         \A i \in DOMAIN place \ wrapped(w, place) : SameOriginal(w, place, starts, heads, i)
    /\ left[1] # <<>> => checkEntry(w.case, InsAt(w, left[1]))
    /\ UNION {SiteUse(w, place, InsAt(w, SubSeq(g3[i], Len(g3[i]) - len[i] + 1, Len(g3[i]))),
                      InsAt(w, left[i + Size(w.case, i)]), i, left[1] # <<>>) : i \in DOMAIN place}
       \union (IF Len(left[1]) > 1 THEN Bound(w.case, 0, "any") ELSE {}) = Targets(w.case)

CheckGaps(w, place, g) ==
    \A g3 \in {WithoutPrologues(w, g)} :
    \A len \in {[i \in DOMAIN place |-> PreludeLen(w, place, g3[i], i)]} :
    \A left \in {[i \in DOMAIN g3 |-> Keep(g3[i], IF i \in DOMAIN len THEN len[i] ELSE 0)]} :
        GapsChecked(w, place, g, g3, len, left)

Check(w) ==
    /\ Ordered(w) /\ NoFallThrough(w)
    /\ passFrames(w.case) /\ callbackFrames(w.case)
    /\ \A place \in {fromLabels(w)} : \A g \in {gaps(w, place)} :
          /\ \A i \in DOMAIN g : Whole(g[i])
          /\ WrappersCalled(w, place) /\ Prologues(w, g)
          /\ CheckGaps(w, place, g)

-----------------------------------------------------------------------------
CheckInit ==
    /\ \E k \in Cases : \E w \in Tampered(k) :
          /\ lookupJob = w /\ verdict = "pending"
          /\ lookupDue = IF ~k.entry.on THEN <<>>
                         ELSE IF k.entry.dispatch
                         THEN <<Due("entry", <<Ctx, Num(2^Half - 1), Num(0), Num(0), Num(0)>>)>>
                         ELSE <<Due("entry", <<Ctx>>)>>
    /\ lookupO = Entered
    /\ lookupS = Entered

\* A program the verifier loads: it reads what it may.
Valid == Running => Here.old # 0 \/ Readable(lookupS, Here.ins, "lookup")

accepted == verdict = "accepted"

Validate ==
    /\ verdict = "pending"
    /\ verdict' = IF Check(lookupJob) THEN "accepted" ELSE "rejected"
    /\ UNCHANGED lookupVars

CheckNext ==
    \/ Validate
    \/ /\ accepted /\ Valid
       /\ Inserted \/ Original
       /\ UNCHANGED verdict

CheckSpec == CheckInit /\ [][CheckNext]_checkVars

-----------------------------------------------------------------------------
(* Check on what pkg/inject emits: the rewriter and the checker agree, so   *)
(* that no load is refused for the checker's own sake.                      *)
AcceptsTheTransform == ~lookupJob.tampered => verdict # "rejected"

(* "every hint and every otherwise unaccounted bytecode instruction is      *)
(* checked": code that Check accepts runs the original's instructions in    *)
(* order on the original's registers and stack, whatever was changed in it. *)
AcceptedRunsTheOriginal == accepted /\ Valid => SameExecution

\* The arguments Check binds to the plan, for the hook call being made.
Vouched ==
    LET i == lookupO.pc - 1
        c == lookupJob.case.calls[i]
    IN  IF i \notin DOMAIN lookupJob.case.calls THEN 1..5
        ELSE IF c.op = "lookup" THEN 1..5
        ELSE {1} \union (IF c.withMap THEN 3..5 ELSE {})

(* SiteTarget: in code that Check accepts each observed result calls its    *)
(* planned hook once and no other, and a lookup's hook is given its         *)
(* context, site, key and map, and the result or a copy in the stack.       *)
AcceptedHooksArePlanned ==
    accepted /\ Valid /\ OriginalFine =>
        /\ Running /\ Here.ins.op = "hook" =>
              /\ lookupDue # <<>> /\ Here.ins.name = Head(lookupDue).name
              /\ \A r \in Vouched : LET want == Head(lookupDue).args[r]
                                    IN  IF want.k = "copy" THEN lookupS.regs[r].k \in {"fp", "val"}
                                        ELSE ArgMatches(lookupS, want, lookupS.regs[r])
        /\ (Running /\ Here.old # 0) \/ lookupS.pc = 0 => lookupDue = <<>>

(* Check accepts the rewriter's own output, and whatever it accepts runs    *)
(* the original with the planned hooks and nothing else.                    *)
CheckSound == AcceptsTheTransform /\ AcceptedRunsTheOriginal /\ AcceptedHooksArePlanned
=============================================================================
