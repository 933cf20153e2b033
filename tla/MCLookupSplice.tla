--------------------------- MODULE MCLookupSplice ---------------------------
(***************************************************************************)
(* Programs with one or two observed helpers in the entry function, in a   *)
(* called function, in a callback and below a chain of passing functions,  *)
(* for every form of hook.                                                 *)
(***************************************************************************)
EXTENDS LookupSplice

X(op) == I(op, 0, 0, 0, 0)
Args(flags) == I("args", 0, 0, 0, flags)
Jcc(off) == I("jcc", 0, 0, off, 0)
LookupEntry == [k |-> "entry", v |-> 0]

LookupPlain(op) ==
    [op |-> op, hook |-> "hook", missHook |-> "miss", when |-> "hit", missFirst |-> FALSE,
     results |-> "any", withSite |-> FALSE, withMap |-> FALSE, dispatch |-> FALSE,
     from |-> LookupEntry, copy |-> 0, wrapper |-> FALSE, pc |-> 0, floor |-> 0]

Form(c, f) == [c EXCEPT !.withSite = f # "plain", !.withMap = f = "generic"]

LookupForms ==
    {[Form(LookupPlain("lookup"), f) EXCEPT !.when = w, !.missFirst = m, !.copy = n] :
        f \in {"plain", "site", "generic"}, w \in {"hit", "miss", "any"}, m \in BOOLEAN, n \in {0, 13}}

CallForms ==
    {[Form(LookupPlain(op), f) EXCEPT !.results = r] :
        op \in {"update", "delete", "push", "pop", "peek"}, f \in {"site", "generic"}, r \in {"any", "error"}}

\* A generic hook gets no copy; a wrapper only takes lookups without one.
Forms == {c \in LookupForms : c.copy = 0 \/ ~c.withMap} \union CallForms
LookupWrapped == {[c EXCEPT !.wrapper = TRUE] : c \in {c \in LookupForms : c.copy = 0}}

\* r7 set between the arguments and the helper, so that a branch can reach
\* the helper itself; first is what the function does first.
Body(first, flags, j1, j2) ==
    <<first, MovImm(0, 3), X("ldmap"), X("pad"), Args(flags), Jcc(j1), MovImm(7, 1),
      X("help"), Jcc(j2), X("exit")>>

Flags(c) == IF HasFlags(c) THEN {2, 9} ELSE {2}
Jumps == {<<1, 0>>, <<-6, 0>>, <<1, -8>>, <<3, -7>>}
\* Not back to the first instruction, where R1 no longer is the context.
HeldJumps == {<<1, 0>>, <<-5, 0>>, <<1, -8>>, <<3, -7>>}
NoHook == [on |-> FALSE, dispatch |-> FALSE]
EntryHooks == {NoHook, [on |-> TRUE, dispatch |-> FALSE], [on |-> TRUE, dispatch |-> TRUE]}

Case(code, starts, floors, calls) ==
    [code |-> code, starts |-> starts, floors |-> floors, calls |-> calls,
     passes |-> <<>>, callbacks |-> <<>>, entry |-> NoHook]

LookupAt(i, c) == [j \in {i} |-> c]

InEntry ==
    UNION {{[Case(Body(Mov(6, 1), n, j[1], j[2]), {1}, [f \in {1} |-> -12], LookupAt(8, c)) EXCEPT !.entry = e] :
                n \in Flags(c), j \in Jumps, e \in EntryHooks} :
           c \in Forms \union LookupWrapped}

\* Called from the entry at 2, the function starts at 5.
Called(before5, body, c, from) ==
    Case(<<Mov(6, 1), before5, MovImm(0, 0), X("exit")>> \o body, {1, 5},
         [f \in {1, 5} |-> IF f = 1 THEN 0 ELSE -8], LookupAt(12, [c EXCEPT !.from = from]))

CallF == I("callf", 0, 0, 2, 0)

InFunction ==
    UNION {UNION {
        {Called(CallF, Body(Mov(6, 1), 2, j[1], j[2]), c, [k |-> "reg", v |-> 6]),
         Called(CallF, Body(I("stx", RFP, 1, -8, 8), 2, j[1], j[2]), c, [k |-> "slot", v |-> -8])} :
        j \in HeldJumps} : c \in Forms \union LookupWrapped}

Passed ==
    {[Called(CallF, Body(MovImm(6, 4), 2, j[1], j[2]), c, [k |-> "pass", v |-> 0])
        EXCEPT !.passes = LookupAt(5, p)] :
        c \in Forms, j \in Jumps, p \in {[reg |-> 5, saved |-> FALSE], [reg |-> 1, saved |-> TRUE]}}

\* entry -> 5 -> 8, both passing, the call branched to.
PassChain ==
    {[Case(<<MovImm(6, 0), I("callf", 0, 0, 2, 0), MovImm(0, 0), X("exit"),
             Jcc(0), I("callf", 0, 0, 1, 0), X("exit")>> \o Body(MovImm(6, 4), 2, j[1], j[2]),
           {1, 5, 8}, [f \in {1, 5, 8} |-> -8], LookupAt(15, [c EXCEPT !.from = [k |-> "pass", v |-> 0]]))
        EXCEPT !.passes = [f \in {5, 8} |-> [reg |-> IF f = 5 THEN 5 ELSE 4, saved |-> FALSE]]] :
        c \in Forms, j \in Jumps}

InCallback ==
    {[Case(<<I("stx", RFP, 1, -8, 8), Mov(3, RFP), I("add", 3, 0, 0, -8),
             I("ldfn", 2, 0, 4, 0), X("pad"), X("loop"), MovImm(0, 0), X("exit")>>
           \o Body(Mov(6, 2), 2, j[1], j[2]), {1, 9}, [f \in {1, 9} |-> -8],
           LookupAt(16, [c EXCEPT !.from = [k |-> "callback", v |-> 0]]))
        EXCEPT !.callbacks = LookupAt(9, [param |-> 2, arg |-> -8])] :
        c \in Forms, j \in Jumps}

TailForms ==
    {[LookupPlain("tail") EXCEPT !.withSite = TRUE, !.withMap = d, !.dispatch = d, !.from = [k |-> k, v |-> 0]] :
        d \in BOOLEAN, k \in {"entry", "r1"}}

Tails ==
    {[Case(<<MovImm(6, 1), I("tailargs", 0, 0, 0, n), Jcc(j), MovImm(7, 1), X("help"),
             MovImm(0, 0), X("exit")>>, {1}, [f \in {1} |-> fl], LookupAt(5, c)) EXCEPT !.entry = e] :
        c \in TailForms, n \in {1, 259}, j \in {0, 1, -2}, fl \in {0, -8}, e \in EntryHooks}

\* Two sites sharing the slots of one function.
Two ==
    {Case(<<Mov(6, 1), X("ldmap"), X("pad"), Args(2), X("help"), Jcc(0),
            X("ldmap"), X("pad"), Args(9), X("help"), Jcc(-10), X("exit")>>, {1},
          [f \in {1} |-> -8], [i \in {5, 10} |-> IF i = 5 THEN c ELSE d]) :
        c \in {c \in Forms : ~c.missFirst /\ c.copy # 13}, d \in CallForms}

MCCases == InEntry \union Tails \union InFunction \union Passed \union PassChain
           \union InCallback \union Two

MCRets == {0, 1, 254, 2^24 - 2}
=============================================================================
