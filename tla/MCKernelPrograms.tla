-------------------------- MODULE MCKernelPrograms -------------------------
(***************************************************************************)
(* For TLC, one at a time, the programs that run in the kernel: the two    *)
(* halves of a gated probe (GatedHold); the plan of a rewrite (LookupPlan),*)
(* the rewrite of map and tail calls (LookupSplice) and of a load          *)
(* (SiteSplice), and the supervised load of the result (InjectLoad: two    *)
(* fds and two BTF objects of the target; the cache holds either, not      *)
(* both).                                                                  *)
(***************************************************************************)
EXTENDS GatedHold, MCLookupSplice, LookupPlan, SiteSplice, InjectLoad

-----------------------------------------------------------------------------
(* Programs of up to three map calls from templates that differ in what the *)
(* planner tells apart: the map, where the site is, how it gets its         *)
(* context, what it may pass.  Floors put the slots just inside and just    *)
(* outside the 480- and 512-byte frame limits.                              *)

S(op, map, fn, src) ==
    [pc |-> 0, op |-> op, map |-> map, id |-> "m", fn |-> fn, src |-> src,
     chain |-> IF src = "pass" THEN {fn} ELSE {}, arg |-> -8, ro |-> FALSE,
     readOnlyMap |-> 0, wrapped |-> FALSE, reason |-> "", generic |-> FALSE,
     noFloor |-> FALSE]
Typed   == [S("lookup", <<"a">>, "main", "entry") EXCEPT !.id = "a"]
ReadKey == [Typed EXCEPT !.ro = TRUE]
Copied  == [Typed EXCEPT !.id = "r", !.map = <<"r">>, !.readOnlyMap = 12]
Runtime == [Typed EXCEPT !.id = "", !.map = <<>>, !.generic = TRUE, !.reason = "generic"]
Update  == [Typed EXCEPT !.op = "update"]
Wrong   == [Typed EXCEPT !.reason = "map"]
PlanHeld    == [Typed EXCEPT !.fn = "sub", !.src = "held"]
PlanPassed  == [Typed EXCEPT !.fn = "sub", !.src = "pass", !.chain = {"sub"}]
PassedMap == [PlanPassed EXCEPT !.generic = TRUE, !.reason = "generic", !.id = "", !.map = <<>>]
PlanCalled  == [Typed EXCEPT !.fn = "cb", !.src = "callback"]
CalledRO == [PlanCalled EXCEPT !.ro = TRUE]
CalledLow == [PlanCalled EXCEPT !.arg = -64]
CalledCopy == [Copied EXCEPT !.fn = "cb", !.src = "callback"]

PlanAt(seq) == [i \in DOMAIN seq |-> [seq[i] EXCEPT !.pc = i]]
Pairs(T) == {PlanAt(<<a>>) : a \in T} \union {PlanAt(<<a, b>>) : a \in T, b \in T}
Triples(T) == {PlanAt(<<a, b, c>>) : a \in T, b \in T, c \in T}

R == [auto |-> TRUE, entry |-> FALSE, tails |-> FALSE, dispatch |-> FALSE,
      copyReadOnly |-> FALSE, lookups |-> "hit", updates |-> "", maps |-> <<>>,
      site |-> NoSite]
Frame(lowest, aud, main, sub, cb, r) ==
    [lowest |-> lowest, audited |-> aud, rounding |-> r,
     floor |-> [fn \in {"main", "sub", "cb"} |->
        IF fn = "main" THEN main ELSE IF fn = "sub" THEN sub ELSE cb]]
All3 == {"main", "sub", "cb"}
Flat == Frame(-16, {}, 0, 0, 0, 32)
PlanFrames ==
    {Flat, Frame(-453, {}, 0, 0, 0, 32), Frame(-488, {}, 0, 0, 0, 16),
     Frame(-16, {"main"}, -16, 0, 0, 32), Frame(-16, {"sub"}, 0, -16, 0, 32)}
    \union {Frame(0, All3, m, s, c, r) :
        m \in {-16, -504, -508}, s \in {-480, -508}, c \in {-16, -456}, r \in {16, 32}}

Family(reqs, sites, tails, frames, breaks, loses, fails) ==
    [reqs |-> reqs, sites |-> sites, tails |-> {tails}, frames |-> frames,
     breaks |-> breaks, loses |-> loses, fails |-> {fails}]
TailsIn == <<[pc |-> 8, fn |-> "main"], [pc |-> 9, fn |-> "sub"]>>

\* Frames: what fits, wraps, shrinks or is skipped.
FitReqs ==
    {R, [R EXCEPT !.copyReadOnly = TRUE], [R EXCEPT !.dispatch = TRUE],
     [R EXCEPT !.entry = TRUE, !.tails = TRUE, !.lookups = "any", !.updates = "error"]}
FitFamily ==
    Family(FitReqs, Pairs({Typed, ReadKey, Copied, Runtime, Update, PlanHeld, PlanPassed,
                           PassedMap, PlanCalled, CalledRO, CalledLow, CalledCopy}),
           TailsIn, PlanFrames, {{}}, {{}}, FALSE)

\* Limits and the guard, over every kind of site.
Sets == {{}, {{1}}, {{2}}, {{3}}, {{1, 2}}, {{1}, {3}}}
LimitFamily ==
    Family({R, [R EXCEPT !.entry = TRUE]}, Triples({Typed, Runtime, PlanPassed, PlanCalled}),
           TailsIn, {Flat}, Sets, {{}, {{2}}, {{1, 3}}, {{1, 2}}}, TRUE)
TailReq == [R EXCEPT !.tails = TRUE]
TailFamily ==
    Family({TailReq}, Pairs({Typed, Runtime, PlanPassed, PlanCalled}), TailsIn, {Flat},
           Sets \union {{{8}}, {{1, 9}}}, {{{9}}, {{1, 9}}, {{1}, {9}}}, TRUE)

\* Names that meet: a map called like another's suffixed hook or a reserved one.
PlanNamed(op, m) == [Typed EXCEPT !.op = op, !.map = m, !.id = ToString(m)]
NameSites == {PlanNamed("lookup", m) : m \in {<<"a">>, <<"a", "miss">>, <<"a", "update">>,
                  <<"entry">>, <<"1">>, <<>>, <<"", "site1">>, <<"a", "b", "c", "d">>}}
             \union {PlanNamed("update", <<"a">>), Runtime}
NameFamily ==
    Family({[R EXCEPT !.entry = TRUE, !.lookups = l, !.updates = "any"] :
               l \in {"any", "miss", "none"}},
           Triples(NameSites), <<>>, {Flat, Frame(0, All3, -504, 0, 0, 16)},
           {{}}, {{}}, FALSE)

\* Explicit selection, the Maps filter and requests that are refused.
ExplicitReqs ==
    {[R EXCEPT !.auto = FALSE, !.site = [map |-> m, fn |-> fn, pcs |-> p, all |-> a],
               !.lookups = l, !.entry = e] :
        m \in {<<"a">>, <<"r">>, <<>>}, fn \in {"", "sub"}, p \in {<<>>, <<1>>, <<1, 2>>, <<1, 1>>},
        a \in BOOLEAN, l \in {"hit", "any", "none"}, e \in BOOLEAN}
    \union {[R EXCEPT !.maps = m] : m \in {<<<<"a">>>>, <<<<"a">>, <<"a">>>>, <<<<"r">>, <<"a">>>>}}
    \union {[R EXCEPT !.updates = "any", !.auto = FALSE, !.entry = TRUE],
            [R EXCEPT !.dispatch = TRUE, !.copyReadOnly = TRUE]}
ExplicitFamily ==
    Family(ExplicitReqs, Pairs({Typed, Copied, Wrong, PlanHeld, PlanPassed}), <<>>,
           {Flat, Frame(-488, {}, 0, 0, 0, 32)}, {{}}, {{}}, FALSE)

AllFamilies == {FitFamily, LimitFamily, TailFamily, NameFamily, ExplicitFamily}

-----------------------------------------------------------------------------
(* Short programs around a load: what comes before it, the instruction     *)
(* after it, one that reads a register or branches back, a subprogram.     *)

SiteMov(d, r) == SiteI("mov", d, r, 0, 0)
MovI(d, n) == SiteI("movi", d, 0, 0, n)
SiteJcc(r, off) == SiteI("jcc", r, 0, off, 0)
SiteExit == SiteI("exit", 0, 0, 0, 0)
Pad == SiteI("pad", 0, 0, 0, 0)
Wide(ins) == <<ins, Pad>>

Befores == {<<SiteI("st", SiteRFP, 3, -12, 4)>>, <<SiteI("st", SiteRFP, 3, -8, 8)>>, <<SiteJcc(1, 0)>>, <<SiteJcc(1, 1)>>,
            <<SiteJcc(1, 2)>>, <<SiteI("ja", 0, 0, 1, 0)>>, Wide(SiteI("ldimm", 4, 0, 0, 1))}
Afters  == {<<MovI(1, 9)>>, <<SiteMov(1, 1)>>, <<SiteMov(1, 6)>>, <<SiteI("add", 1, 0, 0, 1)>>, Wide(SiteI("ldimm", 1, 0, 0, 1)),
            <<SiteWord(1, 0, 4)>>, <<SiteWord(1, 1, 4)>>, <<SiteJcc(1, 0)>>}
Lasts   == {<<SiteMov(4, 3)>>, <<SiteMov(4, 2)>>, <<SiteMov(4, 1)>>, <<MovI(3, 1)>>, <<SiteI("ldx", 4, SiteRFP, -12, 4)>>, <<SiteI("ldx", 4, SiteRFP, -8, 8)>>,
            <<SiteJcc(2, -2)>>, <<SiteJcc(2, -3)>>, <<SiteJcc(2, -4)>>, <<SiteJcc(2, 0)>>, <<SiteI("ja", 0, 0, 1, 0), SiteExit>>,
            <<SiteI("call", 0, 0, 0, 1)>>, <<SiteCallLabel("sub")>>, <<SiteCallLabel("hook")>>, <<SiteCallLabel("none")>>,
            Wide(SiteI("ldfn", 4, 0, 0, 2)), <<SiteI("long", 0, 0, 0, 0)>>}
Subs    == {<<>>, <<SiteMov(0, 3), SiteExit>>, <<MovI(0, 1), SiteExit>>}

Program(b, a, l, sub) ==
    <<SiteMov(0, 1), SiteMov(6, 1), MovI(3, 7)>> \o b \o <<SiteWord(2, 0, 4)>> \o a \o l \o <<SiteExit>> \o sub

Job(b, a, l, sub, lowest) ==
    LET k == Program(b, a, l, sub)
        f == Len(k) - 1
    IN  [code |-> k, site |-> 4 + Len(b), off |-> 4, ptrReg |-> 0, hook |-> "hook", names |-> {"main", "sub"},
         lowest |-> lowest, lines |-> {1} \union (IF sub = <<>> THEN {} ELSE {f}), funcs |-> {1} \union (IF sub = <<>> THEN {} ELSE {f}),
         syms |-> IF sub = <<>> THEN [i \in {1} |-> "main"] ELSE [i \in {1, f} |-> IF i = 1 THEN "main" ELSE "sub"]]

Calls(l) == l[1].op \in {"call", "ldfn"}
Ordinary ==
    {Job(b, a, l, sub, lowest) : b \in Befores, a \in Afters, l \in {l \in Lasts : ~Calls(l)},
                                 sub \in {<<>>}, lowest \in {-12, -496, -497}}
    \union {Job(b, a, l, sub, -12) : b \in {<<SiteI("st", SiteRFP, 3, -12, 4)>>, <<SiteJcc(1, 1)>>}, a \in {<<MovI(1, 9)>>, Wide(SiteI("ldimm", 1, 0, 0, 1))},
                                     l \in {l \in Lasts : Calls(l)}, sub \in Subs}

Plain0 == Job(<<SiteJcc(1, 1)>>, <<MovI(1, 9)>>, <<SiteCallLabel("sub")>>, <<MovI(0, 1), SiteExit>>, -12)
\* The other requests that are refused.
Refused ==
    {[Plain0 EXCEPT !.site = i] : i \in 1..9} \union {[Plain0 EXCEPT !.off = 0], [Plain0 EXCEPT !.ptrReg = 2],
     [Plain0 EXCEPT !.names = @ \union {"hook"}], [Plain0 EXCEPT !.lines = {1}], [Plain0 EXCEPT !.funcs = {}],
     [Plain0 EXCEPT !.lowest = 1], [Plain0 EXCEPT !.lowest = -513], [Plain0 EXCEPT !.syms = [i \in DOMAIN @ |-> "sub"]]}

MCJobs == Ordinary \union Refused

\* One inserted instruction changed, dropped or swapped, a branch moved.
SiteCandidates(c) ==
    LET ins == {j \in DOMAIN c : c[j].old = 0 /\ c[j].ins.op # "pad"}
        jumps == {j \in DOMAIN c : c[j].old # 0 /\ c[j].ins.op \in {"jcc", "ja"}}
    IN  {c} \union {[c EXCEPT ![j].ins.off = @ + 8] : j \in ins} \union {[c EXCEPT ![j].ins.dst = r] : j \in ins, r \in 2..3}
            \union {[c EXCEPT ![j].ins.src = 3] : j \in ins} \union {RemoveAt(c, j) : j \in ins}
            \union {[c EXCEPT ![j] = c[j + 1], ![j + 1] = c[j]] : j \in {j \in ins : j + 1 \in ins}}
            \union {[c EXCEPT ![j].ins.off = @ + d] : j \in jumps, d \in {-1, 1}}

-----------------------------------------------------------------------------
(* Two fds and two BTF objects of the target; the cache holds either, not both. *)

MCSize(b) == b

-----------------------------------------------------------------------------
VARIABLE part      \* the component that runs; the others rest

\* The frames a gated hook sees are interchangeable.
FrameSymmetry == Permutations(Frames)

IdleLookup ==
    /\ lookupJob = [code |-> <<>>] /\ lookupDue = <<>>
    /\ lookupO = [Entered EXCEPT !.pc = 0] /\ lookupS = [Entered EXCEPT !.pc = 0]
IdlePlan == planJob = [req |-> [auto |-> FALSE]] /\ plan = Blank /\ old = Blank
IdleSite ==
    /\ siteJob = <<>> /\ status = "refused" /\ siteCode = <<>>
    /\ siteO = SiteEntered /\ siteS = SiteEntered /\ siteDue = <<>>
IdleLoad ==
    /\ LoadInit
    /\ conf = [closed |-> FALSE, auto |-> FALSE, rules |-> {}, discover |-> FALSE]

Init ==
    \/ part = "hold" /\ HoldInit /\ IdleLookup /\ IdlePlan /\ IdleSite /\ IdleLoad
    \/ part = "lookup" /\ HoldInit /\ LookupInit /\ IdlePlan /\ IdleSite /\ IdleLoad
    \/ part = "plan" /\ HoldInit /\ IdleLookup /\ PlanInit /\ IdleSite /\ IdleLoad
    \/ part = "site" /\ HoldInit /\ IdleLookup /\ IdlePlan /\ SiteInit /\ IdleLoad
    \/ part = "load" /\ HoldInit /\ IdleLookup /\ IdlePlan /\ IdleSite /\ LoadInit

Next ==
    /\ \/ part = "hold" /\ HoldNext /\ UNCHANGED <<lookupVars, planVars, siteVars, loadVars>>
       \/ part = "lookup" /\ LookupNext /\ UNCHANGED <<holdVars, planVars, siteVars, loadVars>>
       \/ part = "plan" /\ PlanNext /\ UNCHANGED <<holdVars, lookupVars, siteVars, loadVars>>
       \/ part = "site" /\ SiteNext /\ UNCHANGED <<holdVars, lookupVars, planVars, loadVars>>
       \/ part = "load" /\ LoadNext /\ UNCHANGED <<holdVars, lookupVars, planVars, siteVars>>
    /\ UNCHANGED part

Spec == Init /\ [][Next]_<<part, holdVars, lookupVars, planVars, siteVars, loadVars>>

-----------------------------------------------------------------------------
(* A rewritten program is the original, hooks aside: it executes the same    *)
(* instructions on the same values, inserted code reads only what may be     *)
(* read, names keep their functions, and the checker objects only to a       *)
(* caller's wrong claim (spliceLookupCalls, Transform).                      *)
RunsTheOriginal ==
    /\ SameExecution /\ InsertedReadsAreReadable
    /\ SiteSameExecution /\ NamesKeepTheirMeaning /\ RejectsOnlyLiveRegisters

(* Hooks run exactly for the results and loads that are observed, and are    *)
(* given that very call or value.                                            *)
HooksSeeTheirCalls == HookGetsTheCall /\ HookSeesEachLoad
=============================================================================
