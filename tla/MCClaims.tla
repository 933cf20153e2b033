------------------------------ MODULE MCClaims ------------------------------
(***************************************************************************)
(* Statements that comments, documents and tests of the repository make of *)
(* the code and that the code does not keep, one after the other: each is  *)
(* tried on one input of the component it is about, in a run that goes on  *)
(* to the next statement when the present one is refuted.  A behaviour     *)
(* that refutes them all is the run's counterexample.                      *)
(***************************************************************************)
EXTENDS Integers, Sequences

-----------------------------------------------------------------------------
(* Comparisons with a prefix: LiteralCode. *)

VARIABLES atom, literalPresent, window, literalPc, r2, literalR3, r5, literalOut

v4 == <<2, 1, 0, 3>>
Prefix(form, mode, op, prefix) ==
    [form |-> form, mode |-> mode, op |-> op, list |-> << >>,
     field |-> [bytes |-> 4, shift |-> 0, bits |-> 8],
     lit |-> [kind |-> "CIDR4", bytes |-> v4, prefix |-> prefix, int |-> 0, neg |-> FALSE, lo |-> 0, hi |-> 0]]
ClaimAtoms == <<Prefix("where", "entry", "==", 0), Prefix("where", "gated", "==", 3),
                Prefix("where", "entry", "!=", 8), Prefix("walk", "walk", "==", 0)>>
HoldsV4(a) == {v4}

Literal == INSTANCE LiteralCode WITH LiteralAtoms <- ClaimAtoms, Windows <- HoldsV4

StartLiteral(i) ==
    /\ atom' = i /\ window' = v4 /\ literalPresent' = (i > 2)
    /\ literalPc' = 1 /\ literalOut' = "running"
    /\ r2' = Literal!Garbage /\ literalR3' = Literal!Garbage /\ r5' = Literal!Garbage

-----------------------------------------------------------------------------
(* Where clauses: WhereCode. *)

VARIABLES cond, packet, wherePc, whereR3, whereSlots

ClaimLayers == [eth |-> FALSE, srv6 |-> TRUE, gtp |-> FALSE]
ClaimStacks == [segs |-> [layer |-> "srv6", capacity |-> 3, count |-> "header", bound |-> 3],
                exts |-> [layer |-> "gtp", capacity |-> 3, count |-> "push", bound |-> 2]]
Test(name, layer, ref, stk, all) ==
    [k |-> "atom", name |-> name, layer |-> layer, ref |-> ref, stack |-> stk, idx |-> 0,
     guarded |-> FALSE, walk |-> FALSE, need |-> 0, all |-> all]
E == Test("e", "eth", "field", "", FALSE)
Slash0 == Test("e", "eth", "field", "", TRUE)
Not(w) == [k |-> "not", i |-> w]
Or(v, w) == [k |-> "or", l |-> v, r |-> w]
ClaimConditions ==
    <<Not([k |-> "all", stack |-> "exts", i |-> Or(Test("x", "gtp", "iter", "exts", FALSE), [k |-> "lit", v |-> TRUE])]),
      Not(Slash0),
      Or(E, Slash0),
      [k |-> "any", stack |-> "segs",
       i |-> [k |-> "booleq", neg |-> FALSE, l |-> Test("s", "srv6", "iter", "segs", FALSE), r |-> E]]>>

Where == INSTANCE WhereCode WITH Layers <- ClaimLayers, Stacks <- ClaimStacks, Conditions <- ClaimConditions

StartWhere(i) ==
    /\ cond' = i /\ packet' = [present |-> {}, count |-> [s \in {"segs", "exts"} |-> 0], truth |-> {}]
    /\ wherePc' = (IF Where!RefusedAt[i] THEN 0 ELSE 1)
    /\ whereR3' = 2 /\ whereSlots' = [s \in 0 .. Where!MaxArithDepth - 1 |-> 2]

-----------------------------------------------------------------------------
(* Arithmetic on four-bit words: WhereArith. *)

VARIABLES job, arithCode, arithVerdict, arithPkt, arithStack

Operand(f) == [kind |-> "field", f |-> f]
Literally(n) == [kind |-> "const", lo |-> n, hi |-> 0, neg |-> FALSE, wide |-> FALSE]
IsZero(op, l, r) == [op |-> "==", left |-> [kind |-> "bin", op |-> op, l |-> l, r |-> r],
                     right |-> Literally(0), boolEq |-> 0]
ClaimJobs == <<IsZero("+", Operand("s"), Literally(1)), IsZero("%", Operand("n"), Operand("s"))>>

Arith == INSTANCE WhereArith WITH
    ArithHalf <- 4, maxArithDepth <- 11, Jobs <- {}, ArithPackets <- {},
    Fields <- [n |-> [bits |-> 4, mode |-> "primary"], s |-> [bits |-> 2, mode |-> "slot"]]

StartArith(i) ==
    /\ job' = ClaimJobs[i] /\ arithCode' = << >> /\ arithVerdict' = "none"
    /\ arithPkt' = [val |-> [n |-> 9, s |-> IF i = 1 THEN 3 ELSE 0], absent |-> {}]
    /\ arithStack' = Arith!Machine(ClaimJobs[i]).stk

-----------------------------------------------------------------------------
(* The window of a sliced field: FieldWindow. *)

VARIABLES windowRef, windowPkt, windowCode, windowOut, windowValue

NoPackets(r) == {}
Window == INSTANCE MCFieldWindow WITH
    WindowRefs <- {}, PacketsOf <- NoPackets, Layer <- 3, HeaderSize <- 24, ScratchBufSize <- 128
OddRef == CHOOSE r \in Window!OddRefs : TRUE

StartWindow ==
    /\ windowRef' = OddRef
    /\ windowPkt' = (CHOOSE p \in Window!MCPacketsOf(OddRef) : TRUE)
    /\ windowCode' = << >> /\ windowOut' = "none" /\ windowValue' = 0

-----------------------------------------------------------------------------
(* Chains of layers: KunaiChain, over the protocols the two chains name. *)

VARIABLES chain, status, chainPkt, code, ref

Edge(parent, field, off, value) ==
    [parent |-> parent, type |-> "field", field |-> field, off |-> off, vals |-> {value}]
Proto(name, edges) ==
    [hs |-> IF name = "ipv6" THEN 2 ELSE 1, machine |-> name \in {"ipv6", "srv6"}, var |-> name \in {"ipv6", "srv6"},
     wb |-> IF name = "ipv6" THEN 1 ELSE -1, end |-> "", req |-> {}, extra |-> {}, depth |-> 3, consts |-> edges]
ClaimVocab ==
    [eth |-> Proto("eth", << >>),
     vlan |-> Proto("vlan", <<Edge("eth", "ethertype", 0, "vlan")>>),
     qinq |-> Proto("qinq", <<Edge("eth", "ethertype", 0, "qinq")>>),
     ipv6 |-> Proto("ipv6", <<Edge("eth", "ethertype", 0, "ip6"), Edge("vlan", "ethertype", 0, "ip6"),
                              Edge("qinq", "ethertype", 0, "ip6"), Edge("ipv6", "next_header", 1, "ip6")>>),
     srv6 |-> Proto("srv6", <<Edge("ipv6", "next_header", 1, "srv6")>>),
     udp |-> Proto("udp", <<Edge("ipv6", "next_header", 1, "udp"), Edge("srv6", "next_header", 0, "udp")>>)]

NextWords == {"ip6", "srv6", "udp"}
Layer(p) == [p |-> p, alt |-> << >>, q |-> "one", lo |-> 1, hi |-> 1, pred |-> NextWords,
             disp |-> [type |-> "none", c |-> [Edge("", "", 0, "") EXCEPT !.type = "nil", !.vals = {}],
                       alts |-> << >>, div |-> FALSE],
             slot |-> FALSE, id |-> 0]
Group(ms) == [Layer("") EXCEPT !.alt = ms]
ClaimChains ==
    <<[read |-> << >>, words |-> NextWords,
       layers |-> <<Layer("ipv6"), Group(<<Layer("ipv6"), Layer("srv6")>>), Layer("udp")>>],
      [read |-> << >>, words |-> NextWords,
       layers |-> <<Layer("eth"), Group(<<[Group(<<Layer("vlan"), Layer("qinq")>>) EXCEPT !.q = "opt"], Layer("ipv6")>>),
                    Layer("ipv6")>>]>>

Chain == INSTANCE KunaiChain WITH
    Vocab <- ClaimVocab, Chains <- ClaimChains, MaxLen <- 5,
    StaticChainCap <- 2, MachineChainCap <- 3, LoopChainCap <- 3, AltCountCap <- 4

StartChain(i) ==
    chain' = i /\ status' = "source" /\ chainPkt' = << >> /\ code' = "none" /\ ref' = Chain!NoVerdict

-----------------------------------------------------------------------------
(* The keys of match sets: SetKeys, a scalar key of an address and a key of two numbers. *)

VARIABLES defs, keysPkt, slots, keysOut, phase, stack, keysRead

ClaimSchemas == <<<<[name |-> "x", type |-> "ipv6"]>>,
                  <<[name |-> "x", type |-> "u32"], [name |-> "y", type |-> "u32"]>>>>
Keys == INSTANCE SetKeys WITH
    Schemas <- {}, PktFields <- {[width |-> 4, room |-> 0]}, MaxPreds <- 1, MaxKeySize <- 32

StartKeys(i) ==
    /\ defs' = [s \in Keys!Sets |-> Keys!describe(Keys!Created(ClaimSchemas[i], << >>))]
    /\ keysPkt' = [n \in {} |-> 0]
    /\ slots' = [base |-> [s \in Keys!Sets |-> 0], cursor |-> Keys!pktSetKeyTop]
    /\ keysOut' = << >> /\ phase' = "compile" /\ keysRead' = << >>
    /\ stack' = [o \in Keys!pktSetKeyFloor .. Keys!pktSetKeyTop - 1 |-> Keys!Junk]

-----------------------------------------------------------------------------
(* A plan: LookupPlan on a program with one map lookup and one tail call. *)

VARIABLES planJob, plan, old

Plan == INSTANCE LookupPlan WITH Families <- {}, MaxHookName <- 4

StartPlan ==
    /\ planJob' =
         [req |-> [auto |-> TRUE, entry |-> FALSE, tails |-> TRUE, dispatch |-> FALSE, copyReadOnly |-> FALSE,
                   lookups |-> "hit", updates |-> "", maps |-> << >>, site |-> Plan!NoSite],
          sites |-> <<[pc |-> 1, op |-> "lookup", map |-> <<"a">>, id |-> "a", fn |-> "main", src |-> "entry",
                       chain |-> {}, arg |-> -8, ro |-> FALSE, readOnlyMap |-> 0, wrapped |-> FALSE,
                       reason |-> "", generic |-> FALSE, noFloor |-> FALSE]>>,
          tails |-> <<[pc |-> 8, fn |-> "main"], [pc |-> 9, fn |-> "sub"]>>,
          frame |-> [lowest |-> -16, audited |-> {}, rounding |-> 32,
                     floor |-> [fn \in {"main", "sub", "cb"} |-> 0]],
          breaks |-> {{1}}, loses |-> {{9}}, probeFails |-> TRUE]
    /\ plan' = Plan!Blank /\ old' = Plan!Blank

-----------------------------------------------------------------------------
(* Child processes: TraceRun. *)

VARIABLES filtered, task, threads, procs, pending, tracePc, want, cur, cancel

Trace == INSTANCE TraceRun WITH Tids <- {1, 2}

StartTrace ==
    /\ filtered' = TRUE
    /\ task' = [t \in {1, 2} |-> IF t = 1 THEN [Trace!NoTask EXCEPT !.st = "run", !.grp = 1] ELSE Trace!NoTask]
    /\ threads' = [t \in {1} |-> [newborn |-> FALSE, foreign |-> FALSE]]
    /\ procs' = {1} /\ pending' = {} /\ tracePc' = "wait" /\ want' = 0 /\ cur' = [tid |-> 1, ev |-> ""]
    /\ cancel' = "no"

-----------------------------------------------------------------------------
(* The statements, in the order they are tried.                            *)

\* where.go:2042 "gating fires before the load when present"; dsl-types.md:1222 and
\* predicate.go:1150 make a comparison false when its field is not there; where.go:2224
\* "whereDynamicMultiByte routes `!=` once".
PrefixComparesTheField == Literal!AtomDecides

\* predicate.go:220 "the code after it stays reachable in the control-flow graph, which
\* the kernel's load-time check demands of every instruction": in the callback of a walk,
\* and in a clause (where_fold.go:9 likewise).
WalkCallbackLoads == Literal!AtomLoads
NothingIsUnreachable == Where!ClauseLoads

\* where.go:2699 "/0 with == is a no-op (always match)"; where.go:772 rebindIterator
\* replaces "every iterator FieldRef": either clause compiles.
ClauseCompiles == Where!TypedCompiles

\* dsl-types.md:399 "dport=65535 のとき結果 0 (wrap)", and :409 of /0 and %0.
WrapsAtOperandWidth == Arith!WrapsAtOperandWidth
ZeroDivisorGivesZero == Arith!ZeroDivisorGivesZero

\* codegen.go:2014 "Such a window must stay inside the entry".
WindowStaysInside == Window!LoadsAreProved

\* Eval/Layer.lean:17 "the previous instance's dispatch edge admits `p`".
PreviousInstanceDecides == Chain!FilterMeansChain

\* compile_test.go:2089 "the resolver rejects it as a type error".
ResolverRejects == Chain!ResolverAnswers

\* program.go:1518 "Gapless keys ... have every byte overwritten".
EveryKeyByteWritten == Keys!ArgKeyWritten

\* setmap.go:9 "Partial keys are rejected".
PartialKeysRejected == Keys!PartialKeysRejected

\* lookup.go:81 "Auto refuses only when nothing at all would be instrumented": a plan
\* that is not refused has a first hook (lookup.go:357).
FirstHookExists == Plan!FirstHookExists

\* run_linux_amd64.go:53 "Run then returns when the target and every followed process
\* have exited".
FollowsEveryChild == Trace!FollowsEveryChild

\* The component a statement is about, and the input it is tried on.
Statements ==
    <<<<"literal", 1>>, <<"literal", 2>>, <<"literal", 3>>, <<"literal", 4>>,
      <<"where", 1>>, <<"where", 2>>, <<"where", 3>>, <<"where", 4>>,
      <<"arith", 1>>, <<"arith", 2>>, <<"window", 1>>, <<"chain", 1>>, <<"chain", 2>>,
      <<"keys", 1>>, <<"keys", 2>>, <<"plan", 1>>, <<"trace", 1>>>>

VARIABLES
    claim,      \* the statement tried, 0 before the first
    refuted     \* the statements refuted so far

part == Statements[claim][1]
input == Statements[claim][2]

Stands ==
    CASE part = "literal" -> IF input = 4 THEN WalkCallbackLoads ELSE PrefixComparesTheField
      [] part = "where" -> NothingIsUnreachable /\ ClauseCompiles
      [] part = "arith" -> IF input = 1 THEN WrapsAtOperandWidth ELSE ZeroDivisorGivesZero
      [] part = "window" -> WindowStaysInside
      [] part = "chain" -> IF input = 1 THEN PreviousInstanceDecides ELSE ResolverRejects
      [] part = "keys" -> IF input = 1 THEN EveryKeyByteWritten ELSE PartialKeysRejected
      [] part = "plan" -> FirstHookExists
      [] part = "trace" -> FollowsEveryChild

literalVars == <<atom, literalPresent, window, literalPc, r2, literalR3, r5, literalOut>>
whereVars == <<cond, packet, wherePc, whereR3, whereSlots>>
arithVars == <<job, arithCode, arithVerdict, arithPkt, arithStack>>
windowVars == <<windowRef, windowPkt, windowCode, windowOut, windowValue>>
chainVars == <<chain, status, chainPkt, code, ref>>
keysVars == <<defs, keysPkt, slots, keysOut, phase, stack, keysRead>>
planVars == <<planJob, plan, old>>
traceVars == <<filtered, task, threads, procs, pending, tracePc, want, cur, cancel>>
vars == <<claim, refuted, literalVars, whereVars, arithVars, windowVars, chainVars, keysVars, planVars, traceVars>>

\* Every component is put at the start of its input for statement c.
Start(c) ==
    LET of(p) == IF c <= Len(Statements) /\ Statements[c][1] = p THEN Statements[c][2] ELSE 1
    IN  /\ claim' = c
        /\ StartLiteral(of("literal")) /\ StartWhere(of("where")) /\ StartArith(of("arith")) /\ StartWindow
        /\ StartChain(of("chain")) /\ StartKeys(of("keys")) /\ StartPlan /\ StartTrace

Init ==
    /\ claim = 0 /\ refuted = {}
    /\ atom = 0 /\ literalPresent = 0 /\ window = 0 /\ literalPc = 0 /\ r2 = 0 /\ literalR3 = 0 /\ r5 = 0 /\ literalOut = 0
    /\ cond = 0 /\ packet = 0 /\ wherePc = 0 /\ whereR3 = 0 /\ whereSlots = 0
    /\ job = 0 /\ arithCode = 0 /\ arithVerdict = 0 /\ arithPkt = 0 /\ arithStack = 0
    /\ windowRef = 0 /\ windowPkt = 0 /\ windowCode = 0 /\ windowOut = 0 /\ windowValue = 0
    /\ chain = 0 /\ status = 0 /\ chainPkt = 0 /\ code = 0 /\ ref = 0
    /\ defs = 0 /\ keysPkt = 0 /\ slots = 0 /\ keysOut = 0 /\ phase = 0 /\ stack = 0 /\ keysRead = 0
    /\ planJob = 0 /\ plan = 0 /\ old = 0
    /\ filtered = 0 /\ task = 0 /\ threads = 0 /\ procs = 0 /\ pending = 0
    /\ tracePc = 0 /\ want = 0 /\ cur = 0 /\ cancel = 0

Begin == claim = 0 /\ Start(1) /\ UNCHANGED refuted

\* The component runs while the statement about it stands.
Step ==
    /\ claim \in DOMAIN Statements /\ Stands
    /\ \/ part = "literal" /\ Literal!LiteralNext
          /\ UNCHANGED <<whereVars, arithVars, windowVars, chainVars, keysVars, planVars, traceVars>>
       \/ part = "where" /\ Where!WhereNext
          /\ UNCHANGED <<literalVars, arithVars, windowVars, chainVars, keysVars, planVars, traceVars>>
       \/ part = "arith" /\ Arith!ArithNext
          /\ UNCHANGED <<literalVars, whereVars, windowVars, chainVars, keysVars, planVars, traceVars>>
       \/ part = "window" /\ Window!WindowNext
          /\ UNCHANGED <<literalVars, whereVars, arithVars, chainVars, keysVars, planVars, traceVars>>
       \/ part = "chain" /\ Chain!ChainNext
          /\ UNCHANGED <<literalVars, whereVars, arithVars, windowVars, keysVars, planVars, traceVars>>
       \/ part = "keys" /\ Keys!KeysNext
          /\ UNCHANGED <<literalVars, whereVars, arithVars, windowVars, chainVars, planVars, traceVars>>
       \/ part = "plan" /\ Plan!PlanNext
          /\ UNCHANGED <<literalVars, whereVars, arithVars, windowVars, chainVars, keysVars, traceVars>>
       \/ part = "trace" /\ Trace!TraceNext
          /\ UNCHANGED <<literalVars, whereVars, arithVars, windowVars, chainVars, keysVars, planVars>>
    /\ UNCHANGED <<claim, refuted>>

Refute ==
    /\ claim \in DOMAIN Statements /\ ~Stands
    /\ refuted' = refuted \cup {claim}
    /\ Start(claim + 1)

Next == Begin \/ Step \/ Refute
Spec == Init /\ [][Next]_vars

\* One of the quoted statements is not refuted: the comments, documents and tests above
\* are not all wrong about the code.
SomeStatementStands == refuted # DOMAIN Statements
=============================================================================
