---------------------------- MODULE StackLimits ----------------------------
(***************************************************************************)
(* The stack limits of a rewritten program (pkg/inject/stackdepth.go and   *)
(* tailcall_guard.go).                                                     *)
(*                                                                         *)
(* The rewriter deepens the frames that hold a site and calls a generated  *)
(* hook from each of them.  Before it hands the program to the kernel it   *)
(* measures the call chains of the result and refuses one that the         *)
(* kernel's check_max_stack_depth would reject.  The kernel's walk is      *)
(* modelled from what those files say of it, one step per function         *)
(* entered or left: it loads the original program and then the rewritten   *)
(* one, so that the rewriter's measure can be compared with it.            *)
(*                                                                         *)
(* Function 1 is the entry.  A function has three depths: what the         *)
(* verifier counts (real), what the instructions show (text) and what the  *)
(* caller audited (floor); real exceeds neither of the others, but text    *)
(* may pass the floor where a pointer is formed and never used.            *)
(***************************************************************************)
EXTENDS Naturals, Integers, Sequences, FiniteSets, SequencesExt, TLC

CONSTANTS
    Samples,            \* families of programs, see Programs and LimitsInit
    SlotBytes,          \* bytes of spill slots below the floor
    MaxCombinedStack, MaxCallerDepth

ASSUME LimitsAssumption ==
    \A m \in Samples : \A p \in m.profiles : p.real <= p.text /\ p.real <= p.floor

VARIABLES
    limitsProg,       \* the original: walk, tail and depths of its functions, and MaxCallFrames
    sites,      \* the functions that get slots and call the hook
    hookFirst,  \* whether the hook call precedes the function's own calls
    rounding,   \* the frame rounding of the running kernel
    buggy,      \* the kernel's walk forgets the caller's tail-call flag
    async,      \* how the kernel walks a reference to callback prog.cb
    limitsPhase,      \* "original", "rewrite", "rewritten" or "done"
    walk,       \* the kernel's walk: a stack of [fn, next]
    roots,      \* asynchronous callbacks still to be walked as roots
    local,      \* its tail_call_reachable flag
    marked,     \* functions marked tail-call reachable
    limitsLoads,      \* phase -> whether the kernel accepted that program
    reached,    \* phase -> whether the entry was marked in it
    refusal     \* why the rewriter refused: "", "limits" or "tail"

limitsVars == <<limitsProg, sites, hookFirst, rounding, buggy, async, limitsPhase, walk, roots,
                local, marked, limitsLoads, reached, refusal>>

Funcs == DOMAIN limitsProg.walk
Hook == Cardinality(Funcs) + 1
All == 1..Hook
\* The kernel's limit of call frames, scaled with the number of functions.
MaxCallFrames == limitsProg.frames

-----------------------------------------------------------------------------
(* The call graphs of the original and of the rewritten program.  A graph  *)
(* gives each of its functions its calls in instruction order, whether it   *)
(* calls bpf_tail_call, the depth the instructions show and the kernel's.   *)

RoundUp(n, m) == ((n + m - 1) \div m) * m

Max2(a, b) == IF a > b THEN a ELSE b

round(n) == IF rounding = 16 THEN RoundUp(n, 16) ELSE RoundUp(Max2(n, 1), 32)

stackCallGraph(p) ==
    [walk  |-> [f \in DOMAIN p.walk |-> p.walk[f]],
     tail  |-> p.tail,
     depth |-> [f \in DOMAIN p.depth |-> p.depth[f].text],
     real  |-> [f \in DOMAIN p.depth |-> p.depth[f].real]]

SlotDepth(f) == RoundUp(limitsProg.depth[f].floor, 8) + SlotBytes

\* Splicing: a site's frame reaches its slots and calls the hook.
Rewritten ==
    [walk |-> [f \in All |->
        IF f = Hook THEN <<>>
        ELSE IF f \notin sites THEN limitsProg.walk[f]
        ELSE IF hookFirst THEN <<Hook>> \o limitsProg.walk[f]
        ELSE Append(limitsProg.walk[f], Hook)],
     tail |-> [f \in All |-> f # Hook /\ limitsProg.tail[f]],
     depth |-> [f \in All |->
        IF f = Hook THEN [real |-> 0, text |-> 0, floor |-> 0]
        ELSE IF f \notin sites THEN limitsProg.depth[f]
        ELSE [real  |-> Max2(limitsProg.depth[f].real, SlotDepth(f)),
              text  |-> Max2(limitsProg.depth[f].text, SlotDepth(f)),
              floor |-> limitsProg.depth[f].floor]]]

callees(g, f) == ToSet(g.walk[f])

(* stackTopoOrder: depth-first, callers first; <<>> is the refusal of a     *)
(* recursive program.                                                       *)
RECURSIVE visit(_, _, _)
visit(g, f, s) ==
    IF s.bad \/ f \in s.open THEN [s EXCEPT !.bad = TRUE]
    ELSE IF f \in ToSet(s.order) THEN s
    ELSE LET below == FoldLeft(LAMBDA t, c : visit(g, c, t),
                               [s EXCEPT !.open = @ \union {f}], g.walk[f])
         IN  [below EXCEPT !.open = @ \ {f}, !.order = <<f>> \o @]

stackTopoOrder(g) ==
    LET end == FoldLeft(LAMBDA s, f : visit(g, f, s),
                        [open |-> {}, order |-> <<>>, bad |-> FALSE],
                        [i \in 1..Cardinality(DOMAIN g.walk) |-> i])
    IN  IF end.bad THEN <<>> ELSE end.order

-----------------------------------------------------------------------------
(* The longest chains of callers above each function: any chain, and the    *)
(* chains through a changed caller.  -1 stands for "none found".            *)

NoChain == [bytes |-> -1, frames |-> -1]

extend(chains, from, bytes) ==
    IF from = NoChain THEN chains
    ELSE [bytes  |-> Max2(chains.bytes, from.bytes + bytes),
          frames |-> Max2(chains.frames, from.frames + 1)]

stackChains(g, changed) ==
    LET Pass(reach, f) ==
          [c \in DOMAIN reach |->
              IF c \notin callees(g, f) THEN reach[c]
              ELSE [any |-> extend(reach[c].any, reach[f].any, round(g.depth[f])),
                    changed |-> extend(reach[c].changed,
                                       IF f \in changed THEN reach[f].any
                                       ELSE reach[f].changed,
                                       round(g.depth[f]))]]
    IN  FoldLeft(Pass,
                 [f \in DOMAIN g.walk |->
                     [any |-> [bytes |-> 0, frames |-> 0], changed |-> NoChain]],
                 stackTopoOrder(g))

counted(reach, changed, f) ==
    IF f \in changed THEN reach[f].any ELSE reach[f].changed

stackLimitBroken(g, changed) ==
    LET reach == stackChains(g, changed)
    IN  {<<"caller", f>> : f \in {h \in DOMAIN g.walk \ {1} :
            g.tail[h] /\ reach[h].changed.bytes >= MaxCallerDepth}}
        \union
        {<<"combined", f>> : f \in {h \in DOMAIN g.walk :
            LET c == counted(reach, changed, h)
            IN  c # NoChain /\ c.bytes + round(g.depth[h]) > MaxCombinedStack}}
        \union
        {<<"frames", f>> : f \in {h \in DOMAIN g.walk :
            LET c == counted(reach, changed, h)
            IN  c # NoChain /\ c.frames + 1 > MaxCallFrames}}

\* A function is changed when it is new, deeper than it was, or below its floor.
changedFuncs ==
    {f \in All : \/ f = Hook
                 \/ Rewritten.depth[f].text > limitsProg.depth[f].text
                 \/ Rewritten.depth[f].text > limitsProg.depth[f].floor}

stackLimitsBroken == stackLimitBroken(stackCallGraph(Rewritten), changedFuncs)

-----------------------------------------------------------------------------
(* tailcall_guard.go: the walk whose local flag a callee replaces.          *)

RECURSIVE reachesTail(_, _)
reachesTail(g, f) == g.tail[f] \/ \E c \in callees(g, f) : reachesTail(g, c)

RECURSIVE buggyWalk(_, _, _, _)
buggyWalk(g, f, callers, s) ==
    LET here == callers \union {f}
        end  == FoldLeft(LAMBDA t, c : buggyWalk(g, c, here,
                                                 [t EXCEPT !.local = g.tail[c]]),
                         s, g.walk[f])
    IN  IF end.local THEN [end EXCEPT !.marked = @ \union here] ELSE end

losesTailCallReachability(g) ==
    /\ reachesTail(g, 1)
    /\ 1 \notin buggyWalk(g, 1, {}, [local  |-> FALSE,
                                      marked |-> {f \in DOMAIN g.walk : g.tail[f]}]).marked

introducesTailCallReachabilityLoss ==
    /\ ~losesTailCallReachability(stackCallGraph(limitsProg))
    /\ losesTailCallReachability(stackCallGraph(Rewritten))

-----------------------------------------------------------------------------
(* The kernel's check_max_stack_depth, one function entered or left a step. *)

Loaded == IF limitsPhase = "original" THEN stackCallGraph(limitsProg) ELSE stackCallGraph(Rewritten)

Walking == limitsPhase \in {"original", "rewritten"}

Depth(s) == FoldLeft(LAMBDA n, e : n + round(Loaded.real[e.fn]), 0, s)

Start(g) ==
    /\ walk' = <<[fn |-> 1, next |-> 1]>>
    /\ roots' = IF async = "root" THEN {limitsProg.cb} ELSE {}
    /\ local' = FALSE
    /\ marked' = {f \in DOMAIN g.walk : g.tail[f]}

\* The limits are tested as a function is entered, the root included.
Rejects(s) ==
    LET f == Last(s).fn
        above == Depth(Front(s))
    IN  \/ f # 1 /\ Loaded.tail[f] /\ above >= MaxCallerDepth
        \/ above + round(Loaded.real[f]) > MaxCombinedStack
        \/ Len(s) > MaxCallFrames

Finish(ok) ==
    /\ limitsLoads' = [limitsLoads EXCEPT ![limitsPhase] = ok]
    /\ reached' = [reached EXCEPT ![limitsPhase] = ok /\ 1 \in marked]
    /\ limitsPhase' = IF limitsPhase = "original" /\ ok THEN "rewrite" ELSE "done"
    /\ UNCHANGED <<walk, roots, local, marked, refusal>>

Reject ==
    /\ Walking /\ walk # <<>> /\ Rejects(walk)
    /\ Finish(FALSE)

\* A callback reference the kernel knows as asynchronous is not a call.
Skipped(c) == c = limitsProg.cb /\ async \in {"skip", "root"}

Enter ==
    /\ Walking /\ walk # <<>> /\ ~Rejects(walk)
    /\ Last(walk).next <= Len(Loaded.walk[Last(walk).fn])
    /\ LET top  == Last(walk)
           c    == Loaded.walk[top.fn][top.next]
           here == Append(Front(walk), [top EXCEPT !.next = @ + 1])
       IN  IF Skipped(c) THEN walk' = here /\ UNCHANGED local
           ELSE /\ walk' = Append(here, [fn |-> c, next |-> 1])
                /\ local' = IF buggy THEN Loaded.tail[c] ELSE local \/ Loaded.tail[c]
    /\ UNCHANGED <<limitsPhase, roots, marked, limitsLoads, reached, refusal>>

\* A finished function marks the frames that called it.
Leave ==
    /\ Walking /\ walk # <<>> /\ ~Rejects(walk)
    /\ Last(walk).next > Len(Loaded.walk[Last(walk).fn])
    /\ marked' = IF local THEN marked \union {e.fn : e \in ToSet(Front(walk))}
                 ELSE marked
    /\ walk' = Front(walk)
    /\ UNCHANGED <<limitsPhase, roots, local, limitsLoads, reached, refusal>>

NextRoot ==
    /\ Walking /\ walk = <<>> /\ roots # {}
    /\ walk' = <<[fn |-> limitsProg.cb, next |-> 1]>>
    /\ roots' = {} /\ local' = FALSE
    /\ UNCHANGED <<limitsPhase, marked, limitsLoads, reached, refusal>>

Accept ==
    /\ Walking /\ walk = <<>> /\ roots = {}
    /\ Finish(TRUE)

(* The rewriter: it refuses a limit broken on a changed chain, and a lost   *)
(* tail-call reachability where the probe finds the kernel has the bug.     *)
checkStackLimits ==
    /\ limitsPhase = "rewrite"
    /\ refusal' =
         IF stackTopoOrder(stackCallGraph(Rewritten)) = <<>> THEN "limits"
         ELSE IF buggy /\ introducesTailCallReachabilityLoss THEN "tail"
         ELSE IF stackLimitsBroken # {} THEN "limits"
         ELSE ""
    /\ limitsPhase' = "rewritten"
    /\ Start(stackCallGraph(Rewritten))
    /\ UNCHANGED <<limitsLoads, reached>>

-----------------------------------------------------------------------------
\* Programs: acyclic or not, with at most one asynchronous callback. m.walks gives each
\* function its call sequences, m.tails the sets of tail-calling functions.
Programs(m) ==
    LET fs == DOMAIN m.walks IN
    [walk   : {w \in [fs -> UNION {m.walks[f] : f \in fs}] : \A f \in fs : w[f] \in m.walks[f]},
     tail   : {[f \in fs |-> f \in t] : t \in m.tails},
     depth  : [fs -> m.profiles],
     cb     : m.callbacks,
     frames : {m.frames}]

LimitsInit ==
    /\ \E m \in Samples :
          /\ limitsProg \in Programs(m)
          /\ sites \in m.sites
          /\ hookFirst \in m.firsts
          /\ rounding \in m.roundings
          /\ buggy \in m.bugs
    /\ async \in IF limitsProg.cb = 0 THEN {"plain"} ELSE {"plain", "skip", "root"}
    /\ limitsPhase = "original"
    /\ walk = <<[fn |-> 1, next |-> 1]>>
    /\ roots = IF async = "root" THEN {limitsProg.cb} ELSE {}
    /\ local = FALSE
    /\ marked = {f \in Funcs : limitsProg.tail[f]}
    /\ limitsLoads = [ph \in {"original", "rewritten"} |-> FALSE]
    /\ reached = [ph \in {"original", "rewritten"} |-> FALSE]
    /\ refusal = ""

LimitsNext ==
    /\ \/ Enter \/ Leave \/ NextRoot \/ Reject \/ Accept
       \/ checkStackLimits
    /\ UNCHANGED <<limitsProg, sites, hookFirst, rounding, buggy, async>>

LimitsSpec == LimitsInit /\ [][LimitsNext]_limitsVars

Finished == limitsPhase = "done" /\ limitsLoads["original"]

-----------------------------------------------------------------------------
(* checkStackLimits "can only refuse a program the kernel would load, never *)
(* accept one it rejects": when the kernel loaded the original and the      *)
(* rewriter did not refuse, the kernel's depth walk accepts the rewritten   *)
(* program, whatever the instructions overstate and however the callback    *)
(* is walked.                                                               *)
NeverAcceptsWhatTheKernelRejects ==
    Finished /\ refusal = "" => limitsLoads["rewritten"]

(* tailcall_guard.go: a rewritten program that loads still has its entry    *)
(* marked tail-call reachable when the original had, on a kernel with the   *)
(* forgotten flag as on one without it.                                     *)
TailCallReachabilityKept ==
    Finished /\ refusal = "" /\ async = "plain" /\ reached["original"]
        => reached["rewritten"]

RECURSIVE ReachedFrom(_)
ReachedFrom(S) ==
    LET more == S \union UNION {callees(limitsProg, f) : f \in S}
    IN  IF more = S THEN S ELSE ReachedFrom(more)

Exact ==
    /\ limitsProg.cb = 0
    /\ \A f \in Funcs : limitsProg.depth[f].real = limitsProg.depth[f].text
    /\ ReachedFrom({1}) = Funcs

(* stackLimitsBroken refuses only what the kernel rejects where the         *)
(* instructions show exactly what the verifier counts, every function is    *)
(* called and no callback is registered: the measure is the kernel's own.   *)
LimitRefusalsAreReal ==
    Finished /\ refusal = "limits" /\ Exact => ~limitsLoads["rewritten"]

(* checkStackLimits and the tail-call guard take the kernel's decision.     *)
LimitsSound ==
    NeverAcceptsWhatTheKernelRejects /\ LimitRefusalsAreReal /\ TailCallReachabilityKept
=============================================================================
