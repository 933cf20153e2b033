----------------------------- MODULE LookupPlan -----------------------------
(***************************************************************************)
(* Which map calls of a program get a hook, and which are skipped          *)
(* (transformLookupProgramGuarded and selectLookups, pkg/inject/lookup.go; *)
(* BuildLookupTargets, pkg/inject/validation.go).                          *)
(*                                                                         *)
(* A request runs through a fixed sequence of stages, each of which may    *)
(* refuse, skip sites or drop whole groups.  The stages run here twice in  *)
(* lockstep: on the program, and on the program without the sites an       *)
(* earlier release did not know (contexts passed down, callbacks).         *)
(*                                                                         *)
(* A name is the sequence of its parts after the request's prefix: the     *)
(* parts are joined by "_", so an appended "_" is an empty last part.      *)
(* Whether a rewritten program breaks a stack limit or loses tail-call     *)
(* reachability is the subject of StackLimits; here either depends on the  *)
(* sites hooked together, and removing a hook never causes it.             *)
(***************************************************************************)
EXTENDS Integers, Sequences, FiniteSets, SequencesExt, TLC

CONSTANTS
    Families,       \* sets of requests, programs and kernels tried together
    MaxHookName     \* the parts of the longest name

Entry == "main"
EntryPC == 0        \* stands for the entry hook among the site PCs

VARIABLES
    planJob,            \* the request, the discovered sites and the kernel
    plan, old       \* the plan being made, and the earlier release's

planVars == <<planJob, plan, old>>

-----------------------------------------------------------------------------
(* The request.                                                             *)

planHit(w)  == w \in {"hit", "any"}
planMiss(w) == w \in {"miss", "any"}
observes(req, op) == IF op = "update" THEN req.updates # "" ELSE req.lookups # "none"
NoSite == [map |-> <<>>, fn |-> "", pcs |-> <<>>, all |-> FALSE]

checkOps(req) ==
    /\ req.updates # "" => req.auto
    /\ req.lookups = "none" => req.site = NoSite

floor(j, fn) == IF fn \in j.frame.audited THEN j.frame.floor[fn] ELSE j.frame.lowest
perFrame(j) == j.frame.audited # {}
siteFrameLimit(j) == IF j.frame.rounding = 16 THEN 512 ELSE 480

planLookupSlots(f) ==
    LET base == f - (f % 8)
    IN  [ctx |-> base - 8, result |-> base - 24, map |-> base - 32, value |-> base - 40]
planUpdateValue(l, withMap) == IF withMap THEN l.value ELSE l.map
planCopyAt(l, size) == l.map - ((size + 7) \div 8) * 8

LookupStackReserve(req) ==
    LET lookups == req.auto \/ req.site # NoSite
    IN  IF req.auto THEN 24
        ELSE IF req.dispatch /\ (lookups \/ req.tails) THEN 32
        ELSE IF lookups THEN 24
        ELSE IF req.tails THEN 16
        ELSE IF req.entry THEN 8 ELSE 24
checkLookupStack(j) ==
    perFrame(j) \/ planLookupSlots(j.frame.lowest).ctx + 8 - LookupStackReserve(j.req) >= -siteFrameLimit(j)

-----------------------------------------------------------------------------
(* Groups: the sites of one hook.                                           *)

PlanPcs(sites) == {sites[i].pc : i \in DOMAIN sites}
Skip(sites, why) == [i \in DOMAIN sites |-> [pc |-> sites[i].pc, why |-> why]]

readOnlyArg(sites) == \E i \in DOMAIN sites : sites[i].ro
copiesValue(site, req) == req.copyReadOnly /\ site.readOnlyMap > 0
copies(g, req) == copiesValue(g.sites[1], req) /\ ~readOnlyArg(g.sites)

SlotReach(j, g, site) ==
    LET slots   == planLookupSlots(floor(j, site.fn))
        withMap == g.generic \/ j.req.dispatch
    IN  IF site.wrapped THEN 0
        ELSE IF g.op = "update" THEN planUpdateValue(slots, withMap)
        ELSE IF withMap THEN slots.map
        ELSE IF copies(g, j.req) THEN planCopyAt(slots, site.readOnlyMap)
        ELSE slots.result

groupStackReach(j, g) ==
    CHOOSE r \in {0} \union {SlotReach(j, g, g.sites[i]) : i \in DOMAIN g.sites} :
        \A i \in DOMAIN g.sites : r <= SlotReach(j, g, g.sites[i])

Fits(j, g) == groupStackReach(j, g) >= -siteFrameLimit(j)
One(g, site) == [g EXCEPT !.sites = <<site>>]

reachesBelowBase(j, g) ==
    \E i \in DOMAIN g.sites :
        groupStackReach(j, One(g, g.sites[i]))
            < planLookupSlots(floor(j, g.sites[i].fn)).result

wrapSites(j, g) ==
    IF \/ g.op # "lookup" \/ j.frame.rounding # 16
       \/ ~(g.generic \/ j.req.dispatch) /\ copies(g, j.req)
    THEN g
    ELSE [g EXCEPT !.sites = [i \in DOMAIN g.sites |->
            LET site == g.sites[i]
            IN  [site EXCEPT !.wrapped =
                    /\ ~Fits(j, One(g, site))
                    /\ site.src \notin {"callback", "pass"}
                    /\ site.src = "entry" =>
                          planLookupSlots(floor(j, site.fn)).ctx >= -siteFrameLimit(j)]]]

isPassSite(site) == site.src = "pass"
isCallbackSite(site) == site.src = "callback"
newSiteKinds == <<"pass", "callback">>

\* dropSites removes the sites of the given kinds, and the groups left empty.
dropSites(p, kinds, why) ==
    LET kept(g) == SelectSeq(g.sites, LAMBDA s : s.src \notin kinds)
        gone    == FlattenSeq([i \in DOMAIN p.groups |->
                      SelectSeq(p.groups[i].sites, LAMBDA s : s.src \in kinds)])
    IN  [p EXCEPT !.groups  = SelectSeq([i \in DOMAIN p.groups |->
                                  [p.groups[i] EXCEPT !.sites = kept(p.groups[i])]],
                                  LAMBDA g : g.sites # <<>>),
                  !.skipped = @ \o Skip(gone, why)]

skipGroup(p, g, why) == [p EXCEPT !.skipped = @ \o Skip(g.sites, why)]

Refuse(p, why) == [p EXCEPT !.refusal = why]
Nothing(req) == ~req.entry /\ ~req.tails

-----------------------------------------------------------------------------
(* Discovery's verdict on each site, with what the stack audit adds.        *)

NoRoom(j, fn) ==
    \/ perFrame(j) /\ fn \notin j.frame.audited
    \/ planLookupSlots(floor(j, fn)).ctx < -siteFrameLimit(j)

Marked(j, site) ==
    LET noFloor  == perFrame(j) /\ site.fn \notin j.frame.audited
        passBad  == \E fn \in site.chain : NoRoom(j, fn)
        belowCtx == isCallbackSite(site) /\ site.arg < floor(j, Entry)
    IN  [site EXCEPT
            !.reason = IF belowCtx THEN "callback" ELSE IF passBad THEN "pass"
                       ELSE IF noFloor THEN "floor" ELSE @,
            !.noFloor = noFloor,
            !.generic = @ /\ ~passBad /\ ~belowCtx]

Discovered(j, sites) ==
    LET seen == SelectSeq(sites, LAMBDA s : observes(j.req, s.op))
    IN  [i \in DOMAIN seen |-> Marked(j, seen[i])]

reserved(req) ==
    IF req.dispatch THEN {}
    ELSE (IF req.entry THEN {<<"entry">>} ELSE {})
         \union (IF req.tails THEN {<<"tail", "call">>} ELSE {})

-----------------------------------------------------------------------------
(* selectLookups.                                                           *)

NoName == <<"#">>
validIdent(name) == Len(name) <= MaxHookName

RECURSIVE Unused(_, _)
Unused(name, used) == IF name \in used THEN Unused(Append(name, ""), used) ELSE name

suffixedHookName(name, suffix, used) == Unused(Append(name, suffix), used)

autoHookName(mapName, index, used) ==
    IF mapName = <<>> \/ ~validIdent(mapName) \/ mapName \in used
    THEN Unused(<<ToString(index)>>, used)
    ELSE mapName

AddSite(groups, site, id, generic) ==
    LET same == {i \in DOMAIN groups : groups[i].id = id /\ groups[i].op = site.op}
    IN  IF same = {}
        THEN Append(groups, [id |-> id, op |-> site.op, generic |-> generic,
                             sites |-> <<site>>, name |-> NoName, miss |-> NoName])
        ELSE LET i == CHOOSE i \in same : TRUE
             IN  [groups EXCEPT ![i].sites = Append(@, site)]

\* One site of Auto's scan: skipped, or in a typed or the generic group.
Sort(req, s, site) ==
    IF req.maps # <<>> /\ site.map \notin ToSet(req.maps)
    THEN [s EXCEPT !.skipped = Append(@, [pc |-> site.pc, why |-> "maps"])]
    ELSE IF site.noFloor \/ (~site.generic /\ site.reason # "")
    THEN [s EXCEPT !.skipped = Append(@, [pc |-> site.pc, why |-> site.reason])]
    ELSE IF site.generic
    THEN [s EXCEPT !.generic = AddSite(@, [site EXCEPT !.reason = ""], "any", TRUE)]
    ELSE [s EXCEPT !.groups = AddSite(@, site, site.id, FALSE)]

\* A callback's read-only key leaves a hook it would make untrusted.
Unshare(req, s) ==
    LET bad(site)  == isCallbackSite(site) /\ site.ro
        others(g)  == SelectSeq(g.sites, LAMBDA site : ~isCallbackSite(site))
        shares(g)  == ~req.dispatch /\ others(g) # <<>> /\ ~readOnlyArg(others(g))
        without(g) == IF shares(g) THEN SelectSeq(g.sites, LAMBDA site : ~bad(site))
                      ELSE g.sites
    IN  [s EXCEPT
            !.groups  = [i \in DOMAIN s.groups |->
                            [s.groups[i] EXCEPT !.sites = without(s.groups[i])]],
            !.skipped = @ \o FlattenSeq([i \in DOMAIN s.groups |->
                IF shares(s.groups[i])
                THEN Skip(SelectSeq(s.groups[i].sites, LAMBDA x : bad(x)), "readonly")
                ELSE <<>>])]

NameGroup(req, s, g) ==
    LET known == g.id \in DOMAIN s.bases
        base  == IF known THEN s.bases[g.id]
                 ELSE autoHookName(IF g.generic THEN <<"any">> ELSE g.sites[1].map,
                                   Cardinality(DOMAIN s.bases), s.used)
        used  == s.used \union {base}
        name  == IF g.op = "lookup" THEN base ELSE suffixedHookName(base, g.op, used)
        misses == g.op = "lookup" /\ ~g.generic /\ planMiss(req.lookups)
        missed == IF misses THEN suffixedHookName(base, "miss", used) ELSE NoName
        done  == [s EXCEPT !.bases = (g.id :> base) @@ @,
                           !.used  = @ \union ({base, name, missed} \ {NoName})]
    IN  IF req.dispatch THEN [s EXCEPT !.named = Append(@, [g EXCEPT !.name = <<>>])]
        ELSE IF validIdent(name) /\ (misses => validIdent(missed))
        THEN [done EXCEPT !.named = Append(@, [g EXCEPT !.name = name, !.miss = missed])]
        ELSE [done EXCEPT !.skipped = @ \o Skip(g.sites, "name")]

SelectAuto(j, p, sites) ==
    LET req   == j.req
        scan  == FoldLeft(LAMBDA s, site : Sort(req, s, site),
                     [groups |-> <<>>, generic |-> <<>>, skipped |-> <<>>], sites)
        apart == Unshare(req, scan)
        named == FoldLeft(LAMBDA s, g : NameGroup(req, s, g),
                     [used |-> reserved(req), bases |-> <<>>, named |-> <<>>,
                      skipped |-> apart.skipped],
                     apart.groups \o apart.generic)
    IN  IF \/ req.site # NoSite
           \/ <<>> \in ToSet(req.maps) \/ Len(req.maps) # Cardinality(ToSet(req.maps))
           \/ \E m \in ToSet(req.maps) : \A i \in DOMAIN sites : sites[i].map # m
        THEN Refuse(p, "request")
        ELSE IF named.named = <<>> /\ Nothing(req) THEN Refuse(p, "unsupported")
        ELSE [p EXCEPT !.groups = named.named, !.skipped = named.skipped]

SelectExplicit(j, p, sites) ==
    LET req == j.req
        pcs == ToSet(req.site.pcs)
        chosen == SelectSeq(sites, LAMBDA s :
                     /\ s.map = req.site.map
                     /\ req.site.fn \in {"", s.fn}
                     /\ pcs = {} \/ s.pc \in pcs)
        bad == \/ req.site.map = <<>>
               \/ req.site.all /\ pcs # {}
               \/ Len(req.site.pcs) # Cardinality(pcs)
               \/ pcs # {} /\ Len(chosen) # Cardinality(pcs)
               \/ chosen = <<>>
               \/ ~req.site.all /\ pcs = {} /\ Len(chosen) # 1
               \/ \E i \in DOMAIN chosen :
                     chosen[i].reason # "" \/ chosen[i].id # chosen[1].id
    IN  IF req.maps # <<>> THEN Refuse(p, "request")
        ELSE IF req.site = NoSite /\ ~Nothing(req) THEN p
        ELSE IF bad THEN Refuse(p, "request")
        ELSE [p EXCEPT !.groups =
                <<[id |-> chosen[1].id, op |-> "lookup", generic |-> FALSE,
                   sites |-> chosen, name |-> <<>>,
                   miss |-> IF planMiss(req.lookups) /\ ~req.dispatch
                            THEN <<"miss">> ELSE NoName]>>]

selectLookups(j, p, sites) ==
    IF j.req.auto THEN SelectAuto(j, p, sites) ELSE SelectExplicit(j, p, sites)

-----------------------------------------------------------------------------
(* The stages of transformLookupProgramGuarded.                             *)

Select(j, p, sites) ==
    LET seen == Discovered(j, sites)
    IN  IF \/ j.req.dispatch /\ j.req.copyReadOnly
           \/ ~checkOps(j.req)
           \/ perFrame(j) /\ Entry \notin j.frame.audited
        THEN Refuse(p, "request")
        ELSE [selectLookups(j, p, seen) EXCEPT !.seen = seen]

\* A group that does not fit, without its newest kinds, oldest kinds last.
RECURSIVE Shrink(_, _, _)
Shrink(j, one, kinds) ==
    IF kinds = <<>> THEN [one EXCEPT !.groups = <<>>]
    ELSE LET less == dropSites(one, {Head(kinds)}, "frame")
         IN  IF less.groups # <<>> /\ Fits(j, less.groups[1]) THEN less
             ELSE Shrink(j, less, Tail(kinds))

fitGroup(j, p, g) ==
    LET less == Shrink(j, [p EXCEPT !.groups = <<g>>], newSiteKinds)
    IN  IF Fits(j, g) THEN [p EXCEPT !.groups = Append(@, g)]
        ELSE IF ~j.req.auto THEN Refuse(p, "frame")
        ELSE IF less.groups # <<>>
        THEN [p EXCEPT !.groups = @ \o less.groups, !.skipped = less.skipped]
        ELSE skipGroup(p, g, "frame")

Fit(j, p) ==
    LET fitted == FoldLeft(LAMBDA q, g : fitGroup(j, q, wrapSites(j, g)),
                           [p EXCEPT !.groups = <<>>], p.groups)
    IN  IF \/ ~checkLookupStack(j)
           \/ j.req.entry /\ planLookupSlots(floor(j, Entry)).ctx < -siteFrameLimit(j)
        THEN Refuse(p, "frame")
        ELSE IF fitted.refusal = "" /\ fitted.groups = <<>> /\ Nothing(j.req)
        THEN Refuse(fitted, "frame")
        ELSE fitted

TailCalls(j, p) ==
    LET reserve == IF j.req.dispatch THEN 32 ELSE 16
        none(t) == perFrame(j) /\ t.fn \notin j.frame.audited
        deep(t) == planLookupSlots(floor(j, t.fn)).ctx + 8 - reserve < -siteFrameLimit(j)
        out     == SelectSeq(j.tails, LAMBDA t : none(t) \/ deep(t))
    IN  IF ~j.req.tails THEN p
        ELSE IF j.tails = <<>> THEN Refuse(p, "tails")
        ELSE [p EXCEPT !.tails = SelectSeq(j.tails, LAMBDA t : ~none(t) /\ ~deep(t)),
                       !.tailOn = TRUE,
                       !.skipped = @ \o Skip(out, "tail")]

wrapperName(site) == <<"", "site" \o ToString(site.pc)>>
Wrapped(g) == SelectSeq(g.sites, LAMBDA s : s.wrapped)
Extras(g) ==
    (IF g.miss = NoName THEN <<>> ELSE <<g.miss>>)
    \o [i \in DOMAIN Wrapped(g) |-> wrapperName(Wrapped(g)[i])]

\* Names: of the groups, then the miss hooks and wrappers, then the reserved.
Names(j, p) ==
    LET own   == {p.groups[i].name : i \in DOMAIN p.groups}
        extra == FlattenSeq([i \in DOMAIN p.groups |-> Extras(p.groups[i])])
        all   == own \union ToSet(extra) \union (IF j.req.dispatch THEN {<<>>} ELSE {})
    IN  IF \/ \E n \in ToSet(extra) : n \in own \/ ~validIdent(n)
           \/ Len(extra) # Cardinality(ToSet(extra))
           \/ \E n \in reserved(j.req) : n \in all \/ ~validIdent(n)
        THEN Refuse(p, "name")
        ELSE p

Hooked(j, p) ==
    UNION {PlanPcs(p.groups[i].sites) : i \in DOMAIN p.groups}
    \union (IF j.req.entry THEN {EntryPC} ELSE {})
    \union (IF p.tailOn THEN PlanPcs(p.tails) ELSE {})

stackLimitsBroken(j, p) == \E b \in j.breaks : b \subseteq Hooked(j, p)
introducesTailCallReachabilityLoss(j, p) == \E b \in j.loses : b \subseteq Hooked(j, p)

\* Mutant: each group is tried alone, not with those found safe.
safeGroupsAlone(j, p) ==
    FoldLeft(LAMBDA q, g :
                IF introducesTailCallReachabilityLoss(j, [q EXCEPT !.groups = <<g>>])
                THEN skipGroup(q, g, "probe")
                ELSE [q EXCEPT !.groups = Append(@, g)],
             [p EXCEPT !.groups = <<>>, !.tailOn = FALSE], p.groups)

safeGroups(j, p) ==
    FoldLeft(LAMBDA q, g :
                LET trial == [q EXCEPT !.groups = Append(@, g)]
                IN  IF introducesTailCallReachabilityLoss(j, trial)
                    THEN skipGroup(q, g, "probe") ELSE trial,
             [p EXCEPT !.groups = <<>>, !.tailOn = FALSE], p.groups)

Guard(j, p) ==
    LET fewer == IF j.req.auto THEN dropSites(p, {"pass", "callback"}, "probe") ELSE p
        safe  == safeGroups(j, fewer)
        tails == [safe EXCEPT !.tailOn = TRUE]
        kept  == IF ~j.req.tails THEN safe
                 ELSE IF introducesTailCallReachabilityLoss(j, tails)
                 THEN [safe EXCEPT !.skipped = @ \o Skip(p.tails, "probe"), !.tails = <<>>]
                 ELSE tails
    IN  IF ~(j.probeFails /\ introducesTailCallReachabilityLoss(j, p)) THEN p
        ELSE IF kept.groups = <<>> /\ ~j.req.entry /\ ~kept.tailOn
        THEN Refuse(kept, "probe")
        ELSE kept

\* A limit breaks: the newest kinds go, then the deep groups, then all.
DropKind(j, p, kind) ==
    LET less == dropSites(p, {kind}, "limit")
    IN  IF ~p.broken \/ ~j.req.auto THEN p
        ELSE IF less.skipped # p.skipped /\ (less.groups # <<>> \/ ~Nothing(j.req))
        THEN [less EXCEPT !.broken = stackLimitsBroken(j, less)]
        ELSE less

KeepOnly(j, p, keep(_)) ==
    LET fewer == FoldLeft(LAMBDA q, g :
                    IF keep(g) THEN [q EXCEPT !.groups = Append(@, g)]
                    ELSE skipGroup(q, g, "limit"),
                    [p EXCEPT !.groups = <<>>], p.groups)
    IN  IF ~p.broken \/ ~j.req.auto \/ p.refusal # "" \/ fewer.groups = p.groups THEN p
        ELSE IF fewer.groups = <<>> /\ Nothing(j.req) THEN Refuse(fewer, "limit")
        ELSE [fewer EXCEPT !.broken = stackLimitsBroken(j, fewer)]

DropNewKinds(j, p) == FoldLeft(LAMBDA q, k : DropKind(j, q, k), p, newSiteKinds)
DropGroups(j, p) ==
    KeepOnly(j, KeepOnly(j, p, LAMBDA g : ~reachesBelowBase(j, g)), LAMBDA g : FALSE)

Unbroken(p) == IF p.broken /\ p.refusal = "" THEN Refuse(p, "limit") ELSE p

Limits(j, p) ==
    Unbroken(DropGroups(j,
        DropNewKinds(j, [p EXCEPT !.broken = stackLimitsBroken(j, p)])))

-----------------------------------------------------------------------------
(* The hooks of the plan, and the checker's targets built from them.        *)

Hook(name, kind, when, sites) ==
    [name |-> name, kind |-> kind, when |-> when, sites |-> PlanPcs(sites)]

groupHooks(j, g) ==
    IF g.op # "lookup" THEN <<Hook(g.name, g.op, j.req.updates, g.sites)>>
    ELSE IF g.generic \/ j.req.dispatch
    THEN <<Hook(g.name, "lookup", j.req.lookups, g.sites)>>
    ELSE (IF planHit(j.req.lookups) THEN <<Hook(g.name, "lookup", "hit", g.sites)>> ELSE <<>>)
         \o (IF g.miss # NoName THEN <<Hook(g.miss, "lookup", "miss", g.sites)>> ELSE <<>>)

splice(j, p) ==
    FlattenSeq([i \in DOMAIN p.groups |-> groupHooks(j, p.groups[i])])
    \o (IF j.req.entry
        THEN <<Hook(IF j.req.dispatch THEN <<>> ELSE <<"entry">>, "entry", "", <<>>)>>
        ELSE <<>>)
    \o (IF p.tailOn
        THEN <<Hook(IF j.req.dispatch THEN <<>> ELSE <<"tail", "call">>,
                    "tail_call", "", p.tails)>>
        ELSE <<>>)

TargetsOf(h) ==
    IF h.kind = "entry" THEN {[site |-> EntryPC, when |-> "any", hook |-> h.name]}
    ELSE {[site |-> pc, when |-> IF h.kind = "tail_call" THEN "any" ELSE h.when,
           hook |-> h.name] : pc \in h.sites}

\* BuildLookupTargets refuses two targets for one site and condition.
BuildLookupTargets(hooks) ==
    LET keys(h) == {<<t.site, t.when>> : t \in TargetsOf(h)}
    IN  IF \E a, b \in DOMAIN hooks : a # b /\ keys(hooks[a]) \cap keys(hooks[b]) # {}
        THEN {}
        ELSE UNION {TargetsOf(hooks[i]) : i \in DOMAIN hooks}

Finish(j, p) ==
    LET hooks == splice(j, p)
    IN  [p EXCEPT !.hooks = hooks, !.targets = BuildLookupTargets(hooks)]

-----------------------------------------------------------------------------
Blank == [stage |-> "select", seen |-> <<>>, groups |-> <<>>, skipped |-> <<>>,
          tails |-> <<>>, tailOn |-> FALSE, broken |-> FALSE, refusal |-> "",
          hooks |-> <<>>, targets |-> {}]

Older(sites) == SelectSeq(sites, LAMBDA s : ~isPassSite(s) /\ ~isCallbackSite(s))

\* A plan takes its next stage; a refused plan takes none.
Stage(p, from, to, result) ==
    IF p.stage # from THEN p
    ELSE IF result.refusal # "" THEN [result EXCEPT !.stage = "refused"]
    ELSE [result EXCEPT !.stage = to]

Both(from, to, Do(_, _, _)) ==
    /\ plan.stage = from \/ (plan.stage = "refused" /\ old.stage = from)
    /\ plan' = Stage(plan, from, to, Do(planJob, plan, planJob.sites))
    /\ old' = Stage(old, from, to, Do(planJob, old, Older(planJob.sites)))
    /\ UNCHANGED planJob

SelectStep == Both("select", "fit", Select)
FitStep == Both("fit", "tails", LAMBDA j, p, s : Fit(j, p))
TailStep == Both("tails", "names", LAMBDA j, p, s : TailCalls(j, p))
NameStep == Both("names", "guard", LAMBDA j, p, s : Names(j, p))
GuardStep == Both("guard", "limits", LAMBDA j, p, s : Guard(j, p))
LimitStep == Both("limits", "finish", LAMBDA j, p, s : Limits(j, p))
FinishStep == Both("finish", "done", LAMBDA j, p, s : Finish(j, p))

PlanInit ==
    /\ \E f \in Families :
          planJob \in [req : f.reqs, sites : f.sites, tails : f.tails, frame : f.frames,
                      breaks : f.breaks, loses : f.loses, probeFails : f.fails]
    /\ plan = Blank
    /\ old = Blank

PlanNext ==
    \/ SelectStep \/ FitStep \/ TailStep \/ NameStep
    \/ GuardStep \/ LimitStep \/ FinishStep

PlanSpec == PlanInit /\ [][PlanNext]_planVars

PlanPlanned == plan.stage = "done"
SitesOf(p) == UNION {PlanPcs(p.groups[i].sites) : i \in DOMAIN p.groups}

-----------------------------------------------------------------------------
(* LookupRequest: "Sites that cannot be instrumented are reported in        *)
(* Skipped".  With Auto every observed map call of the program ends in one  *)
(* group or in Skipped, once and with a reason, whichever stages dropped    *)
(* it; a tail call ends hooked or skipped likewise.                         *)
EverySiteAccounted ==
    PlanPlanned => LET skipped(pc) == Cardinality({i \in DOMAIN plan.skipped :
                                      plan.skipped[i].pc = pc})
                       count(pc) == IF pc \in Hooked(planJob, plan) THEN 1 ELSE 0
                   IN  /\ \A i \in DOMAIN plan.skipped : plan.skipped[i].why # ""
                       /\ planJob.req.auto => \A pc \in PlanPcs(plan.seen) : skipped(pc) + count(pc) = 1
                       /\ planJob.req.tails => \A pc \in PlanPcs(planJob.tails) : skipped(pc) + count(pc) = 1

(* Every slot a hooked site spills to is within the depth a frame that      *)
(* calls a hook may reach: its own slots, the value copy, the context slots *)
(* of the functions its context is passed through, and the entry's, which   *)
(* an entry site reads even from its wrapper.                               *)
HookedSlotsFit ==
    PlanPlanned => \A i \in DOMAIN plan.groups :
        LET g == plan.groups[i]
        IN  /\ Fits(planJob, g)
            /\ \A k \in DOMAIN g.sites :
                  \A fn \in g.sites[k].chain
                        \union (IF g.sites[k].src = "entry" THEN {Entry} ELSE {}) :
                     planLookupSlots(floor(planJob, fn)).ctx >= -siteFrameLimit(planJob)

(* Without Dispatch no two functions the rewrite generates share a name:    *)
(* the groups' hooks, their miss hooks, the wrappers, the entry and the     *)
(* tail-call hook.                                                          *)
GeneratedNamesDistinct ==
    PlanPlanned /\ ~planJob.req.dispatch =>
        LET names == FlattenSeq([i \in DOMAIN plan.groups |->
                         <<plan.groups[i].name>> \o Extras(plan.groups[i])])
                     \o SetToSeq(reserved(planJob.req))
        IN  Cardinality(ToSet(names)) = Len(names)

(* newSiteKinds drops the newest kinds first "so that a program keeps every *)
(* site an earlier release kept": a site hooked when the program has no     *)
(* passed-context and no callback site is hooked when it has.               *)
EarlierSitesKept ==
    planJob.req.auto /\ plan.stage \in {"done", "refused"} /\ old.stage = "done" =>
        PlanPlanned /\ SitesOf(old) \subseteq SitesOf(plan)

(* What is emitted neither breaks a stack limit nor, on a kernel where the  *)
(* probe failed, loses tail-call reachability, after all the dropping.      *)
EmittedIsSafe ==
    PlanPlanned => /\ ~stackLimitsBroken(planJob, plan)
                   /\ planJob.probeFails => ~introducesTailCallReachabilityLoss(planJob, plan)

(* The targets the checker is given name, for each hooked lookup, one hook  *)
(* for every result the request observes and none for the others.           *)
TargetsCoverResults ==
    PlanPlanned => \A i \in DOMAIN plan.groups : plan.groups[i].op = "lookup" =>
        \A pc \in PlanPcs(plan.groups[i].sites), r \in {"hit", "miss"} :
            Cardinality({t \in plan.targets : t.site = pc /\ t.when \in {r, "any"}})
                = IF planJob.req.lookups \in {r, "any"} THEN 1 ELSE 0

(* "the first hook is the first lookup hook in Hooks (the entry or tail-call *)
(* hook when there is no lookup)": a plan has a hook to name.               *)
FirstHookExists == PlanPlanned => plan.hooks # <<>>

(* A known difference (MCClaims exhibits it): the tail calls asked for, but  *)
(* dropped by the guard, still count as hooks when the limits drop the rest. *)
TailsAllDropped == planJob.req.tails /\ planJob.probeFails /\ plan.tails = <<>>

(* The plan of buildLookups: every site accounted for, what is hooked fits, *)
(* is named apart and safe to emit, and the checker is told all of it.      *)
PlanSound ==
    /\ EverySiteAccounted /\ EarlierSitesKept
    /\ HookedSlotsFit /\ EmittedIsSafe
    /\ GeneratedNamesDistinct /\ TargetsCoverResults
    /\ FirstHookExists \/ TailsAllDropped
=============================================================================
