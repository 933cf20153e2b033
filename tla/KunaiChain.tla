----------------------------- MODULE KunaiChain -----------------------------
(***************************************************************************)
(* A layer chain of the packet-filter language, from the parsed chain to   *)
(* the verdict of the generated program.  The resolver (pkg/kunai/resolve, *)
(* pkg/kunai/ir) selects how every layer is dispatched from the one before *)
(* it; the code generator (pkg/kunai/codegen) turns the layers into        *)
(* straight-line checks over a cursor, a few stack slots and a bpf_loop    *)
(* callback.  The reference is the executable semantics of the language    *)
(* (spec/lean/Kunai/Eval/Layer.lean), which keeps the list of the headers  *)
(* it really extracted.                                                    *)
(*                                                                         *)
(* A packet is a sequence of words; a word stands for one dispatch-sized   *)
(* piece of a header and is named after the value it carries.  The walk of *)
(* options and extension headers inside one header is taken as a whole     *)
(* (HeaderEnd): both sides share it.                                       *)
(***************************************************************************)
EXTENDS Integers, Sequences, FiniteSets, SequencesExt

CONSTANTS
    Vocab,              \* protocol name -> what its .p4 file declares
    Chains,             \* the parsed chains: a sequence of layers, a where
                        \* atom and the words of the packets it is tried on
    MaxLen,             \* longest packet, in words
    StaticChainCap,     \* staticChainCap: longest unrolled chain
    MachineChainCap,    \* staticMachineChainCap
    LoopChainCap,       \* bpfLoopChainCap: most headers a bpf_loop walks
    AltCountCap         \* altCountCap

VARIABLES
    chain,    \* the chain, by its place in Chains
    status,   \* how far the resolver and the generator got with it
    chainPkt,      \* the packet, as far as its length is decided
    code,     \* the verdict of the generated program on pkt
    ref       \* the verdict of the reference semantics on pkt

chainVars == <<chain, status, chainPkt, code, ref>>

NilConst == [parent |-> "", type |-> "nil", field |-> "", off |-> 0, vals |-> {}]
NoDispatch == [type |-> "none", c |-> NilConst, alts |-> <<>>, div |-> FALSE]
Undef == -9             \* a stack slot nothing was stored in
Absent == -1            \* layerEntryAbsent

Positions(s) == DOMAIN s

----------------------------------------------------------------------------
(* Layers and their quantifiers *)

IsAlt(l) == l.alt # <<>>

Absentable(l) == \/ l.q \in {"opt", "star"}
                 \/ l.q = "range" /\ l.lo = 0

\* The quantifier as (min, max); a negative max is an open bound.
Bounds(l) == CASE l.q = "one"  -> <<1, 1>>
               [] l.q = "opt"  -> <<0, 1>>
               [] l.q = "plus" -> <<1, -1>>
               [] l.q = "star" -> <<0, -1>>
               [] OTHER        -> <<l.lo, l.hi>>

CanRepeat(l) == Bounds(l)[2] < 0 \/ Bounds(l)[2] > 1

ChainMaxIter(l) == IF Bounds(l)[2] < 0 THEN Vocab[l.p].depth ELSE Bounds(l)[2]

\* The first field constant under the parent, else the first no-check one.
SelectDispatchConst(child, parent) ==
    LET under(t) == SelectSeq(Vocab[child].consts,
                              LAMBDA c : c.parent = parent /\ c.type = t)
    IN  Head(under("field") \o under("nocheck") \o <<NilConst>>)

IsSelfValidating(p) == Vocab[p].req # {}

\* Whether a child may be dispatched from `b` with the code emitted for `a`.
DispatchEquivalentFor(child, a, b) ==
    LET tail(p, c) == c.off - Vocab[p].hs
        alike(ca, cb) ==
            IF ca.type = "nil" \/ cb.type = "nil" THEN ca.type = cb.type
            ELSE /\ ca.type = cb.type
                 /\ ~(Vocab[child].end # "" /\ (a = child) # (b = child))
                 /\ \/ ca.type # "field"
                    \/ /\ ca.vals = cb.vals
                       /\ ~Vocab[a].var /\ ~Vocab[b].var
                       /\ tail(a, ca) = tail(b, cb)
    IN  alike(SelectDispatchConst(child, a), SelectDispatchConst(child, b))

----------------------------------------------------------------------------
(* The resolver: dispatch selection *)

RECURSIVE FlattenAltMembers(_)
FlattenAltMembers(ms) ==
    IF ms = <<>> THEN <<>>
    ELSE (IF IsAlt(Head(ms)) /\ Head(ms).q = "one"
          THEN FlattenAltMembers(Head(ms).alt) ELSE <<Head(ms)>>)
         \o FlattenAltMembers(Tail(ms))

ErrDispatch == [NoDispatch EXCEPT !.type = "err"]

SelectDispatch(child, parent) ==
    LET by(c) == CASE c.type # "nil"          -> [NoDispatch EXCEPT !.type = c.type, !.c = c]
                   [] IsSelfValidating(child) -> [NoDispatch EXCEPT !.type = "self"]
                   [] OTHER                   -> ErrDispatch
    IN  by(SelectDispatchConst(child, parent))

AltDispatchAgrees(a, b) ==
    a.type = b.type /\ a.field = b.field /\ a.vals = b.vals

\* A member that is itself a quantified group has no protocol: reading its
\* Spec.Name dereferences nil.
SelectAltParentDispatch(child, alts) ==
    LET by(consts) ==
            LET div == \E j \in Positions(alts) : ~AltDispatchAgrees(consts[1], consts[j])
                missing == {j \in Positions(alts) : ~IsAlt(alts[j]) /\ consts[j].type = "nil"}
                groups == {j \in Positions(alts) : IsAlt(alts[j])}
            IN  CASE groups # {} /\ \A j \in missing : \E g \in groups : g < j ->
                        [NoDispatch EXCEPT !.type = "crash"]
                  [] missing # {} -> ErrDispatch
                  [] div /\ \E j \in Positions(alts) : consts[j].type # "field" -> ErrDispatch
                  [] OTHER -> [type |-> consts[1].type, c |-> consts[1], alts |-> consts, div |-> div]
    IN  by([j \in Positions(alts) |-> SelectDispatchConst(child, alts[j].p)])

DispatchFrom(child, parent) ==
    IF IsAlt(parent) THEN SelectAltParentDispatch(child, parent.alt)
    ELSE SelectDispatch(child, parent.p)

\* Give a layer, or every member of a group, its dispatch from `parent`.
RECURSIVE Dispatched(_, _)
Dispatched(l, parent) ==
    IF IsAlt(l)
    THEN [l EXCEPT !.alt = [j \in Positions(l.alt) |-> Dispatched(l.alt[j], parent)]]
    ELSE [l EXCEPT !.disp = DispatchFrom(l.p, parent)]

RECURSIVE DispatchFails(_, _)
DispatchFails(l, how) ==
    \/ l.disp.type = how
    \/ \E j \in Positions(l.alt) : DispatchFails(l.alt[j], how)

\* resolveLayer / resolveAlternation over the whole chain.
ResolveLayers(ast) ==
    LET shape(k) == [ast[k] EXCEPT !.alt = FlattenAltMembers(@), !.id = k]
    IN  [k \in Positions(ast) |->
            IF k = 1 THEN shape(1) ELSE Dispatched(shape(k), shape(k - 1))]

----------------------------------------------------------------------------
(* The layers that can be the header right before layer i at run time *)

\* Nearest first: back through the absentable layers, to the first one that
\* is always there; altReached when an alternation is met on the way.
RuntimeParents(ls, i) ==
    LET backTo(stop) ==
            LET altReached == stop > 0 /\ IsAlt(ls[stop])
                last == IF stop = 0 THEN 1 ELSE IF altReached THEN stop + 1 ELSE stop
            IN  [parents |-> [k \in 1..(i - last) |-> i - k], altReached |-> altReached]
    IN  backTo(Max({0} \cup {j \in 1..(i - 1) : IsAlt(ls[j]) \/ ~Absentable(ls[j])}))

RuntimeParentsDispatchAlike(ls, i, child) ==
    LET alike(ps, altReached) ==
            LET others == {ls[ps[k]].p : k \in 2..Len(ps)}
                          \cup IF altReached THEN {m.p : m \in ToSet(ls[Last(ps) - 1].alt)} ELSE {}
            IN  ps # <<>> => \A o \in others : DispatchEquivalentFor(child, ls[ps[1]].p, o)
    IN  alike(RuntimeParents(ls, i).parents, RuntimeParents(ls, i).altReached)

AbsentEdgeApplies(ls, i) ==
    /\ i > 1 /\ i < Len(ls) /\ Absentable(ls[i])
    /\ ~Absentable(ls[i - 1]) /\ ~IsAlt(ls[i - 1])
    /\ ls[i + 1].q = "one" /\ ~IsAlt(ls[i + 1])
    /\ ls[i + 1].disp.type # "none" /\ ~ls[i + 1].disp.div

NeedsParentCascade(ls, i) ==
    /\ i > 1 /\ ~IsAlt(ls[i]) /\ ls[i].disp.type # "none" /\ ~ls[i].disp.div
    /\ RuntimeParents(ls, i).parents # <<>>
    /\ ~AbsentEdgeApplies(ls, i - 1)
    /\ ~RuntimeParentsDispatchAlike(ls, i, ls[i].p)

----------------------------------------------------------------------------
(* The resolver: the shape of the chain *)

\* An optional layer nothing tells the absence of.
NoCheckAbsence(l, prev) ==
    /\ Absentable(l) /\ l.disp.type = "nocheck"
    /\ ~(~IsAlt(prev) /\ prev.p = l.p /\ Vocab[l.p].end # "")

CheckChainShape(ls) ==
    /\ ~IsAlt(ls[1]) /\ ~Absentable(ls[1])
    /\ \A i \in Positions(ls) :
         IF IsAlt(ls[i])
         THEN \A j \in Positions(ls[i].alt) :
                LET m == ls[i].alt[j] IN
                /\ ~IsAlt(m) /\ m.q = "one"
                /\ \A k \in ToSet(RuntimeParents(ls, i).parents) :
                      SelectDispatchConst(m.p, ls[k].p).type = "field"
         ELSE LET l == ls[i] IN
              /\ CanRepeat(l) => SelectDispatchConst(l.p, l.p).type # "nil"
              /\ ~(l.q = "range" /\ l.hi < 0 /\ l.lo > Vocab[l.p].depth)
              /\ i > 1 => ~NoCheckAbsence(l, ls[i - 1])

\* Every header the layer may really follow has a dispatch for it.
CheckRuntimeParents(ls) ==
    \A i \in 3..Len(ls) :
        (~IsAlt(ls[i]) /\ Absentable(ls[i - 1])) =>
            \A k \in ToSet(RuntimeParents(ls, i).parents) \ {i - 1} :
                SelectDispatch(ls[i].p, ls[k].p).type # "err"

IsEmptyLayer(ls, i) == i > 1 /\ ~IsAlt(ls[i]) /\ Bounds(ls[i])[2] = 0

\* `{0,0}` layers go; the layer after one is dispatched from the layer before.
DropEmptyLayers(ls) ==
    LET kept == SelectSeq([i \in Positions(ls) |-> i], LAMBDA i : ~IsEmptyLayer(ls, i))
    IN  [n \in Positions(kept) |->
            IF n > 1 /\ kept[n - 1] # kept[n] - 1
            THEN Dispatched(ls[kept[n]], ls[kept[n - 1]])
            ELSE ls[kept[n]]]

RedispatchFails(all, ls) ==
    \E n \in 2..Len(ls) :
        /\ IsEmptyLayer(all, ls[n].id - 1)
        /\ \/ DispatchFails(ls[n], "err")
           \/ ~IsAlt(ls[n]) /\ NoCheckAbsence(ls[n], ls[n - 1])

----------------------------------------------------------------------------
(* The resolver: warnings and entry-slot marks *)

\* A greedy quantifier right before a layer of the same protocol.
UnreachableChainAt(ls, i) ==
    /\ i < Len(ls) /\ ~IsAlt(ls[i]) /\ ~IsAlt(ls[i + 1])
    /\ ls[i].q # "one" /\ ls[i].p = ls[i + 1].p
    /\ ~(Bounds(ls[i])[2] > 0 /\ Vocab[ls[i].p].end = "")

\* A member whose protocol an earlier member of its group already has.
ShadowedAlternativeAt(ls, i, j) ==
    \E k \in 1..(j - 1) : ls[i].alt[k].p = ls[i].alt[j].p

IsHeterogeneousAlt(l) ==
    \E j \in Positions(l.alt), k \in Positions(l.alt) :
        Vocab[l.alt[j].p].hs # Vocab[l.alt[k].p].hs

IsRuntimeBoundary(l) ==
    \/ IsHeterogeneousAlt(l)
    \/ ~IsAlt(l) /\ Vocab[l.p].var
    \/ \E j \in Positions(l.alt) : Vocab[l.alt[j].p].var
    \/ l.q # "one"

\* The layer the where atom reads gets an entry slot when it is at an offset
\* only known at run time.
MarkRuntimeOffsetLayers(ls, read) ==
    LET boundaries == {i \in Positions(ls) : IsRuntimeBoundary(ls[i])}
        past(i) == \E b \in boundaries : b < i
    IN  [i \in Positions(ls) |->
            IF read = <<>> \/ ls[i].id # read[1] \/ (ls[i].q = "one" /\ ~past(i))
            THEN ls[i]
            ELSE IF read[2] = 0 THEN [ls[i] EXCEPT !.slot = TRUE]
            ELSE [ls[i] EXCEPT !.alt[read[2]].slot = TRUE]]

\* So do the absentable layers a cascade tests for presence.
MarkCascadeParents(ls) ==
    [j \in Positions(ls) |->
        [ls[j] EXCEPT !.slot =
            @ \/ /\ Absentable(ls[j])
                 /\ \E i \in Positions(ls) :
                       /\ NeedsParentCascade(ls, i)
                       /\ j \in ToSet(RuntimeParents(ls, i).parents)]]

----------------------------------------------------------------------------
(* The generator: what it refuses *)

IsMachineChain(l) == ~IsAlt(l) /\ Vocab[l.p].machine /\ CanRepeat(l)

SelfEdgeWithChainEnd(l, parent) ==
    ~IsAlt(parent) /\ parent.p = l.p /\ Vocab[l.p].end # ""

OptionalLayerGuard(ls, i) ==
    LET l == ls[i] sp == Vocab[l.p]
        atMostOne == l.q = "opt" \/ (l.q = "range" /\ l.hi = 1)
    IN  /\ i > 1 /\ l.disp.type # "none"
        /\ l.disp.type = "nocheck" => SelfEdgeWithChainEnd(l, ls[i - 1])
        /\ l.disp.type = "self" => sp.req # {}
        /\ atMostOne \/ IsMachineChain(l) \/ ~sp.var
        /\ ~(sp.end # "" /\ sp.var)

\* Chain-end edges and cascades the dispatch code cannot be emitted for.
DispatchSupported(ls, i, l) ==
    i > 1 =>
    IF ~IsAlt(ls[i]) /\ NeedsParentCascade(ls, i)
    THEN ~RuntimeParents(ls, i).altReached
    ELSE (IsAlt(ls[i - 1]) /\ Vocab[l.p].end # "" /\ ~l.disp.div) =>
            \A m \in ToSet(ls[i - 1].alt) : (m.p = l.p) = (ls[i - 1].alt[1].p = l.p)

ValidateAlternatives(ls, i) ==
    /\ ls[i].q = "one" /\ i > 1
    /\ Len(ls[i].alt) \in 2..AltCountCap
    /\ \A m \in ToSet(ls[i].alt) :
          /\ m.disp.type \notin {"none", "nocheck"}
          /\ RuntimeParentsDispatchAlike(ls, i, m.p)
          /\ DispatchSupported(ls, i, m)

\* How a layer is laid out: genLayerInner's choice.
Shape(l) ==
    CASE l.q = "one"                               -> "one"
      [] l.q = "opt" \/ (l.q = "range" /\ l.hi = 1) -> "static"
      [] IsMachineChain(l)                         -> "machine"
      [] l.q = "range" /\ l.hi \in 1..StaticChainCap -> "static"
      [] OTHER                                     -> "loop"

LayerSupported(ls, i) ==
    IF IsAlt(ls[i]) THEN ValidateAlternatives(ls, i)
    ELSE LET l == ls[i] sp == Vocab[l.p] IN
         /\ Absentable(l) => OptionalLayerGuard(ls, i)
         /\ DispatchSupported(ls, i, l)
         /\ Shape(l) = "loop" => ChainMaxIter(l) <= LoopChainCap
         /\ Shape(l) = "machine" => ChainMaxIter(l) <= MachineChainCap /\ sp.end = ""
         /\ (Shape(l) \in {"static", "loop"} /\ CanRepeat(l)) => ~sp.var
         /\ ~(l.q = "range" /\ l.lo = 1 /\ l.hi = 1 /\ sp.machine /\ sp.end # "")

----------------------------------------------------------------------------
(* The generator: addressing decided at compile time *)

LayerLeavesR4Range(l) == l.q # "one" \/ IsAlt(l) \/ Vocab[l.p].var

PrecedingLayersLeaveR4Range(ls, i) == \E j \in 1..(i - 1) : LayerLeavesR4Range(ls[j])

LayerEntryIsRange(ls, i) ==
    \/ PrecedingLayersLeaveR4Range(ls, i)
    \/ ~IsAlt(ls[i]) /\ Vocab[ls[i].p].var /\ IsMachineChain(ls[i])

\* A group gets a matched-member slot when something later asks which
\* member matched.
MatchedSlotPlanned(ls, i, read) ==
    \/ read # <<>> /\ read[1] = ls[i].id
    \/ /\ i < Len(ls)
       /\ \/ ls[i + 1].disp.div
          \/ \E m \in ToSet(ls[i + 1].alt) : m.disp.div

\* prefixHeaderSize with uniformAltPrefixSize and exactInstances; -1 when
\* the layers before i do not have one fixed size.
RECURSIVE PrefixHeaderSize(_, _)
PrefixHeaderSize(ls, i) ==
    IF i = 1 THEN 0
    ELSE LET l == ls[i - 1]
             before == PrefixHeaderSize(ls, i - 1)
             one == IF IsAlt(l) THEN l.alt[1] ELSE l
         IN  IF before = -1 \/ l.q # "one" \/ IsHeterogeneousAlt(l) THEN -1
             ELSE before + Vocab[one.p].hs

\* layerAnchorFor and absentLayerGuard have what they need for the atom.
ReadAddressable(ls, read) ==
    read # <<>> =>
    \A i \in Positions(ls) : ls[i].id = read[1] =>
        LET l == IF read[2] = 0 THEN ls[i] ELSE ls[i].alt[read[2]] IN
        /\ Absentable(ls[i]) => l.slot
        /\ l.slot \/ (l.q = "one" /\ PrefixHeaderSize(ls, i) # -1)

----------------------------------------------------------------------------
(* One header of a packet, for both sides *)

Word(p, i) == p[i + 1]
InPacket(p, i) == i \in 0..(Len(p) - 1)

RECURSIVE ExtensionEnd(_, _, _)
ExtensionEnd(p, pos, nh) ==
    IF nh # "ext" THEN <<pos, nh>>
    ELSE IF ~InPacket(p, pos) THEN <<-1, nh>>
    ELSE ExtensionEnd(p, pos + 1, Word(p, pos))

\* The end of the header at off (fixed part in the packet) and its written
\* back next-header word; the end is -1 when it lies past the packet.
HeaderEnd(p, proto, off) ==
    LET sp == Vocab[proto]
        fixed == off + sp.hs + (IF Word(p, off) \in sp.extra THEN 1 ELSE 0)
        walk == IF sp.wb = -1 THEN <<fixed, "">>
                ELSE ExtensionEnd(p, fixed, Word(p, off + sp.wb))
    IN  IF walk[1] > Len(p) THEN <<-1, "">> ELSE walk

\* What extracting one header does: "ok", "short" (bounds) or "rej".
HeaderCheck(p, l, off) ==
    LET sp == Vocab[l.p] IN
    CASE off + sp.hs > Len(p)                              -> "short"
      [] sp.req # {} /\ Word(p, off) \notin sp.req         -> "rej"
      [] Word(p, off) \notin l.pred                        -> "rej"
      [] HeaderEnd(p, l.p, off)[1] = -1                    -> "short"
      [] OTHER                                             -> "ok"

----------------------------------------------------------------------------
(* The generated program.  s.r4 is the cursor, s.ent the shared layer-entry *)
(* slot (bpfLoopCtxLayerEntrySlot), s.slot the per-layer entry slots, s.mat *)
(* the matched-member slots, s.wb the write-back slots of layers and        *)
(* members, s.joined whether control entered the layer at its dispatch join *)

Stop(s, v) == [s EXCEPT !.v = v]
Running(s) == s.v = "run"

\* The word tested is at `at`; a bounded load past the packet misses, an
\* unbounded one reads what was never checked.
LoadAndMatch(p, at, c, bounded) ==
    CASE InPacket(p, at) -> IF Word(p, at) \in c.vals THEN "hit" ELSE "miss"
      [] bounded         -> "miss"
      [] OTHER           -> "oob"

\* genFieldDispatch: from the write-back slot, the entry of a variable-length
\* parent, or backwards from the cursor.
GenFieldDispatch(p, s, parent, key, c, r4IsRange, parentEntryIsRange) ==
    LET sp == Vocab[parent] IN
    CASE sp.wb # -1 /\ sp.wb = c.off ->
            IF s.wb[key] = "undef" THEN "undef"
            ELSE IF s.wb[key] \in c.vals THEN "hit" ELSE "miss"
      [] sp.var /\ s.ent = Undef -> "undef"
      [] sp.var -> LoadAndMatch(p, s.ent + c.off, c, parentEntryIsRange)
      [] OTHER  -> LoadAndMatch(p, s.r4 - sp.hs + c.off, c, r4IsRange)

ChainEndSeen(p, r4, proto) ==
    LET at == r4 - Vocab[proto].hs IN
    Vocab[proto].end # "" /\ InPacket(p, at) /\ Word(p, at) = Vocab[proto].end

SelfValidationProbe(p, r4, child) ==
    IF InPacket(p, r4) /\ Word(p, r4) \notin Vocab[child].req THEN "miss" ELSE "hit"

\* genDispatch; missIsReject when a miss jumps to the reject label.
GenDispatch(p, s, child, parent, key, type, c, r4IsRange, entryIsRange, missIsReject) ==
    CASE child = parent /\ ChainEndSeen(p, s.r4, child) -> "miss"
      [] type = "field"   -> GenFieldDispatch(p, s, parent, key, c, r4IsRange, entryIsRange)
      [] type = "nocheck" -> "hit"
      [] OTHER            -> IF missIsReject THEN "hit" ELSE SelfValidationProbe(p, s.r4, child)

\* dispatchVia: the dispatch from a parent other than the static one.
DispatchVia(p, s, ls, child, j, r4IsRange, missIsReject) ==
    LET c == SelectDispatchConst(child, ls[j].p) IN
    GenDispatch(p, s, child, ls[j].p, <<j, 0>>,
                IF c.type = "nil" THEN "self" ELSE c.type, c,
                r4IsRange, LayerEntryIsRange(ls, j), missIsReject)

\* genLayerDispatch: by the matched member when the members disagree, else
\* by the layer before or the first member of the group before.
GenLayerDispatch(p, s, ls, i, l, missIsReject) ==
    LET prev == ls[i - 1]
        r4IsRange == PrecedingLayersLeaveR4Range(ls, i)
        entryIsRange == LayerEntryIsRange(ls, i - 1)
    IN  IF l.disp.div
        THEN IF s.mat[i - 1] = Undef THEN "undef"
             ELSE LET k == s.mat[i - 1] IN
                  GenFieldDispatch(p, s, prev.alt[k].p, <<i - 1, k>>, l.disp.alts[k],
                                   r4IsRange, entryIsRange)
        ELSE LET parent == IF IsAlt(prev) THEN prev.alt[1].p ELSE prev.p
                 key == IF IsAlt(prev) THEN <<i - 1, 1>> ELSE <<i - 1, 0>>
             IN  GenDispatch(p, s, l.p, parent, key, l.disp.type, l.disp.c,
                             r4IsRange, entryIsRange, missIsReject)

\* genParentDispatch: the cascade tests the optional parents nearest first.
GenParentDispatch(p, s, ls, i, l, missIsReject) ==
    IF IsAlt(ls[i]) \/ ~NeedsParentCascade(ls, i)
    THEN GenLayerDispatch(p, s, ls, i, l, missIsReject)
    ELSE LET cascade(ps) ==
                 LET k == Min({n \in Positions(ps) : n = Len(ps) \/ s.slot[ps[n]] # Absent})
                 IN  IF k < Len(ps) /\ s.slot[ps[k]] = Undef THEN "undef"
                     ELSE DispatchVia(p, s, ls, l.p, ps[k],
                                      PrecedingLayersLeaveR4Range(ls, i), missIsReject)
         IN  cascade(RuntimeParents(ls, i).parents)

\* The code of one header after its dispatch: bounds, predicates, the entry
\* and write-back stores, the advance over the whole header.
EmitHeader(p, s, i, m, l) ==
    LET sp == Vocab[l.p]
        check == HeaderCheck(p, l, s.r4)
    IN  IF check # "ok" THEN Stop(s, check)
        ELSE LET end == HeaderEnd(p, l.p, s.r4) IN
             [s EXCEPT !.r4 = end[1],
                       !.ent = IF sp.var THEN s.r4 ELSE @,
                       !.slot[i] = IF l.slot THEN s.r4 ELSE @,
                       !.wb[<<i, m>>] = IF sp.wb # -1 THEN end[2] ELSE @,
                       !.joined = FALSE]

\* A dispatch that must hit.
DispatchOrReject(s, d) ==
    CASE d = "hit" -> s [] d = "miss" -> Stop(s, "rej") [] OTHER -> Stop(s, d)

\* The header after its dispatch.
HeaderNext(p, t, i, j, l) == IF Running(t) THEN EmitHeader(p, t, i, j, l) ELSE t

\* genStaticLayer / genParserMachine: dispatch unless control came in at the
\* join, then the header.
GenOneLayer(p, s, ls, i, l) ==
    HeaderNext(p, IF i = 1 \/ s.joined THEN s
                  ELSE DispatchOrReject(s, GenParentDispatch(p, s, ls, i, l, TRUE)), i, 0, l)

\* A skipped optional layer: the next layer is dispatched from the layer
\* before, and joined past its own dispatch, where that edge applies.
WithAbsentEdge(p, s, ls, i) ==
    IF ~AbsentEdgeApplies(ls, i) THEN s
    ELSE LET next == ls[i + 1] IN
         IF s.r4 + Vocab[next.p].hs > Len(p) THEN Stop(s, "short")
         ELSE LET d == DispatchVia(p, s, ls, next.p, i - 1,
                                   PrecedingLayersLeaveR4Range(ls, i + 1), TRUE)
              IN  [DispatchOrReject(s, d) EXCEPT !.joined = TRUE]

\* emitLayerEntrySentinel
EntrySentinel(s, i, l) ==
    IF l.slot /\ Absentable(l) THEN [s EXCEPT !.slot[i] = Absent] ELSE s

\* A fault: the bound ends a chain whatever its last header says.
ChainEndNotRequired(p, s, proto) == s

\* chainEndRequire: at the bound the last header must carry the end signal.
ChainEndRequire(p, s, proto) ==
    IF Running(s) /\ Vocab[proto].end # "" /\ ~ChainEndSeen(p, s.r4, proto)
    THEN Stop(s, "rej") ELSE s

\* Iterations n+1 .. hi of an unrolled chain, n headers done: a self dispatch
\* that may end the chain once the minimum is reached, then the header.
RECURSIVE GenUnrolled(_, _, _, _, _)
GenUnrolled(p, s, ls, i, n) ==
    LET l == ls[i]
        lo == Bounds(l)[1]
        c == SelectDispatchConst(l.p, l.p)
        range == PrecedingLayersLeaveR4Range(ls, i)
        machine == Shape(l) = "machine"
        after(d) == IF d = "miss" /\ n >= lo THEN s
                    ELSE GenUnrolled(p, HeaderNext(p, DispatchOrReject(s, d), i, 0, l), ls, i, n + 1)
    IN  CASE ~Running(s)          -> s
          [] Running(s) /\ n = ChainMaxIter(l) -> ChainEndRequire(p, s, l.p)
          [] OTHER -> after(GenDispatch(p, s, l.p, l.p, <<i, 0>>, c.type, c, range \/ machine,
                                        range \/ (machine /\ n >= 2), n < lo))

\* The callback of genBpfLoopCallback, run up to k more times.
RECURSIVE LoopCallback(_, _, _, _, _)
LoopCallback(p, s, i, l, k) ==
    LET c == SelectDispatchConst(l.p, l.p)
        at == s.r4 - Vocab[l.p].hs + c.off
        peek == IF c.type = "field" THEN LoadAndMatch(p, at, c, TRUE) ELSE "hit"
        next(t) == IF ~Running(t) \/ ChainEndSeen(p, t.r4, l.p) THEN t
                   ELSE LoopCallback(p, t, i, l, k - 1)
    IN  IF k = 0 \/ peek = "miss" THEN s ELSE next(EmitHeader(p, s, i, 0, l))

\* genBpfLoopChain past its first header: the end signal of that header, the
\* context stores, the loop, the floor on the distance covered.
GenBpfLoop(p, s, ls, i) ==
    LET l == ls[i]
        lo == Bounds(l)[1]
        floor(t) == IF Running(t) /\ t.r4 - s.r4 < (lo - 1) * Vocab[l.p].hs THEN Stop(t, "rej")
                    ELSE ChainEndRequire(p, t, l.p)
    IN  CASE ~Running(s) -> s
          [] Running(s) /\ ChainEndSeen(p, s.r4, l.p) -> IF lo > 1 THEN Stop(s, "rej") ELSE s
          [] OTHER -> floor(LoopCallback(p, [s EXCEPT !.ent = s.r4], i, l, ChainMaxIter(l) - 1))

\* The headers of a quantified layer past its first.
GenRest(p, s, ls, i) ==
    IF Shape(ls[i]) = "loop" THEN GenBpfLoop(p, s, ls, i) ELSE GenUnrolled(p, s, ls, i, 1)

\* A layer that may be absent, d what its first dispatch found.
AfterDispatch(p, s, ls, i, d) ==
    CASE d = "miss" -> WithAbsentEdge(p, s, ls, i)
      [] d = "hit"  -> GenRest(p, EmitHeader(p, s, i, 0, ls[i]), ls, i)
      [] OTHER      -> Stop(s, d)

\* A quantified layer: genStaticChain, genOptionalMachineLayer,
\* genStaticMachineChain, genBpfLoopChain.
ChainFrom(p, s, ls, i) ==
    IF Absentable(ls[i]) THEN AfterDispatch(p, s, ls, i, GenParentDispatch(p, s, ls, i, ls[i], FALSE))
    ELSE GenRest(p, GenOneLayer(p, s, ls, i, ls[i]), ls, i)

GenChain(p, s, ls, i) == ChainFrom(p, EntrySentinel(s, i, ls[i]), ls, i)

\* genAlternation: a guard per member, the last one rejecting; the member
\* that matched is recorded when its slot is planned.
RECURSIVE GenAlternation(_, _, _, _, _, _)
GenAlternation(p, s, ls, i, read, j) ==
    LET m == ls[i].alt[j]
        last == j = Len(ls[i].alt)
        record(u) == IF Running(u) /\ MatchedSlotPlanned(ls, i, read) THEN [u EXCEPT !.mat[i] = j] ELSE u
        after(d) == IF d = "miss" /\ ~last THEN GenAlternation(p, s, ls, i, read, j + 1)
                    ELSE record(HeaderNext(p, DispatchOrReject(s, d), i, j, m))
    IN  after(GenParentDispatch(p, s, ls, i, m, last))

GenLayer(p, s, ls, i, read) ==
    CASE IsAlt(ls[i])     -> GenAlternation(p, s, ls, i, read, 1)
      [] ls[i].q = "one"  -> GenOneLayer(p, s, ls, i, ls[i])
      [] OTHER            -> GenChain(p, s, ls, i)

RECURSIVE GenLayers(_, _, _, _, _)
GenLayers(p, s, ls, i, read) ==
    IF i > Len(ls) \/ ~Running(s) THEN s
    ELSE GenLayers(p, GenLayer(p, s, ls, i, read), ls, i + 1, read)

\* The where atom `layer.word == w`: absent-layer guard, anchor, load.
GenWhere(p, s, ls, read) ==
    IF read = <<>> THEN "accept"
    ELSE IF \A i \in Positions(ls) : ls[i].id # read[1] THEN "rej"   \* foldDroppedLayerAtoms
    ELSE LET i == CHOOSE n \in Positions(ls) : ls[n].id = read[1]
             l == IF read[2] = 0 THEN ls[i] ELSE ls[i].alt[read[2]]
             at == IF l.slot THEN s.slot[i] ELSE PrefixHeaderSize(ls, i)
         IN  CASE read[2] # 0 /\ s.mat[i] = Undef          -> "undef"
               [] read[2] # 0 /\ s.mat[i] # read[2]        -> "rej"
               [] Absentable(ls[i]) /\ s.slot[i] = Undef   -> "undef"
               [] Absentable(ls[i]) /\ s.slot[i] = Absent  -> "rej"
               [] at = Undef                               -> "undef"
               [] ~InPacket(p, at)                         -> "rej"
               [] OTHER -> IF Word(p, at) = read[3] THEN "accept" ELSE "rej"

RunProgram(p, ls, read) ==
    LET s0 == [r4 |-> 0, ent |-> Undef, v |-> "run", joined |-> FALSE,
               slot |-> [i \in Positions(ls) |-> Undef],
               mat |-> [i \in Positions(ls) |-> Undef],
               wb |-> [k \in Positions(ls) \X (0..AltCountCap) |-> "undef"]]
        verdict(s) == IF Running(s) THEN GenWhere(p, s, ls, read) ELSE s.v
    IN  verdict(GenLayers(p, s0, ls, 1, read))

----------------------------------------------------------------------------
(* Resolving and generating, end to end *)

\* The generator's internal errors: facts it relies on the resolver for.
ResolverBug(ls, read) ==
    \/ ~ReadAddressable(ls, read)
    \/ \E i \in 2..Len(ls) :
         LET ps == RuntimeParents(ls, i).parents
             members == IF IsAlt(ls[i]) THEN ToSet(ls[i].alt) ELSE {ls[i]}
             viaOk(j) == SelectDispatch(ls[i].p, ls[j].p).type # "err"
         IN  \/ \E m \in members :
                  m.disp.div /\ ~( /\ IsAlt(ls[i - 1])
                                   /\ MatchedSlotPlanned(ls, i - 1, read)
                                   /\ Len(m.disp.alts) = Len(ls[i - 1].alt) )
             \/ NeedsParentCascade(ls, i) /\ \E k \in Positions(ps) :
                  ~viaOk(ps[k]) \/ (k < Len(ps) /\ ~ls[ps[k]].slot)
             \/ i > 2 /\ AbsentEdgeApplies(ls, i - 1) /\ ~viaOk(i - 2)
             \/ IsMachineChain(ls[i]) /\ SelectDispatchConst(ls[i].p, ls[i].p).type = "nil"

\* Compile: the status says how far the chain got.
Compile(ch) ==
    LET as(stage, layers) == [status |-> stage, layers |-> layers]
        generated(ls) ==
            IF \E i \in Positions(ls) : ~LayerSupported(ls, i) THEN as("refused", <<>>)
            ELSE as(IF ResolverBug(ls, ch.read) THEN "bug" ELSE "ok", ls)
        marked(kept) == MarkCascadeParents(MarkRuntimeOffsetLayers(kept, ch.read))
        resolved(all) ==
            LET fails(how) == {k \in Positions(all) : DispatchFails(all[k], how)}
                crashes == \E k \in fails("crash") : \A e \in fails("err") : k < e
            IN  CASE crashes -> as("crash", <<>>)
                  [] ~crashes /\ \/ fails("err") # {}
                                 \/ ~CheckChainShape(all)
                                 \/ ~CheckRuntimeParents(all)
                                 \/ RedispatchFails(all, DropEmptyLayers(all)) -> as("resolve", <<>>)
                  [] OTHER -> generated(marked(DropEmptyLayers(all)))
    IN  resolved(ResolveLayers(ch.layers))

----------------------------------------------------------------------------
(* The reference semantics: the headers really extracted decide *)

RefEnded(p, st, child) ==
    /\ st.last.p = child /\ Vocab[child].end # ""
    /\ Word(p, st.last.off) = Vocab[child].end

RefDispatch(p, st, child) ==
    LET by(c) ==
            LET v == IF c.off = Vocab[st.last.p].wb THEN st.last.wb ELSE Word(p, st.last.off + c.off)
            IN  CASE c.type = "nocheck" -> "hit"
                  [] c.type = "field"   -> IF v \in c.vals THEN "hit" ELSE "miss"
                  [] OTHER -> CASE Vocab[child].req = {} -> "illtyped"
                                [] InPacket(p, st.cur) /\ Word(p, st.cur) \notin Vocab[child].req -> "miss"
                                [] OTHER -> "hit"
    IN  IF st.last.p = "" THEN "hit"
        ELSE IF RefEnded(p, st, child) THEN "miss"
        ELSE by(SelectDispatchConst(child, st.last.p))

\* One header: dispatch, bounds, self-validation, length, predicates.  The
\* last instance of every layer is kept for the where atom.
RefExtract(p, st, l, id, m) ==
    LET header(check, end) ==
            IF check # "ok" THEN [st EXCEPT !.v = check]
            ELSE [v |-> "run", cur |-> end[1],
                  last |-> [p |-> l.p, off |-> st.cur, wb |-> end[2]],
                  insts |-> Append(st.insts, [id |-> id, m |-> m, off |-> st.cur])]
        after(d) == IF d # "hit" THEN [st EXCEPT !.v = d]
                    ELSE header(HeaderCheck(p, l, st.cur), HeaderEnd(p, l.p, st.cur))
    IN  after(RefDispatch(p, st, l.p))

\* Greedy, no backtracking: only a miss ends the iteration, and reaching the
\* bound requires the end signal.
RECURSIVE RefIterate(_, _, _, _, _)
RefIterate(p, st, l, k, fuel) ==
    LET ended == Vocab[l.p].end = "" \/ RefEnded(p, st, l.p)
        after(next) ==
            CASE next.v = "run"  -> RefIterate(p, next, l, k + 1, fuel - 1)
              [] next.v = "miss" -> IF k < Bounds(l)[1] THEN [next EXCEPT !.v = "rej"] ELSE st
              [] OTHER           -> next
    IN  IF fuel > 0 THEN after(RefExtract(p, st, l, l.id, 0))
        ELSE IF k < Bounds(l)[1] THEN [st EXCEPT !.v = "illtyped"]
        ELSE IF k > 0 /\ ~ended THEN [st EXCEPT !.v = "rej"] ELSE st

\* The first alternative whose dispatch matches is committed.
RECURSIVE RefAlternation(_, _, _, _)
RefAlternation(p, st, l, j) ==
    IF j > Len(l.alt) THEN [st EXCEPT !.v = "rej"]
    ELSE CASE SelectDispatchConst(l.alt[j].p, st.last.p).type # "field" -> [st EXCEPT !.v = "illtyped"]
           [] RefDispatch(p, st, l.alt[j].p) = "miss" -> RefAlternation(p, st, l, j + 1)
           [] OTHER -> RefExtract(p, st, l.alt[j], l.id, j)

RefLayer(p, st, l) ==
    IF IsAlt(l) THEN RefAlternation(p, st, l, 1)
    ELSE IF l.q = "one"
         THEN LET must(n) == IF n.v = "miss" THEN [n EXCEPT !.v = "rej"] ELSE n
              IN  must(RefExtract(p, st, l, l.id, 0))
         ELSE RefIterate(p, st, l, 0, ChainMaxIter(l))

\* The header instances the chain extracts, and its verdict.
RefRun(p, ch) ==
    LET ls == [k \in Positions(ch.layers) |->
                 [ch.layers[k] EXCEPT !.id = k, !.alt = FlattenAltMembers(@)]]
        st0 == [v |-> "run", cur |-> 0, last |-> [p |-> "", off |-> 0, wb |-> ""], insts |-> <<>>]
        reads(x) == <<x.id, x.m>> = SubSeq(ch.read, 1, 2)
        atom(insts) == \/ ch.read = <<>>
                       \/ insts # <<>> /\ Word(p, Last(insts).off) = ch.read[3]
        verdict(st) == [insts |-> st.insts,
                        v |-> IF st.v # "run" THEN st.v
                              ELSE IF atom(SelectSeq(st.insts, reads)) THEN "accept" ELSE "rej"]
    IN  verdict(FoldLeft(LAMBDA s, l : IF s.v = "run" THEN RefLayer(p, s, l) ELSE s, st0, ls))

----------------------------------------------------------------------------
(* A packet grows while a verdict still depends on what comes next *)

\* What Compile makes of every chain.
Programs == [c \in Positions(Chains) |-> Compile(Chains[c])]

NoVerdict == [v |-> "none", insts |-> <<>>]

\* What the program and the reference say of the packet as it now is.
Verdicts(prog) ==
    IF status' = "ok"
    THEN /\ code' = RunProgram(chainPkt', prog.layers, Chains[chain].read)
         /\ ref' = RefRun(chainPkt', Chains[chain])
    ELSE code' = "none" /\ ref' = NoVerdict

ChainInit == /\ chain \in Positions(Chains)
             /\ status = "source" /\ chainPkt = <<>>
             /\ code = "none" /\ ref = NoVerdict

CompileChain(prog) == /\ status = "source"
                      /\ status' = prog.status
                      /\ UNCHANGED <<chain, chainPkt>>

Arrive(w) == /\ status = "ok" /\ Len(chainPkt) < MaxLen
             /\ "short" \in {code, ref.v}
             /\ chainPkt' = Append(chainPkt, w)
             /\ UNCHANGED <<chain, status>>

ChainNext ==
    \E prog \in {Programs[chain]} :
        /\ CompileChain(prog) \/ \E w \in Chains[chain].words : Arrive(w)
        /\ Verdicts(prog)

ChainSpec == ChainInit /\ [][ChainNext]_chainVars

----------------------------------------------------------------------------
(* Properties *)

\* No path of the generated program reads a stack slot it did not store, or
\* packet bytes it did not check: what the kernel verifier demands of it.
ProgramLoads == code \notin {"oob", "undef"}

\* The generated program accepts a packet exactly when the chain, read by
\* the semantics of the language, matches it.
FilterMeansChain == (code = "accept") <=> (ref.v = "accept")

\* What the resolver lets through, the generator has a lowering for: its
\* internal errors never fire, and no header meets a parent without an edge.
ResolverCoversCodegen == status # "bug" /\ ref.v # "illtyped"

Instances(id, m) == Len(SelectSeq(ref.insts, LAMBDA x : x.id = id /\ x.m = m))

\* addUnreachableChainWarning and addShadowedAlternativeWarning tell the
\* truth: the layer after a greedy quantifier of its own protocol matches
\* nothing, or only past the depth an open bound stands for, and a shadowed
\* member is never the one that matches.
WarningsAreTrue ==
    (status = "ok" /\ ref.v = "accept") =>
    \A ls \in {Programs[chain].layers} : \A i \in Positions(ls) :
        /\ UnreachableChainAt(ls, i) =>
              \/ Instances(ls[i + 1].id, 0) = 0
              \/ Vocab[ls[i].p].end = "" /\ Instances(ls[i].id, 0) = Vocab[ls[i].p].depth
        /\ \A j \in Positions(ls[i].alt) :
              ShadowedAlternativeAt(ls, i, j) => Instances(ls[i].id, j) = 0

\* The resolver answers every chain that parses, with layers or an error.
ResolverAnswers == status # "crash"

\* Known differences (MCClaims exhibits each). Members of a group that name the next
\* protocol in fields of one name, at different places, are taken to agree, and the field
\* is read through the first; a quantified group inside a group that a layer follows is
\* looked up as if it were a protocol.
ReadThroughFirst ==
    \E l \in ToSet(Programs[chain].layers) : \E m \in {l} \cup ToSet(l.alt) :
        ~m.disp.div /\ \E c \in ToSet(m.disp.alts) : c.off # m.disp.c.off
QuantifiedMember ==
    \E l \in ToSet(Front(Chains[chain].layers)) : \E m \in ToSet(l.alt) : IsAlt(m) /\ m.q # "one"

\* A chain the compiler accepts is compiled to a program that loads and means the chain,
\* and what the compiler warns of is so (resolver and codegen of pkg/kunai), but for the
\* two differences above.
ChainSound ==
    /\ ResolverCoversCodegen /\ WarningsAreTrue
    /\ (ProgramLoads /\ FilterMeansChain) \/ ReadThroughFirst
    /\ ResolverAnswers \/ QuantifiedMember
=============================================================================
