------------------------------ MODULE SiteArgs ------------------------------
(***************************************************************************)
(* What a map call is given (readOnlyPointers, pkg/inject/readonly.go, and *)
(* the scan of discoverMapCalls, pkg/inject/lookup.go).                    *)
(*                                                                         *)
(* A hook is typed by the map in R1 and takes its key as ordinary memory   *)
(* unless the key may point into a read-only map value.  Both are read off *)
(* the entry function: the map and the frame pointers in straight line,    *)
(* the read-only pointers by a worklist over abstract states.  The         *)
(* function then runs, and the claims are compared with the registers.     *)
(*                                                                         *)
(* The entry function may call subprograms; what they return or store is   *)
(* any value they can reach from their arguments, from the maps they name  *)
(* and through lookups and calls they make.  A devmap that one subprogram  *)
(* names and another one looks up is outside the rule readonly.go states,  *)
(* and outside this model.                                                 *)
(***************************************************************************)
EXTENDS Integers, Sequences, FiniteSets, SequencesExt, TLC

CONSTANTS
    SitePrograms,       \* entry functions, sequences of instructions
    Subprograms,    \* tuples of subprograms: [loads, looks, calls]
    SiteMaxLoops        \* backward jumps on one path

SiteRFP == 10
SiteRegs == {0, 1, 2, 6, SiteRFP}
SiteCallArgs == {1, 2}
SiteScratch == {0, 1, 2}
SiteSlots == {-8, -16}
ROMaps == {"ro", "innerRO"}
DevMaps == {"dev"}

VARIABLES
    siteCode, subs,
    sitePhase,          \* "analyze" or "run"
    before, siteWork,   \* the abstract state before each instruction, the worklist
    sitePc, siteRegs, siteSlots, siteLoops

siteVars == <<siteCode, subs, sitePhase, before, siteWork, sitePc, siteRegs, siteSlots, siteLoops>>

-----------------------------------------------------------------------------
(* Abstract pointers.                                                       *)

Nothing == [readOnly |-> FALSE, roMap |-> FALSE, innerROMap |-> FALSE,
            devMap |-> FALSE, stack |-> "not", off |-> 0]
StackAt(o) == [Nothing EXCEPT !.stack = "known", !.off = o]

joinPointer(a, b) ==
    LET same == a.stack = b.stack /\ a.off = b.off
    IN  [readOnly   |-> a.readOnly \/ b.readOnly,
         roMap      |-> a.roMap \/ b.roMap,
         innerROMap |-> a.innerROMap \/ b.innerROMap,
         devMap     |-> a.devMap \/ b.devMap,
         stack      |-> IF same THEN a.stack ELSE "unknown",
         off        |-> IF same THEN a.off ELSE 0]

joinTracked(a, b) ==
    IF a = Nothing THEN b ELSE IF b = Nothing THEN a ELSE joinPointer(a, b)

joinReg(a, b) == joinPointer(a, b)

\* Slots with nothing tracked in them hold Nothing.
siteJoin(s, o) ==
    [regs    |-> [r \in SiteRegs |-> joinReg(s.regs[r], o.regs[r])],
     slots   |-> [k \in SiteSlots |-> joinTracked(s.slots[k], o.slots[k])],
     anySlot |-> joinTracked(s.anySlot, o.anySlot)]

mapPointer(m) ==
    [Nothing EXCEPT !.devMap = m \in DevMaps, !.roMap = m \in ROMaps,
                    !.innerROMap = m = "outer"]

-----------------------------------------------------------------------------
(* What the whole program refers to, scanned once.                          *)

LoadedHere == {siteCode[i].map : i \in {i \in DOMAIN siteCode : siteCode[i].op \in {"ldmap", "ldval"}}}
LoadedBelow == UNION {subs[i].loads : i \in DOMAIN subs}
Marks(m) == m \in ROMaps \/ m = "outer"

roMaps == \E m \in LoadedHere \union LoadedBelow : Marks(m)
devMaps == (LoadedHere \union LoadedBelow) \cap DevMaps # {}
subprogDevMap == LoadedBelow \cap DevMaps # {}
devUse(f) == f.looks \/ f.calls # 0
subprogReadOnly ==
    \/ \E m \in LoadedBelow : Marks(m)
    \/ \E i \in DOMAIN subs : subs[i].loads \cap DevMaps # {} /\ devUse(subs[i])

-----------------------------------------------------------------------------
(* readOnlyStep.                                                            *)

Held(s) == {s.slots[k] : k \in SiteSlots} \union {s.anySlot}

JoinAll(p, ps) == FoldLeft(joinTracked, p, SetToSeq(ps))

load(s, base, ins) ==
    IF ins.size # 8 THEN Nothing
    ELSE IF base.stack = "known"
    THEN joinTracked(s.anySlot, IF base.off + ins.off \in SiteSlots
                                THEN s.slots[base.off + ins.off] ELSE Nothing)
    ELSE IF base.stack = "unknown" THEN JoinAll(Nothing, Held(s))
    ELSE Nothing

Overlaps(k, off, size) == off < k + 8 /\ k < off + size

siteStore(s, base, ins, value) ==
    LET p   == IF ins.size = 8 THEN value ELSE Nothing
        off == base.off + ins.off
    IN  IF base.stack = "known"
        THEN [s EXCEPT !.slots = [k \in SiteSlots |->
                IF k = off THEN p
                ELSE IF Overlaps(k, off, ins.size) THEN Nothing ELSE @[k]]]
        ELSE IF base.stack = "unknown" THEN [s EXCEPT !.anySlot = joinTracked(@, p)]
        ELSE s

Reaches(p) == p.roMap \/ p.innerROMap \/ p.devMap

\* What a subprogram may return, or store through a stack argument.
subprogResult(s) ==
    LET args     == {s.regs[r] : r \in SiteCallArgs}
        stackArg == \E p \in args : p.stack # "not"
        seen     == args \union (IF stackArg THEN Held(s) ELSE {})
        own      == [Nothing EXCEPT !.readOnly = subprogReadOnly, !.roMap = subprogReadOnly,
                        !.innerROMap = subprogReadOnly, !.devMap = subprogDevMap]
        all      == JoinAll(own, seen)
    IN  [ret   |-> [all EXCEPT !.readOnly = @ \/ \E p \in seen : Reaches(p)],
         stack |-> stackArg]

subprogCall(s) ==
    LET r == subprogResult(s)
    IN  [state |-> IF r.stack THEN [s EXCEPT !.anySlot = joinTracked(@, r.ret)] ELSE s,
         ret   |-> r.ret]

Clobber(s, ret) ==
    [s EXCEPT !.regs = [r \in SiteRegs |->
        IF r = 0 THEN ret ELSE IF r \in SiteScratch THEN Nothing ELSE @[r]]]

Looks(ins) == ins.op = "call" /\ ins.map = "lookup"

stepCall(s, ins) ==
    LET after == IF ins.map \in {"kfunc", "loop"} THEN subprogCall(s).state ELSE s
        r1    == s.regs[1]
    IN  IF ins.map = "sub" THEN Clobber(subprogCall(s).state, subprogCall(s).ret)
        ELSE Clobber(after, [Nothing EXCEPT
                !.readOnly = \/ ins.map = "kfunc" /\ roMaps
                             \/ Looks(ins) /\ (r1.roMap \/ r1.devMap),
                !.roMap = Looks(ins) /\ r1.innerROMap])

siteStepAdd(s, ins) ==
    LET p   == [s.regs[ins.dst] EXCEPT !.roMap = FALSE, !.devMap = FALSE]
        src == s.regs[ins.src]
        q   == IF ins.op = "addreg"
               THEN [p EXCEPT !.readOnly = @ \/ src.readOnly,
                              !.stack = IF @ = "not" /\ src.stack # "not"
                                        THEN "unknown" ELSE @]
               ELSE p
    IN  IF q.stack # "known" THEN q
        ELSE IF ins.op = "add" THEN [q EXCEPT !.off = @ + ins.imm]
        ELSE [q EXCEPT !.stack = "unknown", !.off = 0]

siteStepAtomic(s, ins) ==
    LET base == s.regs[ins.dst]
        old  == load(s, base, ins)
        held == IF base.stack = "known" THEN siteStore(s, base, ins, Nothing) ELSE s
    IN  [held EXCEPT !.regs[ins.src] = old]

readOnlyStep(s, ins) ==
    LET set(p) == [s EXCEPT !.regs[ins.dst] = p]
        out ==
          CASE ins.op = "call" -> stepCall(s, ins)
            [] ins.op = "ldabs" -> Clobber(s, Nothing)
            [] ins.op = "ldmap" -> set(mapPointer(ins.map))
            [] ins.op = "ldval" -> set([Nothing EXCEPT !.readOnly =
                                          ins.map \in ROMaps \union DevMaps])
            [] ins.op = "mov" -> set(s.regs[ins.src])
            [] ins.op \in {"add", "addreg"} -> set(siteStepAdd(s, ins))
            [] ins.op = "alu" -> set(Nothing)
            [] ins.op = "ldx" -> set(load(s, s.regs[ins.src], ins))
            [] ins.op = "stx" -> siteStore(s, s.regs[ins.dst], ins, s.regs[ins.src])
            [] ins.op = "fetch" -> siteStepAtomic(s, ins)
            [] OTHER -> s
    IN  [out EXCEPT !.regs[SiteRFP] = StackAt(0)]

Targets(i) ==
    LET ins == siteCode[i]
    IN  IF ins.op = "exit" THEN {}
        ELSE IF ins.op = "jcc" THEN {i + 1, i + 1 + ins.off}
        ELSE {i + 1}

Merged(i, s) == IF i \in DOMAIN before THEN siteJoin(before[i], s) ELSE s
Grew(i, s) == i \notin DOMAIN before \/ Merged(i, s) # before[i]

readOnlyPointers ==
    /\ sitePhase = "analyze" /\ siteWork # <<>>
    /\ LET i     == Last(siteWork)
           after == readOnlyStep(before[i], siteCode[i])
           next  == Targets(i) \cap DOMAIN siteCode
       IN  /\ before' = [k \in next |-> Merged(k, after)] @@ before
           /\ siteWork' = Front(siteWork) \o SetToSeq({k \in next : Grew(k, after)})
    /\ UNCHANGED <<siteCode, subs, sitePhase, sitePc, siteRegs, siteSlots, siteLoops>>

\* Without a read-only map or a devmap nothing is marked.
Analyzed ==
    /\ sitePhase = "analyze" /\ siteWork = <<>>
    /\ sitePhase' = "run"
    /\ UNCHANGED <<siteCode, subs, before, siteWork, sitePc, siteRegs, siteSlots, siteLoops>>

-----------------------------------------------------------------------------
(* discoverMapCalls: the map in R1 and the registers that hold R10 plus a   *)
(* constant, followed within a basic block.                                 *)

Jumps == {"jcc", "call", "exit"}
BlockStarts ==
    {1} \union {i + 1 : i \in {i \in DOMAIN siteCode : siteCode[i].op \in Jumps}}
        \union UNION {Targets(i) : i \in {i \in DOMAIN siteCode : siteCode[i].op = "jcc"}}

NoTrack == [map |-> "", own |-> {}]
SiteWrites(ins) == ins.op \in {"mov", "add", "addreg", "alu", "ldx", "ldmap", "ldval"}

trackMap(s, ins) ==
    IF ins.op = "ldmap" /\ ins.dst = 1 THEN ins.map
    ELSE IF ins.op \in Jumps \union {"ldabs", "fetch"} \/ (SiteWrites(ins) /\ ins.dst = 1)
    THEN "" ELSE s.map

trackOwn(s, ins) ==
    IF ins.op \in Jumps \union {"ldabs"} THEN {}
    ELSE IF ins.op = "fetch" THEN s.own \ {0, ins.src, ins.dst}
    ELSE IF ins.op = "mov" /\ ins.src = SiteRFP THEN s.own \union {ins.dst}
    ELSE IF SiteWrites(ins) /\ ins.op # "add" THEN s.own \ {ins.dst}
    ELSE s.own

\* Mutant: only the first instruction starts a block.
ScanNoBlocks(i) ==
    LET at[k \in 1..i] ==
          IF k = 1 THEN NoTrack
          ELSE [map |-> trackMap(at[k - 1], siteCode[k - 1]), own |-> trackOwn(at[k - 1], siteCode[k - 1])]
    IN  at[i]

SiteScan(i) ==
    LET at[k \in 1..i] ==
          IF k \in BlockStarts THEN NoTrack
          ELSE [map |-> trackMap(at[k - 1], siteCode[k - 1]), own |-> trackOwn(at[k - 1], siteCode[k - 1])]
    IN  at[i]

-----------------------------------------------------------------------------
(* Running the entry function.                                              *)

SiteNum == [t |-> "num", m |-> "", off |-> 0]
MapOf(m) == [SiteNum EXCEPT !.t = "map", !.m = m]
ValueOf(m) == [SiteNum EXCEPT !.t = "val", !.m = m]
FrameAt(o) == [SiteNum EXCEPT !.t = "fp", !.off = o]
IsPtr(v) == v.t # "num"

Found(m) == IF m = "outer" THEN MapOf("innerRO") ELSE ValueOf(m)
Looked(S) ==
    LET once(X) == X \union {Found(v.m) : v \in {v \in X : v.t = "map"}}
    IN  once(once(S))

\* The verifier lets no callee return or store a pointer into its caller's frame.
Obtained(f, S) ==
    LET own == S \union {MapOf(m) : m \in f.loads}
                 \union {ValueOf(m) : m \in f.loads \cap ROMaps}
    IN  IF f.looks THEN Looked(own) ELSE own
Obtainable(S) ==
    LET plain == {v \in S : v.t # "fp"} \union {SiteNum}
        f     == subs[1]
        mine  == Obtained(f, plain)
    IN  IF f.calls = 0 THEN mine ELSE Obtained(f, Obtained(subs[f.calls], mine))

Given == {siteRegs[r] : r \in SiteCallArgs}
LentFrame == \E v \in Given : v.t = "fp"
SubSees == Given \union (IF LentFrame THEN {siteSlots[k] : k \in SiteSlots} ELSE {})

SiteGoto(i) ==
    /\ sitePc' = i
    /\ siteLoops' = IF i <= sitePc THEN siteLoops + 1 ELSE siteLoops
    /\ siteLoops' <= SiteMaxLoops

Set(r, v) == siteRegs' = [siteRegs EXCEPT ![r] = v] /\ UNCHANGED siteSlots
AfterCall(v) == siteRegs' = [r \in SiteRegs |-> IF r = 0 THEN v ELSE IF r \in SiteScratch THEN SiteNum ELSE siteRegs[r]]

RunMove ==
    /\ LET ins == siteCode[sitePc]
       IN  \/ ins.op = "ldmap" /\ Set(ins.dst, MapOf(ins.map))
           \/ ins.op = "ldval" /\ Set(ins.dst, ValueOf(ins.map))
           \/ ins.op = "mov" /\ Set(ins.dst, siteRegs[ins.src])
           \/ ins.op = "alu" /\ Set(ins.dst, SiteNum)
    /\ SiteGoto(sitePc + 1)

RunAdd ==
    /\ LET ins == siteCode[sitePc]
           d   == siteRegs[ins.dst]
           s   == siteRegs[ins.src]
       IN  \/ ins.op = "add" /\ d.t # "map"
              /\ Set(ins.dst, IF d.t = "fp" THEN FrameAt(d.off + ins.imm) ELSE d)
           \/ ins.op = "addreg" /\ ~(IsPtr(d) /\ IsPtr(s)) /\ "map" \notin {d.t, s.t}
              /\ LET p == IF IsPtr(d) THEN d ELSE s
                 IN  \E o \in SiteSlots \union {0} :
                        Set(ins.dst, IF p.t = "fp" THEN FrameAt(o) ELSE p)
    /\ SiteGoto(sitePc + 1)

RunMemory ==
    /\ LET ins  == siteCode[sitePc]
           base == siteRegs[IF ins.op = "ldx" THEN ins.src ELSE ins.dst]
           at   == base.off + ins.off
           here == {k \in SiteSlots : Overlaps(k, at, ins.size)}
           whole == ins.size = 8 /\ at \in SiteSlots
       IN  \/ /\ ins.op = "ldx" /\ base.t \in {"fp", "val"}
              /\ base.t = "fp" => here # {} /\ (ins.size = 8 => whole)
              /\ Set(ins.dst, IF base.t = "fp" /\ whole THEN siteSlots[at] ELSE SiteNum)
           \/ /\ ins.op = "stx" /\ (base.t = "fp" \/ base = ValueOf("rw"))
              /\ base.t = "fp" => here # {} /\ (ins.size = 8 => whole)
              /\ base.t = "val" => ~IsPtr(siteRegs[ins.src])
              /\ siteSlots' = IF base.t # "fp" THEN siteSlots
                              ELSE [k \in SiteSlots |-> IF k \notin here THEN siteSlots[k]
                                       ELSE IF whole THEN siteRegs[ins.src] ELSE SiteNum]
              /\ UNCHANGED siteRegs
           \/ /\ ins.op = "fetch" /\ base.t = "fp" /\ whole /\ ~IsPtr(siteRegs[ins.src])
              /\ siteRegs' = [siteRegs EXCEPT ![ins.src] = siteSlots[at]]
              /\ siteSlots' = [siteSlots EXCEPT ![at] = SiteNum]
    /\ SiteGoto(sitePc + 1)

SiteRunCall ==
    /\ siteCode[sitePc].op = "call"
    /\ LET fn == siteCode[sitePc].map
       IN  \/ /\ fn = "lookup" /\ siteRegs[1].t = "map"
              /\ \E v \in {SiteNum, Found(siteRegs[1].m)} : AfterCall(v)
              /\ UNCHANGED siteSlots
           \/ /\ fn \in {"sub", "loop", "kfunc"}
              /\ \E v \in Obtainable(SubSees) : AfterCall(
                    IF fn = "sub" THEN v
                    ELSE IF fn = "kfunc" /\ v = ValueOf("ro") THEN v ELSE SiteNum)
              /\ \/ UNCHANGED siteSlots
                 \/ /\ LentFrame
                    /\ \E k \in SiteSlots, v \in Obtainable(SubSees) :
                          siteSlots' = [siteSlots EXCEPT ![k] = v]
    /\ SiteGoto(sitePc + 1)

RunOther ==
    /\ \/ siteCode[sitePc].op = "ldabs" /\ AfterCall(SiteNum) /\ UNCHANGED siteSlots /\ SiteGoto(sitePc + 1)
       \/ /\ siteCode[sitePc].op = "jcc" /\ UNCHANGED <<siteRegs, siteSlots>>
          /\ \E i \in Targets(sitePc) \cap DOMAIN siteCode : SiteGoto(i)

Run ==
    /\ sitePhase = "run" /\ siteCode[sitePc].op # "exit"
    /\ RunMove \/ RunAdd \/ RunMemory \/ SiteRunCall \/ RunOther
    /\ UNCHANGED <<siteCode, subs, sitePhase, before, siteWork>>

SiteInit ==
    /\ siteCode \in SitePrograms
    /\ subs \in IF \E i \in DOMAIN siteCode : siteCode[i].map \in {"sub", "loop", "kfunc"}
               THEN Subprograms ELSE {<<>>}
    /\ sitePhase = "analyze"
    /\ before = IF roMaps \/ devMaps
                THEN 1 :> [regs |-> [r \in SiteRegs |-> IF r = SiteRFP THEN StackAt(0) ELSE Nothing],
                           slots |-> [k \in SiteSlots |-> Nothing], anySlot |-> Nothing]
                ELSE <<>>
    /\ siteWork = IF roMaps \/ devMaps THEN <<1>> ELSE <<>>
    /\ sitePc = 1 /\ siteLoops = 0
    /\ siteRegs = [r \in SiteRegs |-> IF r = SiteRFP THEN FrameAt(0) ELSE SiteNum]
    /\ siteSlots = [k \in SiteSlots |-> SiteNum]

SiteNext == readOnlyPointers \/ Analyzed \/ Run

SiteSpec == SiteInit /\ [][SiteNext]_siteVars

MapCall == sitePhase = "run" /\ siteCode[sitePc].op = "call"
ReadOnlyValue(v) == v.t = "val" /\ v.m \in ROMaps \union DevMaps

-----------------------------------------------------------------------------
(* readOnlyPointers: "which registers may point into a BPF_F_RDONLY_PROG    *)
(* map's value", so that a hook takes such a key as untrusted: a register   *)
(* that points into a read-only value at a call is marked there, however    *)
(* the pointer got there, through spills, joins, subprograms or callbacks.  *)
ReadOnlyArgsMarked ==
    MapCall => \A r \in SiteCallArgs : ReadOnlyValue(siteRegs[r]) =>
        sitePc \in DOMAIN before /\ before[sitePc].regs[r].readOnly

(* discoverMapCalls: the map it names for a call is the map R1 holds        *)
(* whenever the call runs, and a register it takes for the function's own   *)
(* stack is a frame pointer: a hook is typed by that map, and a callback's  *)
(* key is passed as the program's memory.                                   *)
TrackedArgsHold ==
    MapCall => /\ SiteScan(sitePc).map # "" => siteRegs[1] = MapOf(SiteScan(sitePc).map)
               /\ \A r \in SiteScan(sitePc).own \cap SiteRegs : siteRegs[r].t = "fp"

(* What discovery says of the arguments of a map call holds when it runs.   *)
SitesDescribed == TrackedArgsHold /\ ReadOnlyArgsMarked
=============================================================================
