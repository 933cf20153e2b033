---------------------------- MODULE SetMapProofs ----------------------------
(* Proofs about SetMap: overlapping set commands and the tick of a capture     *)
(* keep OverlapSafe, no map outgrows its capacity, and commands that do not    *)
(* overlap implement SetStore.                                                 *)
EXTENDS SetMap, FiniteSetTheorems, TLAPS

-----------------------------------------------------------------------------
(* The inductive invariant *)

Copying(p) == pc[p] \in {"copy", "copyput", "rename"}

\* The map a resize fills is nobody else's, and at the temporary name only when it was
\* pinned there by that resize.
Owns(p) ==
    Copying(p) =>
        /\ arg[p].new \in 1 .. Len(maps) /\ arg[p].new # pin
        /\ \A q \in Procs : at[q] # arg[p].new
        /\ \A q \in Cli : q # p /\ Copying(q) => arg[q].new # arg[p].new
        /\ tmp = arg[p].new <=> pc[p] = "rename"

\* What a resize has copied of a key that nobody wrote since it opened the map.
CopiedKey(p, k, old, new) ==
    /\ new \in {None, old}
    /\ pc[p] # "rename" /\ old # None => k \in it[p].base
    /\ k \in it[p].seen /\ (pc[p] = "copyput" => k # it[p].last) => new = old
    /\ pc[p] = "rename" => new = old

Copied(p) ==
    Copying(p) =>
        /\ \A k \in Keys \ dirty[p] :
              CopiedKey(p, k, maps[at[p]].ent[k], maps[arg[p].new].ent[k])
        /\ pc[p] = "copyput" =>
              /\ it[p].last \in Keys
              /\ it[p].last \notin dirty[p] => val[p] = maps[at[p]].ent[it[p].last]

\* SetState puts back an entry of the map, parked.
Parking == pc[Capture] = "parkput" => it[Capture].last \in Keys /\ val[Capture].state = Parked

\* The arguments of a command, and which steps are whose.
Command(p) ==
    /\ pc[p] \notin {"snap", "park", "parkput"}
    /\ pc[p] \in {"lookup", "put"} =>
          /\ arg[p].k \in Keys /\ arg[p].t \in Tags /\ arg[p].mb \in MaxBytes \cup {Store!Omitted}
          /\ ~(arg[p].mb > 0 /\ arg[p].t = 0)
    /\ pc[p] = "delete" => arg[p].k \in Keys
    /\ pc[p] \in {"count", "stat"} => arg[p].cap \in Capacities

Ticking == pc[Capture] \in {"idle", "snap", "park", "parkput"}

MapInv ==
    /\ TypeOK /\ Parking /\ Ticking
    /\ \A p \in Cli : Command(p) /\ Owns(p) /\ Copied(p)

-----------------------------------------------------------------------------
(* Entries, maps, walks *)

LEMMA EntryFacts ==
    /\ None \in Entry /\ None \notin Store!Entries
    /\ \A e \in Entry : e # None => e \in Store!Entries
    /\ \A e \in Entry : e # None => [e EXCEPT !.state = Parked] \in Entry
    /\ \A e \in Entry : e # None => [e EXCEPT !.state = Parked].state = Parked
    /\ \A e \in Entry : e # None => [e EXCEPT !.state = Parked] # None
    /\ None.tag # CapTag
  BY SetMapAssumption
  DEF Entry, None, Parked, Active, Store!None, Store!Entries, Store!Capped, Store!Active, Store!Finalized

LEMMA AddedEntry ==
    ASSUME NEW old \in Entry, NEW t \in Tags, NEW mb \in MaxBytes \cup {Store!Omitted}
    PROVE  Store!AddedOver(old, t, mb) \in Entry /\ Store!AddedOver(old, t, mb) # None
  BY SetMapAssumption
  DEF Entry, None, Store!None, Store!Entries, Store!Capped, Store!Active, Store!Finalized,
      Store!AddedOver, Store!Omitted

\* A put in map m.
Puts(m, k, v) == maps' = [maps EXCEPT ![m].ent[k] = v]

\* What it leaves.
Written(m, k, v) ==
    /\ maps' \in Seq(Map) /\ Len(maps') = Len(maps)
    /\ \A n \in 1 .. Len(maps) : maps'[n].cap = maps[n].cap
    /\ \A n \in 1 .. Len(maps) : n # m => maps'[n] = maps[n]
    /\ \A n \in 1 .. Len(maps) : \A j \in Keys :
          maps'[n].ent[j] = IF n = m /\ j = k THEN v ELSE maps[n].ent[j]
    /\ maps'[m].ent = [maps[m].ent EXCEPT ![k] = v]

LEMMA PutWrites ==
    ASSUME maps \in Seq(Map), NEW m \in 1 .. Len(maps), NEW k \in Keys, NEW v \in Entry, Puts(m, k, v)
    PROVE  Written(m, k, v)
<1>1. maps[m] \in Map
  OBVIOUS
<1>2. maps[m].ent \in [Keys -> Entry] /\ maps[m].cap \in Capacities
  BY <1>1 DEF Map
<1>3. [maps[m].ent EXCEPT ![k] = v] \in [Keys -> Entry]
  BY <1>2
<1> DEFINE r == [maps[m] EXCEPT !.ent = [maps[m].ent EXCEPT ![k] = v]]
<1>4. r \in Map /\ r.cap = maps[m].cap /\ r.ent = [maps[m].ent EXCEPT ![k] = v]
  BY <1>1, <1>3, Zenon DEF Map
<1>5. maps' = [maps EXCEPT ![m] = r]
  BY DEF Puts
<1> HIDE DEF r
<1>6. maps' \in Seq(Map) /\ Len(maps') = Len(maps)
  BY <1>4, <1>5
<1>7. maps'[m] = r /\ \A n \in 1 .. Len(maps) : n # m => maps'[n] = maps[n]
  BY <1>5
<1>8. \A n \in 1 .. Len(maps) : maps'[n].cap = maps[n].cap
  BY <1>4, <1>7
<1>9. ASSUME NEW n \in 1 .. Len(maps), NEW j \in Keys
      PROVE  maps'[n].ent[j] = IF n = m /\ j = k THEN v ELSE maps[n].ent[j]
  BY <1>2, <1>4, <1>7
<1> QED BY <1>4, <1>6, <1>7, <1>8, <1>9 DEF Written

LEMMA Grown ==
    ASSUME NEW M \in Seq(Map), NEW r \in Map, NEW W, W = Append(M, r)
    PROVE  /\ W \in Seq(Map) /\ Len(W) = Len(M) + 1
           /\ \A n \in 1 .. Len(M) : W[n] = M[n]
           /\ W[Len(M) + 1] = r
  OBVIOUS

\* What the type of the maps says of one entry.
LEMMA EntryAt ==
    ASSUME TypeOK, NEW m \in 1 .. Len(maps), NEW k \in Keys
    PROVE  maps[m] \in Map /\ maps[m].ent[k] \in Entry /\ maps[m].cap \in Capacities
<1>1. maps[m] \in Map
  BY DEF TypeOK
<1> QED BY <1>1 DEF Map

\* A step of a walk.
LEMMA WalkStep ==
    ASSUME TypeOK, NEW p \in Procs, NEW m, NEW k \in Keys, Visits(p, m, k)
    PROVE  /\ it' \in [Procs -> Walk]
           /\ \A q \in Procs : q # p => it'[q] = it[q]
           /\ it'[p].last = k /\ it'[p].base = it[p].base
           /\ k \in it'[p].seen /\ it'[p].seen \subseteq it[p].seen \cup {k}
<1>1. it \in [Procs -> Walk] /\ it[p] \in Walk
  BY DEF TypeOK
<1>2. CASE it' = [it EXCEPT ![p].seen = @ \cup {k}, ![p].last = k]
  BY <1>1, <1>2, Zenon DEF Walk
<1>3. CASE it' = [it EXCEPT ![p].seen = {k}, ![p].last = k]
  BY <1>1, <1>3, Zenon DEF Walk
<1> QED BY <1>2, <1>3 DEF Visits

LEMMA RestTypes ==
    NoArg \in Arg /\ Rest \in Walk /\ \A m : Started(m) \in Walk
  BY SetMapAssumption DEF NoArg, Arg, Rest, Walk, Started, Present

\* The end of a command.
LEMMA Quits ==
    ASSUME TypeOK, NEW p \in Procs, Quit(p)
    PROVE  /\ pc' \in [Procs -> Steps] /\ arg' \in [Procs -> Arg]
           /\ val' \in [Procs -> Entry] /\ it' \in [Procs -> Walk]
           /\ pc'[p] = "idle"
           /\ \A q \in Procs : q # p =>
                 pc'[q] = pc[q] /\ arg'[q] = arg[q] /\ val'[q] = val[q] /\ it'[q] = it[q]
  BY RestTypes, EntryFacts DEF Quit, Goto, TypeOK, Steps

-----------------------------------------------------------------------------
(* What a step of one process does to the others *)

\* No step of p touches what another command holds; a key it writes becomes dirty for
\* every resize, except in the map p itself fills.
StepOf(p) ==
    /\ Len(maps') \in Nat /\ Len(maps) <= Len(maps')
    /\ \A q \in Procs : q # p =>
          /\ pc'[q] = pc[q] /\ at'[q] = at[q] /\ arg'[q] = arg[q] /\ val'[q] = val[q]
          /\ it'[q].seen = it[q].seen /\ it'[q].last = it[q].last
    /\ at'[p] \in {at[p], pin}
    /\ pin' = pin \/ (pc[p] = "rename" /\ pin' = tmp)
    /\ tmp' = tmp \/ (pc[p] = "rename" /\ tmp' = 0) \/ (tmp = 0 /\ Copying(p) /\ tmp' = arg[p].new)
    /\ Copying(p)' => (Copying(p) /\ arg'[p].new = arg[p].new) \/ arg'[p].new = Len(maps) + 1
    /\ \A q \in Procs : q # p =>
          /\ dirty[q] \subseteq dirty'[q]
          /\ \A k \in Keys \ dirty'[q] :
                /\ \A m \in 1 .. Len(maps) :
                      (Copying(p) => m # arg[p].new) => maps'[m].ent[k] = maps[m].ent[k]
                /\ maps[at[q]].ent[k] # None /\ k \in it[q].base => k \in it'[q].base

LEMMA OthersKeep ==
    ASSUME MapInv, NEW p \in Procs, StepOf(p), NEW q \in Cli, q # p
    PROVE  Command(q)' /\ Owns(q)' /\ Copied(q)'
<1>0. q \in Procs /\ Capture \in Procs /\ \A r \in Procs : r = Capture \/ r \in Cli
  BY DEF Procs
<1>1. pc'[q] = pc[q] /\ at'[q] = at[q] /\ arg'[q] = arg[q] /\ val'[q] = val[q]
  BY <1>0 DEF StepOf
<1>2. it'[q].seen = it[q].seen /\ it'[q].last = it[q].last
  BY <1>0 DEF StepOf
<1>3. Command(q) /\ Owns(q) /\ Copied(q)
  BY DEF MapInv
<1>4. Copying(p) => p \in Cli /\ Owns(p)
  BY <1>0 DEF MapInv, Ticking, Copying
<1>5. Command(q)'
  BY <1>1, <1>3 DEF Command
<1>6. Owns(q)'
  <2> SUFFICES ASSUME Copying(q)' PROVE Owns(q)'
    BY DEF Owns
  <2>1. Copying(q)
    BY <1>1 DEF Copying
  <2>2. /\ arg[q].new \in 1 .. Len(maps) /\ arg[q].new # pin
        /\ \A r \in Procs : at[r] # arg[q].new
        /\ \A r \in Cli : r # q /\ Copying(r) => arg[r].new # arg[q].new
        /\ tmp = arg[q].new <=> pc[q] = "rename"
    BY <1>3, <2>1 DEF Owns
  <2>3. Len(maps) \in Nat /\ arg[q].new \in 1 .. Len(maps')
    BY <2>2 DEF StepOf, MapInv, TypeOK
  <2>4. pc[p] = "rename" => Copying(p) /\ tmp = arg[p].new
    BY <1>4 DEF Copying, Owns
  <2>5. Copying(p) => arg[p].new # arg[q].new
    BY <1>4, <2>2
  <2>6. arg[q].new # pin'
    BY <2>2, <2>4, <2>5 DEF StepOf
  <2>7. ASSUME NEW r \in Procs PROVE at'[r] # arg[q].new
    BY <2>2 DEF StepOf
  <2>8. ASSUME NEW r \in Cli, r # q, Copying(r)' PROVE arg'[r].new # arg[q].new
    <3>0. r \in Procs
      BY DEF Procs
    <3>1. CASE r = p
      BY <2>2, <2>3, <2>5, <2>8, <3>1 DEF StepOf
    <3>2. CASE r # p
      <4>1. pc'[r] = pc[r] /\ arg'[r] = arg[r]
        BY <3>0, <3>2 DEF StepOf
      <4>2. Copying(r)
        BY <2>8, <4>1 DEF Copying
      <4> QED BY <2>2, <2>8, <4>1, <4>2
    <3> QED BY <3>1, <3>2
  <2>9. tmp' = arg[q].new <=> pc[q] = "rename"
    <3>1. CASE tmp' = tmp
      BY <2>2, <3>1
    <3>2. CASE pc[p] = "rename" /\ tmp' = 0
      BY <2>2, <2>4, <2>5, <3>2
    <3>3. CASE tmp = 0 /\ Copying(p) /\ tmp' = arg[p].new
      BY <2>2, <2>5, <3>3
    <3> QED BY <3>1, <3>2, <3>3 DEF StepOf
  <2> QED BY <1>1, <2>3, <2>6, <2>7, <2>8, <2>9 DEF Owns
<1>7. Copied(q)'
  <2> SUFFICES ASSUME Copying(q)' PROVE Copied(q)'
    BY DEF Copied
  <2>1. Copying(q)
    BY <1>1 DEF Copying
  <2>2. /\ \A k \in Keys \ dirty[q] :
              CopiedKey(q, k, maps[at[q]].ent[k], maps[arg[q].new].ent[k])
        /\ pc[q] = "copyput" =>
              /\ it[q].last \in Keys
              /\ it[q].last \notin dirty[q] => val[q] = maps[at[q]].ent[it[q].last]
    BY <1>3, <2>1 DEF Copied
  <2>3. at[q] \in 1 .. Len(maps) /\ arg[q].new \in 1 .. Len(maps)
    BY <1>0, <1>3, <2>1 DEF Owns, MapInv, TypeOK
  <2>4. Copying(p) => at[q] # arg[p].new /\ arg[q].new # arg[p].new
    BY <1>0, <1>4, <2>1 DEF Owns
  <2>5. ASSUME NEW k \in Keys \ dirty'[q]
        PROVE  /\ k \notin dirty[q]
               /\ maps'[at[q]].ent[k] = maps[at[q]].ent[k]
               /\ maps'[arg[q].new].ent[k] = maps[arg[q].new].ent[k]
               /\ maps[at[q]].ent[k] # None /\ k \in it[q].base => k \in it'[q].base
    BY <1>0, <2>3, <2>4 DEF StepOf
  <2>6. ASSUME NEW k \in Keys \ dirty'[q]
        PROVE  CopiedKey(q, k, maps[at[q]].ent[k], maps[arg[q].new].ent[k])'
    <3>1. CopiedKey(q, k, maps[at[q]].ent[k], maps[arg[q].new].ent[k])
      BY <2>2, <2>5
    <3> QED BY <1>1, <1>2, <2>5, <3>1, Zenon DEF CopiedKey, None, Store!None
  <2>7. pc[q] = "copyput" /\ it[q].last \notin dirty'[q] => val[q] = maps'[at[q]].ent[it[q].last]
    BY <2>2, <2>5
  <2> QED BY <1>1, <1>2, <2>2, <2>6, <2>7 DEF Copied
<1> QED BY <1>5, <1>6, <1>7

\* What is left to show of a step of a command, and of a step of the tick.
LEMMA CommandStep ==
    ASSUME MapInv, NEW p \in Cli, StepOf(p), TypeOK', Command(p)', Owns(p)', Copied(p)'
    PROVE  MapInv'
<1>0. p \in Procs /\ Capture \in Procs /\ Capture # p
  BY SetMapAssumption DEF Procs
<1>1. \A q \in Cli : Command(q)' /\ Owns(q)' /\ Copied(q)'
  BY <1>0, OthersKeep
<1>2. /\ pc'[Capture] = pc[Capture] /\ val'[Capture] = val[Capture]
      /\ it'[Capture].last = it[Capture].last
  BY <1>0 DEF StepOf
<1>3. Parking' /\ Ticking'
  BY <1>2 DEF MapInv, Parking, Ticking, Parked, Store!Capped
<1> QED BY <1>1, <1>3 DEF MapInv

LEMMA TickStep ==
    ASSUME MapInv, StepOf(Capture), TypeOK', Parking', Ticking'
    PROVE  MapInv'
<1>0. Capture \in Procs /\ Capture \notin Cli
  BY SetMapAssumption DEF Procs
<1>1. \A q \in Cli : Command(q)' /\ Owns(q)' /\ Copied(q)'
  BY <1>0, OthersKeep
<1> QED BY <1>1 DEF MapInv

\* A process that fills no map owes nothing about one.
LEMMA NotCopying ==
    ASSUME NEW p, pc'[p] \notin {"copy", "copyput", "rename"}
    PROVE  ~Copying(p)' /\ Owns(p)' /\ Copied(p)'
  BY DEF Copying, Owns, Copied

\* A step that writes no map and moves no pin.
LEMMA StillMaps ==
    ASSUME MapInv, NEW p \in Procs, maps' = maps, pin' = pin, tmp' = tmp,
           \A q \in Procs : q # p =>
               /\ pc'[q] = pc[q] /\ at'[q] = at[q] /\ arg'[q] = arg[q] /\ val'[q] = val[q]
               /\ it'[q] = it[q] /\ dirty'[q] = dirty[q],
           at'[p] \in {at[p], pin},
           Copying(p)' => Copying(p) /\ arg'[p].new = arg[p].new
    PROVE  StepOf(p)
<1>1. Len(maps') \in Nat /\ Len(maps) <= Len(maps')
  BY DEF MapInv, TypeOK
<1>2. \A q \in Procs : q # p =>
          /\ dirty[q] \subseteq dirty'[q]
          /\ \A k \in Keys \ dirty'[q] :
                /\ \A m \in 1 .. Len(maps) :
                      (Copying(p) => m # arg[p].new) => maps'[m].ent[k] = maps[m].ent[k]
                /\ maps[at[q]].ent[k] # None /\ k \in it[q].base => k \in it'[q].base
  OBVIOUS
<1>3. \A q \in Procs : q # p => it'[q].seen = it[q].seen /\ it'[q].last = it[q].last
  OBVIOUS
<1> QED BY <1>1, <1>2, <1>3, Zenon DEF StepOf

\* A put or delete of a key in the map the process holds.
LEMMA TouchStep ==
    ASSUME MapInv, NEW p \in Procs, NEW k \in Keys, NEW v \in Entry,
           Touch(at[p], k, v), pin' = pin, tmp' = tmp, at' = at,
           \A q \in Procs : q # p =>
               /\ pc'[q] = pc[q] /\ arg'[q] = arg[q] /\ val'[q] = val[q]
               /\ it'[q].seen = it[q].seen /\ it'[q].last = it[q].last
               /\ it[q].base \ {k} \subseteq it'[q].base,
           ~Copying(p)'
    PROVE  /\ StepOf(p)
           /\ maps' \in Seq(Map) /\ Len(maps') = Len(maps)
           /\ dirty' \in [Procs -> SUBSET Keys]
<1>1. maps \in Seq(Map) /\ at[p] \in 1 .. Len(maps) /\ dirty \in [Procs -> SUBSET Keys]
  BY DEF MapInv, TypeOK
<1>2. Puts(at[p], k, v) /\ dirty' = [q \in Procs |-> dirty[q] \cup {k}]
  BY DEF Touch, Puts
<1>3. /\ maps' \in Seq(Map) /\ Len(maps') = Len(maps)
      /\ \A n \in 1 .. Len(maps) : \A j \in Keys :
            maps'[n].ent[j] = IF n = at[p] /\ j = k THEN v ELSE maps[n].ent[j]
  <2>1. Puts(at[p], k, v)
    BY <1>2
  <2>2. Written(at[p], k, v)
    BY <1>1, <2>1, PutWrites
  <2> QED BY <2>2 DEF Written
<1>4. dirty' \in [Procs -> SUBSET Keys]
  BY <1>1, <1>2
<1>5. Len(maps') \in Nat /\ Len(maps) <= Len(maps')
  BY <1>1, <1>3
<1>6. ASSUME NEW q \in Procs, q # p
      PROVE  /\ dirty[q] \subseteq dirty'[q]
             /\ \A j \in Keys \ dirty'[q] :
                   /\ \A m \in 1 .. Len(maps) : maps'[m].ent[j] = maps[m].ent[j]
                   /\ j \in it[q].base => j \in it'[q].base
  <2>1. dirty'[q] = dirty[q] \cup {k}
    BY <1>2
  <2>2. it[q].base \ {k} \subseteq it'[q].base
    BY <1>6
  <2> QED BY <1>3, <2>1, <2>2
<1>7. \A q \in Procs : q # p => at'[q] = at[q]
  OBVIOUS
<1>8. \A q \in Procs : q # p =>
          /\ dirty[q] \subseteq dirty'[q]
          /\ \A j \in Keys \ dirty'[q] :
                /\ \A m \in 1 .. Len(maps) :
                      (Copying(p) => m # arg[p].new) => maps'[m].ent[j] = maps[m].ent[j]
                /\ maps[at[q]].ent[j] # None /\ j \in it[q].base => j \in it'[q].base
  BY <1>6
<1>9. at'[p] \in {at[p], pin}
  OBVIOUS
<1>10. StepOf(p)
  BY <1>5, <1>7, <1>8, <1>9, Zenon DEF StepOf
<1> QED BY <1>3, <1>4, <1>10

-----------------------------------------------------------------------------
(* The invariant holds initially and is kept *)

LEMMA InitInv == Init => MapInv
<1> SUFFICES ASSUME Init PROVE MapInv
  OBVIOUS
<1>1. PICK e \in [Keys -> {None} \cup {x \in Store!Entries : x.state = Active}], c \in Capacities :
          maps = <<[cap |-> c, ent |-> e]>>
  BY DEF Init
<1>2. [cap |-> c, ent |-> e] \in Map
  BY DEF Map, Entry
<1>3. maps \in Seq(Map) /\ Len(maps) = 1
  BY <1>1, <1>2
<1>4. pin \in 1 .. Len(maps) /\ tmp \in 0 .. Len(maps) /\ at \in [Procs -> 1 .. Len(maps)]
  BY <1>3 DEF Init
<1>a. capped \in BOOLEAN /\ active \in BOOLEAN
  BY Zenon DEF Init
<1>b. cmds \in 0 .. MaxCmds
  BY SetMapAssumption DEF Init
<1>c. /\ pc \in [Procs -> Steps] /\ arg \in [Procs -> Arg] /\ val \in [Procs -> Entry]
      /\ it \in [Procs -> Walk] /\ dirty \in [Procs -> SUBSET Keys]
  BY RestTypes, EntryFacts DEF Init, Steps
<1>5. TypeOK
  BY <1>3, <1>4, <1>a, <1>b, <1>c, Zenon DEF TypeOK
<1>6. \A p \in Procs : pc[p] = "idle"
  BY DEF Init
<1> QED BY <1>5, <1>6 DEF MapInv, Parking, Ticking, Command, Owns, Copied, Copying, Procs


\* What a process finds at the start of each step.
LEMMA Holds ==
    ASSUME MapInv, NEW p \in Procs
    PROVE  /\ TypeOK
           /\ at[p] \in 1 .. Len(maps) /\ arg[p] \in Arg /\ val[p] \in Entry /\ it[p] \in Walk
           /\ p \in Cli => Command(p) /\ Owns(p) /\ Copied(p)
           /\ p \in Cli => p # Capture
  BY SetMapAssumption DEF MapInv, TypeOK

LEMMA OpenArgs ==
    /\ \A k \in Keys : [NoArg EXCEPT !.k = k] \in Arg /\ [NoArg EXCEPT !.k = k].k = k
    /\ \A c \in Capacities : [NoArg EXCEPT !.cap = c] \in Arg /\ [NoArg EXCEPT !.cap = c].cap = c
  BY DEF NoArg, Arg

\* The start of a command.
LEMMA Opens ==
    ASSUME TypeOK, NEW p \in Procs, NEW l \in Steps, NEW a \in Arg, Open(p, l, a)
    PROVE  /\ cmds' \in 0 .. MaxCmds /\ pc' \in [Procs -> Steps]
           /\ at' \in [Procs -> 1 .. Len(maps)] /\ arg' \in [Procs -> Arg]
           /\ pc[p] = "idle" /\ pc'[p] = l /\ at'[p] = pin /\ arg'[p] = a
           /\ \A q \in Procs : q # p => pc'[q] = pc[q] /\ at'[q] = at[q] /\ arg'[q] = arg[q]
<1>1. cmds' \in 0 .. MaxCmds
  BY SetMapAssumption DEF Open, TypeOK
<1> QED BY <1>1 DEF Open, Goto, TypeOK

\* A command that ends without having written.
LEMMA QuitStep ==
    ASSUME MapInv, NEW p \in Cli, Quit(p), UNCHANGED <<maps, pin, tmp, at, cmds, capped, active, dirty>>
    PROVE  MapInv'
<1>0. p \in Procs /\ TypeOK
  BY DEF Procs, MapInv
<1>1. /\ pc' \in [Procs -> Steps] /\ arg' \in [Procs -> Arg]
      /\ val' \in [Procs -> Entry] /\ it' \in [Procs -> Walk]
      /\ pc'[p] = "idle"
      /\ \A q \in Procs : q # p =>
            pc'[q] = pc[q] /\ arg'[q] = arg[q] /\ val'[q] = val[q] /\ it'[q] = it[q]
  BY <1>0, Quits
<1>2. TypeOK'
  BY <1>0, <1>1, Zenon DEF TypeOK
<1>3. ~Copying(p)' /\ Owns(p)' /\ Copied(p)'
  BY <1>1, NotCopying
<1>4. Command(p)'
  BY <1>1 DEF Command
<1>5. StepOf(p)
  BY <1>0, <1>1, <1>3, StillMaps
<1> QED BY <1>2, <1>3, <1>4, <1>5, CommandStep

LEMMA AddOpenInv ==
    ASSUME MapInv, NEW p \in Cli, NEW k \in Keys, NEW t \in Tags,
           NEW mb \in MaxBytes \cup {Store!Omitted}, AddOpen(p, k, t, mb)
    PROVE  MapInv'
<1>0. p \in Procs /\ TypeOK
  BY DEF Procs, MapInv
<1> DEFINE a == [NoArg EXCEPT !.k = k, !.t = t, !.mb = mb]
<1>1. a \in Arg /\ a.k = k /\ a.t = t /\ a.mb = mb
  BY Zenon DEF NoArg, Arg
<1>2. Open(p, "lookup", a) /\ ~(mb > 0 /\ t = 0) /\ "lookup" \in Steps
  BY DEF AddOpen, Steps
<1>3. UNCHANGED <<maps, pin, tmp, val, it, capped, active, dirty>>
  BY DEF AddOpen
<1> HIDE DEF a
<1>4. /\ cmds' \in 0 .. MaxCmds /\ pc' \in [Procs -> Steps]
      /\ at' \in [Procs -> 1 .. Len(maps)] /\ arg' \in [Procs -> Arg]
      /\ pc'[p] = "lookup" /\ at'[p] = pin /\ arg'[p] = a
      /\ \A q \in Procs : q # p => pc'[q] = pc[q] /\ at'[q] = at[q] /\ arg'[q] = arg[q]
  BY <1>0, <1>1, <1>2, Opens
<1>5. TypeOK'
  BY <1>0, <1>3, <1>4, Zenon DEF TypeOK
<1>6. ~Copying(p)' /\ Owns(p)' /\ Copied(p)'
  BY <1>4, NotCopying
<1>7. Command(p)'
  BY <1>1, <1>2, <1>4 DEF Command
<1>8. StepOf(p)
  BY <1>0, <1>3, <1>4, <1>6, StillMaps, Zenon
<1> QED BY <1>5, <1>6, <1>7, <1>8, CommandStep

LEMMA DelOpenInv ==
    ASSUME MapInv, NEW p \in Cli, NEW k \in Keys, DelOpen(p, k)
    PROVE  MapInv'
<1>0. p \in Procs /\ TypeOK
  BY DEF Procs, MapInv
<1> DEFINE a == [NoArg EXCEPT !.k = k]
<1>1. a \in Arg /\ a.k = k
  BY OpenArgs
<1>2. Open(p, "delete", a) /\ "delete" \in Steps
  BY DEF DelOpen, Steps
<1>3. UNCHANGED <<maps, pin, tmp, val, it, capped, active, dirty>>
  BY DEF DelOpen
<1> HIDE DEF a
<1>4. /\ cmds' \in 0 .. MaxCmds /\ pc' \in [Procs -> Steps]
      /\ at' \in [Procs -> 1 .. Len(maps)] /\ arg' \in [Procs -> Arg]
      /\ pc'[p] = "delete" /\ at'[p] = pin /\ arg'[p] = a
      /\ \A q \in Procs : q # p => pc'[q] = pc[q] /\ at'[q] = at[q] /\ arg'[q] = arg[q]
  BY <1>0, <1>1, <1>2, Opens
<1>5. TypeOK'
  BY <1>0, <1>3, <1>4, Zenon DEF TypeOK
<1>6. ~Copying(p)' /\ Owns(p)' /\ Copied(p)'
  BY <1>4, NotCopying
<1>7. Command(p)'
  BY <1>1, <1>4 DEF Command
<1>8. StepOf(p)
  BY <1>0, <1>3, <1>4, <1>6, StillMaps
<1> QED BY <1>5, <1>6, <1>7, <1>8, CommandStep

LEMMA ResizeOpenInv ==
    ASSUME MapInv, NEW p \in Cli, NEW c \in Capacities, ResizeOpen(p, c)
    PROVE  MapInv'
<1>0. p \in Procs /\ TypeOK
  BY DEF Procs, MapInv
<1> DEFINE a == [NoArg EXCEPT !.cap = c]
<1>1. a \in Arg /\ a.cap = c
  BY OpenArgs
<1>2. Open(p, "count", a) /\ "count" \in Steps
  BY DEF ResizeOpen, Steps
<1>3. UNCHANGED <<maps, pin, tmp, val, capped, active>>
  BY DEF ResizeOpen
<1> HIDE DEF a
<1>4. /\ cmds' \in 0 .. MaxCmds /\ pc' \in [Procs -> Steps]
      /\ at' \in [Procs -> 1 .. Len(maps)] /\ arg' \in [Procs -> Arg]
      /\ pc'[p] = "count" /\ at'[p] = pin /\ arg'[p] = a
      /\ \A q \in Procs : q # p => pc'[q] = pc[q] /\ at'[q] = at[q] /\ arg'[q] = arg[q]
  BY <1>0, <1>1, <1>2, Opens
<1>a. it' = [it EXCEPT ![p] = Started(pin)] /\ dirty' = [dirty EXCEPT ![p] = {}]
  BY DEF ResizeOpen
<1>b. /\ it' \in [Procs -> Walk] /\ dirty' \in [Procs -> SUBSET Keys]
      /\ \A q \in Procs : q # p => it'[q] = it[q] /\ dirty'[q] = dirty[q]
  BY <1>0, <1>a, RestTypes DEF TypeOK
<1>5. TypeOK'
  BY <1>0, <1>3, <1>4, <1>b, Zenon DEF TypeOK
<1>6. ~Copying(p)' /\ Owns(p)' /\ Copied(p)'
  BY <1>4, NotCopying
<1>7. Command(p)'
  BY <1>1, <1>4 DEF Command
<1>8. StepOf(p)
  BY <1>0, <1>3, <1>4, <1>6, <1>b, StillMaps
<1> QED BY <1>5, <1>6, <1>7, <1>8, CommandStep

LEMMA AddLookupInv ==
    ASSUME MapInv, NEW p \in Cli, AddLookup(p)
    PROVE  MapInv'
<1>0. p \in Procs /\ TypeOK /\ Command(p) /\ at[p] \in 1 .. Len(maps)
  BY Holds DEF Procs
<1>1. CASE Quit(p)
  BY <1>1, QuitStep DEF AddLookup
<1>2. CASE ~Quit(p)
  <2>1. /\ val' = [val EXCEPT ![p] = Store!AddedOver(maps[at[p]].ent[arg[p].k], arg[p].t, arg[p].mb)]
        /\ pc[p] = "lookup" /\ pc' = [pc EXCEPT ![p] = "put"]
        /\ UNCHANGED <<maps, pin, tmp, at, arg, it, cmds, capped, active, dirty>>
    BY <1>2 DEF AddLookup, Goto
  <2>2. /\ arg[p].k \in Keys /\ arg[p].t \in Tags /\ arg[p].mb \in MaxBytes \cup {Store!Omitted}
        /\ ~(arg[p].mb > 0 /\ arg[p].t = 0)
    BY <1>0, <2>1 DEF Command
  <2>3. maps[at[p]].ent[arg[p].k] \in Entry
    BY <1>0, <2>2, EntryAt
  <2>4. Store!AddedOver(maps[at[p]].ent[arg[p].k], arg[p].t, arg[p].mb) \in Entry
    BY <2>2, <2>3, AddedEntry
  <2>5. val' \in [Procs -> Entry] /\ \A q \in Procs : q # p => val'[q] = val[q]
    BY <1>0, <2>1, <2>4 DEF TypeOK
  <2>6. /\ pc' \in [Procs -> Steps] /\ pc'[p] = "put"
        /\ \A q \in Procs : q # p => pc'[q] = pc[q]
    BY <1>0, <2>1 DEF TypeOK, Steps
  <2>7. TypeOK'
    BY <1>0, <2>1, <2>5, <2>6, Zenon DEF TypeOK
  <2>8. ~Copying(p)' /\ Owns(p)' /\ Copied(p)'
    BY <2>6, NotCopying
  <2>9. Command(p)'
    BY <2>1, <2>2, <2>6 DEF Command
  <2>10. StepOf(p)
    BY <1>0, <2>1, <2>5, <2>6, <2>8, StillMaps, Zenon
  <2> QED BY <2>7, <2>8, <2>9, <2>10, CommandStep
<1> QED BY <1>1, <1>2

LEMMA AddPutInv ==
    ASSUME MapInv, NEW p \in Cli, AddPut(p)
    PROVE  MapInv'
<1>0. p \in Procs /\ TypeOK /\ Command(p) /\ val[p] \in Entry
  BY Holds DEF Procs
<1>1. pc[p] = "put" /\ Quit(p) /\ UNCHANGED <<pin, tmp, at, cmds, capped, active>>
  BY DEF AddPut
<1>2. CASE ~Room(at[p], arg[p].k)
  BY <1>1, <1>2, QuitStep DEF AddPut
<1>3. CASE Room(at[p], arg[p].k)
  <2>1. Touch(at[p], arg[p].k, val[p]) /\ arg[p].k \in Keys
    BY <1>0, <1>1, <1>3 DEF AddPut, Command
  <2>2. /\ pc' \in [Procs -> Steps] /\ arg' \in [Procs -> Arg]
        /\ val' \in [Procs -> Entry] /\ it' \in [Procs -> Walk]
        /\ pc'[p] = "idle"
        /\ \A q \in Procs : q # p =>
              pc'[q] = pc[q] /\ arg'[q] = arg[q] /\ val'[q] = val[q] /\ it'[q] = it[q]
    BY <1>0, <1>1, Quits
  <2>3. ~Copying(p)' /\ Owns(p)' /\ Copied(p)'
    BY <2>2, NotCopying
  <2>4. \A q \in Procs : q # p =>
            /\ pc'[q] = pc[q] /\ arg'[q] = arg[q] /\ val'[q] = val[q]
            /\ it'[q].seen = it[q].seen /\ it'[q].last = it[q].last
            /\ it[q].base \ {arg[p].k} \subseteq it'[q].base
    BY <2>2
  <2>5. /\ StepOf(p) /\ maps' \in Seq(Map) /\ Len(maps') = Len(maps)
        /\ dirty' \in [Procs -> SUBSET Keys]
    BY <1>0, <1>1, <2>1, <2>3, <2>4, TouchStep
  <2>6. TypeOK'
    BY <1>0, <1>1, <2>2, <2>5, Zenon DEF TypeOK
  <2>7. Command(p)'
    BY <2>2 DEF Command
  <2> QED BY <2>3, <2>5, <2>6, <2>7, CommandStep
<1> QED BY <1>2, <1>3

LEMMA ShrunkWalks ==
    ASSUME TypeOK, NEW m, NEW k
    PROVE  /\ Shrunk(m, k) \in [Procs -> Walk]
           /\ \A q \in Procs :
                 /\ Shrunk(m, k)[q].seen = it[q].seen /\ Shrunk(m, k)[q].last = it[q].last
                 /\ it[q].base \ {k} \subseteq Shrunk(m, k)[q].base
                 /\ at[q] # m => Shrunk(m, k)[q].base = it[q].base
<1>1. ASSUME NEW q \in Procs
      PROVE  /\ [it[q] EXCEPT !.base = @ \ {k}] \in Walk
             /\ [it[q] EXCEPT !.base = @ \ {k}].seen = it[q].seen
             /\ [it[q] EXCEPT !.base = @ \ {k}].last = it[q].last
             /\ [it[q] EXCEPT !.base = @ \ {k}].base = it[q].base \ {k}
             /\ it[q] \in Walk
  <2>1. it[q] \in Walk
    BY DEF TypeOK
  <2> QED BY <2>1 DEF Walk
<1> QED BY <1>1 DEF Shrunk

LEMMA DeleteInv ==
    ASSUME MapInv, NEW p \in Cli, Delete(p)
    PROVE  MapInv'
<1>0. p \in Procs /\ TypeOK /\ Command(p) /\ at[p] \in 1 .. Len(maps)
  BY Holds DEF Procs
<1> DEFINE k == arg[p].k
<1>1. pc[p] = "delete" /\ pc' = [pc EXCEPT ![p] = "idle"] /\ arg' = [arg EXCEPT ![p] = NoArg]
  BY DEF Delete, Goto
<1>2. UNCHANGED <<val, pin, tmp, at, cmds, capped, active>>
  BY DEF Delete
<1>3. it' = [Shrunk(at[p], k) EXCEPT ![p] = Rest]
  BY DEF Delete
<1>4. k \in Keys
  BY <1>0, <1>1 DEF Command
<1>5. IF k \in Present(at[p]) THEN Touch(at[p], k, None) ELSE UNCHANGED <<maps, dirty>>
  BY Zenon DEF Delete
<1> HIDE DEF k
<1>6. /\ pc' \in [Procs -> Steps] /\ arg' \in [Procs -> Arg] /\ pc'[p] = "idle"
      /\ \A q \in Procs : q # p => pc'[q] = pc[q] /\ arg'[q] = arg[q]
  BY <1>0, <1>1, RestTypes DEF TypeOK, Steps
<1>7. /\ it' \in [Procs -> Walk]
      /\ \A q \in Procs : q # p =>
            /\ it'[q].seen = it[q].seen /\ it'[q].last = it[q].last
            /\ it[q].base \ {k} \subseteq it'[q].base
            /\ at[q] # at[p] => it'[q].base = it[q].base
  <2>1. Shrunk(at[p], k) \in [Procs -> Walk]
    BY <1>0, ShrunkWalks, Zenon
  <2>2. it' \in [Procs -> Walk] /\ \A q \in Procs : q # p => it'[q] = Shrunk(at[p], k)[q]
    BY <1>0, <1>3, <2>1, RestTypes
  <2>3. ASSUME NEW q \in Procs, q # p
        PROVE  /\ it'[q].seen = it[q].seen /\ it'[q].last = it[q].last
               /\ it[q].base \ {k} \subseteq it'[q].base
               /\ at[q] # at[p] => it'[q].base = it[q].base
    <3> DEFINE w == Shrunk(at[p], k)[q]
    <3>1. /\ w.seen = it[q].seen /\ w.last = it[q].last
          /\ it[q].base \ {k} \subseteq w.base
          /\ at[q] # at[p] => w.base = it[q].base
      BY <1>0, ShrunkWalks
    <3>2. it'[q] = w
      BY <2>2, <2>3, Zenon
    <3> HIDE DEF w
    <3> QED BY <3>1, <3>2
  <2> QED BY <2>2, <2>3, Zenon
<1>8. ~Copying(p)' /\ Owns(p)' /\ Copied(p)'
  BY <1>6, NotCopying
<1>9. Command(p)'
  BY <1>6 DEF Command
<1>10. /\ StepOf(p) /\ maps' \in Seq(Map) /\ Len(maps') = Len(maps)
       /\ dirty' \in [Procs -> SUBSET Keys]
  <2>1. CASE k \in Present(at[p])
    <3>1. Touch(at[p], k, None) /\ None \in Entry
      BY <1>5, <2>1, EntryFacts
    <3>2. \A q \in Procs : q # p =>
              /\ pc'[q] = pc[q] /\ arg'[q] = arg[q] /\ val'[q] = val[q]
              /\ it'[q].seen = it[q].seen /\ it'[q].last = it[q].last
              /\ it[q].base \ {k} \subseteq it'[q].base
      BY <1>2, <1>6, <1>7
    <3> QED BY <1>0, <1>2, <1>4, <1>8, <3>1, <3>2, TouchStep
  <2>2. CASE k \notin Present(at[p])
    <3>1. UNCHANGED <<maps, dirty>> /\ maps[at[p]].ent[k] = None
      BY <1>4, <1>5, <2>2 DEF Present
    <3>2. Len(maps') \in Nat /\ Len(maps) <= Len(maps') /\ maps' \in Seq(Map)
      BY <1>0, <3>1 DEF TypeOK
    <3>3. ASSUME NEW q \in Procs, q # p
          PROVE  /\ dirty[q] \subseteq dirty'[q]
                 /\ \A j \in Keys \ dirty'[q] :
                       /\ \A m \in 1 .. Len(maps) :
                             (Copying(p) => m # arg[p].new) => maps'[m].ent[j] = maps[m].ent[j]
                       /\ maps[at[q]].ent[j] # None /\ j \in it[q].base => j \in it'[q].base
      BY <1>7, <3>1, <3>3
    <3>4. \A q \in Procs : q # p =>
              /\ pc'[q] = pc[q] /\ at'[q] = at[q] /\ arg'[q] = arg[q] /\ val'[q] = val[q]
              /\ it'[q].seen = it[q].seen /\ it'[q].last = it[q].last
      BY <1>2, <1>6, <1>7
    <3>5. at'[p] \in {at[p], pin} /\ pin' = pin /\ tmp' = tmp
      BY <1>2
    <3>6. StepOf(p)
      BY <1>8, <3>2, <3>3, <3>4, <3>5, Zenon DEF StepOf
    <3> QED BY <1>0, <3>1, <3>2, <3>6 DEF TypeOK
  <2> QED BY <2>1, <2>2
<1>11. TypeOK'
  BY <1>0, <1>2, <1>6, <1>7, <1>10, Zenon DEF TypeOK
<1> QED BY <1>8, <1>9, <1>10, <1>11, CommandStep

LEMMA ResizeCountInv ==
    ASSUME MapInv, NEW p \in Cli, ResizeCount(p)
    PROVE  MapInv'
<1>0. p \in Procs /\ TypeOK /\ Command(p) /\ pc[p] = "count" /\ arg[p].cap \in Capacities
  BY Holds, Zenon DEF Procs, ResizeCount, Command
<1>1. CASE Quit(p)
  BY <1>1, QuitStep DEF ResizeCount
<1>2. CASE ~Quit(p)
  <2>1. UNCHANGED <<maps, pin, tmp, at, arg, val, cmds, capped, active, dirty>>
    BY <1>2 DEF ResizeCount
  <2>2. /\ it' \in [Procs -> Walk] /\ pc' \in [Procs -> Steps] /\ pc'[p] \in {"count", "stat"}
        /\ \A q \in Procs : q # p => it'[q] = it[q] /\ pc'[q] = pc[q]
    <3>1. CASE \E k \in Keys : Visits(p, at[p], k) /\ pc' = pc
      BY <1>0, <3>1, WalkStep DEF TypeOK
    <3>2. CASE pc' = [pc EXCEPT ![p] = "stat"] /\ it' = it
      BY <1>0, <3>2 DEF TypeOK, Steps
    <3> QED BY <1>2, <3>1, <3>2 DEF ResizeCount, Goto
  <2>3. TypeOK'
    BY <1>0, <2>1, <2>2, Zenon DEF TypeOK
  <2>4. ~Copying(p)' /\ Owns(p)' /\ Copied(p)'
    BY <2>2, NotCopying
  <2>5. Command(p)'
    BY <1>0, <2>1, <2>2 DEF Command
  <2>6. StepOf(p)
    BY <1>0, <2>1, <2>2, <2>4, StillMaps
  <2> QED BY <2>3, <2>4, <2>5, <2>6, CommandStep
<1> QED BY <1>1, <1>2

\* The new map is empty, and its number is one nobody has.
LEMMA ResizeCreateInv ==
    ASSUME MapInv, NEW p \in Cli, ResizeCreate(p)
    PROVE  MapInv'
<1>0. p \in Procs /\ TypeOK /\ Command(p) /\ at[p] \in 1 .. Len(maps)
  BY Holds DEF Procs
<1>1. CASE tmp # 0
  BY <1>1, QuitStep DEF ResizeCreate
<1>2. CASE tmp = 0
  <2> DEFINE n == Len(maps) + 1
             r == [cap |-> arg[p].cap, ent |-> [k \in Keys |-> None]]
  <2>1. /\ pc[p] = "stat" /\ maps' = Append(maps, r) /\ arg' = [arg EXCEPT ![p].new = n]
        /\ it' = [it EXCEPT ![p] = Started(at[p])] /\ pc' = [pc EXCEPT ![p] = "copy"]
        /\ UNCHANGED <<val, pin, tmp, at, cmds, capped, active, dirty>>
    BY <1>2 DEF ResizeCreate, Goto
  <2>2. r \in Map /\ \A k \in Keys : r.ent[k] = None
    BY <1>0, <2>1, EntryFacts DEF Map, Command
  <2>3. maps \in Seq(Map) /\ Len(maps) \in Nat /\ n \in Nat
    BY <1>0 DEF TypeOK
  <2> HIDE DEF r
  <2>4. /\ maps' \in Seq(Map) /\ Len(maps') = n /\ maps'[n] = r
        /\ \A m \in 1 .. Len(maps) : maps'[m] = maps[m]
    BY <2>1, <2>2, <2>3, Grown
  <2>5. /\ arg' \in [Procs -> Arg] /\ arg'[p].new = n
        /\ \A q \in Procs : q # p => arg'[q] = arg[q]
    <3>1. arg \in [Procs -> Arg] /\ arg[p] \in Arg
      BY <1>0 DEF TypeOK
    <3>2. [arg[p] EXCEPT !.new = n] \in Arg /\ [arg[p] EXCEPT !.new = n].new = n
      BY <2>3, <3>1, Zenon DEF Arg
    <3>3. arg' = [arg EXCEPT ![p] = [arg[p] EXCEPT !.new = n]]
      BY <2>1
    <3> HIDE DEF n
    <3> QED BY <1>0, <3>1, <3>2, <3>3
  <2> HIDE DEF n
  <2>6. /\ it' \in [Procs -> Walk] /\ it'[p] = Started(at[p])
        /\ \A q \in Procs : q # p => it'[q] = it[q]
    BY <1>0, <2>1, RestTypes DEF TypeOK
  <2>7. /\ pc' \in [Procs -> Steps] /\ pc'[p] = "copy"
        /\ \A q \in Procs : q # p => pc'[q] = pc[q]
    BY <1>0, <2>1 DEF TypeOK, Steps
  <2>8. n = Len(maps) + 1
    BY DEF n
  <2>9. TypeOK'
    <3>1. pin' \in 1 .. Len(maps') /\ tmp' \in 0 .. Len(maps') /\ at' \in [Procs -> 1 .. Len(maps')]
      BY <1>0, <2>1, <2>3, <2>4, <2>8 DEF TypeOK
    <3> QED BY <1>0, <2>1, <2>4, <2>5, <2>6, <2>7, <3>1, Zenon DEF TypeOK
  <2>10. Owns(p)'
    <3>1. n \in 1 .. Len(maps') /\ n # pin' /\ tmp' # n
      BY <1>0, <1>2, <2>1, <2>3, <2>4, <2>8 DEF TypeOK
    <3>2. \A q \in Procs : at'[q] # n
      BY <1>0, <2>1, <2>3, <2>8 DEF TypeOK
    <3>3. ASSUME NEW q \in Cli, q # p, Copying(q)' PROVE arg'[q].new # n
      <4>1. q \in Procs /\ Owns(q)
        BY DEF Procs, MapInv
      <4>2. Copying(q) /\ arg'[q] = arg[q]
        BY <2>5, <2>7, <3>3, <4>1 DEF Copying
      <4>3. arg[q].new \in 1 .. Len(maps)
        BY <4>1, <4>2 DEF Owns
      <4> QED BY <2>3, <2>8, <4>2, <4>3
    <3> QED BY <2>5, <2>7, <3>1, <3>2, <3>3 DEF Owns
  <2>11. Copied(p)'
    <3>1. ASSUME NEW k \in Keys \ dirty'[p]
          PROVE  CopiedKey(p, k, maps[at[p]].ent[k], maps[arg[p].new].ent[k])'
      <4>1. maps'[arg'[p].new].ent[k] = None
        BY <2>2, <2>4, <2>5
      <4>2. maps'[at'[p]] = maps[at[p]]
        BY <1>0, <2>1, <2>4
      <4>3. it'[p].seen = {} /\ it'[p].base = Present(at[p])
        <5>1. it'[p] = [seen |-> {}, base |-> Present(at[p]), last |-> "none"]
          BY <2>6, Zenon DEF Started
        <5> QED BY <5>1
      <4> QED BY <2>7, <4>1, <4>2, <4>3 DEF CopiedKey, Present, None, Store!None
    <3> QED BY <2>7, <3>1, Zenon DEF Copied
  <2>12. Command(p)'
    BY <2>7 DEF Command
  <2>13. StepOf(p)
    <3>1. Len(maps') \in Nat /\ Len(maps) <= Len(maps')
      BY <2>3, <2>4, <2>8
    <3>2. \A q \in Procs : q # p =>
              /\ dirty[q] \subseteq dirty'[q]
              /\ \A k \in Keys \ dirty'[q] :
                    /\ \A m \in 1 .. Len(maps) :
                          (Copying(p) => m # arg[p].new) => maps'[m].ent[k] = maps[m].ent[k]
                    /\ maps[at[q]].ent[k] # None /\ k \in it[q].base => k \in it'[q].base
      BY <2>1, <2>4, <2>6
    <3>3. \A q \in Procs : q # p =>
              /\ pc'[q] = pc[q] /\ at'[q] = at[q] /\ arg'[q] = arg[q] /\ val'[q] = val[q]
              /\ it'[q].seen = it[q].seen /\ it'[q].last = it[q].last
      BY <2>1, <2>5, <2>6, <2>7
    <3>4. at'[p] \in {at[p], pin} /\ pin' = pin /\ tmp' = tmp /\ arg'[p].new = Len(maps) + 1
      BY <2>1, <2>5, <2>8
    <3> QED BY <3>1, <3>2, <3>3, <3>4, Zenon DEF StepOf
  <2> QED BY <2>9, <2>10, <2>11, <2>12, <2>13, CommandStep
<1> QED BY <1>1, <1>2

\* A step of a resize that keeps the map it fills.
LEMMA StillOwns ==
    ASSUME MapInv, NEW p \in Cli, Copying(p), pc[p] # "rename", pc'[p] # "rename",
           arg' = arg, pin' = pin, tmp' = tmp, at' = at, Len(maps') = Len(maps),
           \A q \in Procs : q # p => pc'[q] = pc[q]
    PROVE  Owns(p)'
<1>1. Owns(p) /\ \A q \in Cli : q \in Procs
  BY DEF MapInv, Procs
<1>2. \A q \in Cli : q # p /\ Copying(q)' => Copying(q)
  BY <1>1 DEF Copying
<1> QED BY <1>1, <1>2 DEF Owns

LEMMA CopyNextInv ==
    ASSUME MapInv, NEW p \in Cli, CopyNext(p)
    PROVE  MapInv'
<1>0. p \in Procs /\ TypeOK /\ Copied(p) /\ at[p] \in 1 .. Len(maps)
  BY Holds DEF Procs
<1>1. /\ pc[p] = "copy" /\ pc' = [pc EXCEPT ![p] = "copyput"]
      /\ UNCHANGED <<maps, pin, tmp, at, arg, cmds, capped, active, dirty>>
  BY Zenon DEF CopyNext, Goto
<1>2. PICK k \in Keys : Visits(p, at[p], k) /\ val' = [val EXCEPT ![p] = maps[at[p]].ent[k]]
  BY Zenon DEF CopyNext
<1>3. /\ it' \in [Procs -> Walk]
      /\ \A q \in Procs : q # p => it'[q] = it[q]
      /\ it'[p].last = k /\ it'[p].base = it[p].base
      /\ k \in it'[p].seen /\ it'[p].seen \subseteq it[p].seen \cup {k}
  BY <1>0, <1>2, WalkStep
<1>4. maps[at[p]].ent[k] \in Entry
  BY <1>0, EntryAt
<1>5. /\ val' \in [Procs -> Entry] /\ val'[p] = maps[at[p]].ent[k]
      /\ \A q \in Procs : q # p => val'[q] = val[q]
  BY <1>0, <1>2, <1>4 DEF TypeOK
<1>6. /\ pc' \in [Procs -> Steps] /\ pc'[p] = "copyput"
      /\ \A q \in Procs : q # p => pc'[q] = pc[q]
  BY <1>0, <1>1 DEF TypeOK, Steps
<1>7. TypeOK'
  BY <1>0, <1>1, <1>3, <1>5, <1>6, Zenon DEF TypeOK
<1>8. Copying(p) /\ arg'[p].new = arg[p].new
  BY <1>1 DEF Copying
<1>9. Owns(p)'
  BY <1>1, <1>6, <1>8, StillOwns
<1>10. Copied(p)'
  <2>1. ASSUME NEW j \in Keys \ dirty'[p]
        PROVE  CopiedKey(p, j, maps[at[p]].ent[j], maps[arg[p].new].ent[j])'
    <3>1. CopiedKey(p, j, maps[at[p]].ent[j], maps[arg[p].new].ent[j])
      BY <1>0, <1>1, <1>8, Zenon DEF Copied
    <3> QED BY <1>1, <1>3, <1>6, <3>1, ZenonT(60) DEF CopiedKey, None, Store!None
  <2> QED BY <1>1, <1>3, <1>5, <1>6, <2>1, ZenonT(60) DEF Copied
<1>11. Command(p)'
  BY <1>6 DEF Command
<1>12. StepOf(p)
  BY <1>0, <1>1, <1>3, <1>5, <1>6, <1>8, StillMaps, ZenonT(60)
<1> QED BY <1>7, <1>9, <1>10, <1>11, <1>12, CommandStep

LEMMA CopyPutInv ==
    ASSUME MapInv, NEW p \in Cli, CopyPut(p)
    PROVE  MapInv'
<1>0. p \in Procs /\ TypeOK /\ Copied(p) /\ Owns(p) /\ val[p] \in Entry /\ at[p] \in 1 .. Len(maps)
  BY Holds DEF Procs
<1>1. CASE ~Room(arg[p].new, it[p].last)
  BY <1>1, QuitStep DEF CopyPut
<1>2. CASE Room(arg[p].new, it[p].last)
  <2>1. /\ pc[p] = "copyput" /\ pc' = [pc EXCEPT ![p] = "copy"]
        /\ Puts(arg[p].new, it[p].last, val[p])
        /\ UNCHANGED <<arg, val, it, pin, tmp, at, cmds, capped, active, dirty>>
    BY <1>2 DEF CopyPut, Goto, Puts
  <2>2. Copying(p) /\ arg[p].new \in 1 .. Len(maps) /\ it[p].last \in Keys /\ at[p] # arg[p].new
    BY <1>0, <2>1, Zenon DEF Copying, Owns, Copied
  <2>3. maps \in Seq(Map)
    BY <1>0 DEF TypeOK
  <2>4. /\ maps' \in Seq(Map) /\ Len(maps') = Len(maps)
        /\ \A n \in 1 .. Len(maps) : n # arg[p].new => maps'[n] = maps[n]
        /\ \A n \in 1 .. Len(maps) : \A j \in Keys :
              maps'[n].ent[j] = IF n = arg[p].new /\ j = it[p].last THEN val[p] ELSE maps[n].ent[j]
    <3>1. Puts(arg[p].new, it[p].last, val[p])
      BY <2>1
    <3>2. Written(arg[p].new, it[p].last, val[p])
      BY <1>0, <2>2, <2>3, <3>1, PutWrites
    <3> QED BY <3>2 DEF Written
  <2>5. /\ pc' \in [Procs -> Steps] /\ pc'[p] = "copy"
        /\ \A q \in Procs : q # p => pc'[q] = pc[q]
    BY <1>0, <2>1 DEF TypeOK, Steps
  <2>6. TypeOK'
    BY <1>0, <2>1, <2>4, <2>5, Zenon DEF TypeOK
  <2>7. Owns(p)'
    BY <2>1, <2>2, <2>4, <2>5, StillOwns, ZenonT(60)
  <2>8. Copied(p)'
    <3>1. ASSUME NEW j \in Keys \ dirty'[p]
          PROVE  CopiedKey(p, j, maps[at[p]].ent[j], maps[arg[p].new].ent[j])'
      <4>1. CopiedKey(p, j, maps[at[p]].ent[j], maps[arg[p].new].ent[j])
        BY <1>0, <2>1, <2>2, ZenonT(60) DEF Copied
      <4>2. maps'[at'[p]].ent[j] = maps[at[p]].ent[j]
        BY <1>0, <2>1, <2>2, <2>4
      <4>3. maps'[arg'[p].new].ent[j] = IF j = it[p].last THEN val[p] ELSE maps[arg[p].new].ent[j]
        BY <2>1, <2>2, <2>4, ZenonT(60)
      <4>4. j = it[p].last => val[p] = maps[at[p]].ent[j]
        BY <1>0, <2>1, <2>2, Zenon DEF Copied
      <4> QED BY <2>1, <2>5, <4>1, <4>2, <4>3, <4>4, ZenonT(60) DEF CopiedKey, None, Store!None
    <3> QED BY <2>5, <3>1, Zenon DEF Copied
  <2>9. Command(p)'
    BY <2>5 DEF Command
  <2>10. StepOf(p)
    <3>1. Len(maps') \in Nat /\ Len(maps) <= Len(maps')
      BY <2>3, <2>4
    <3>2. \A q \in Procs : q # p =>
              /\ dirty[q] \subseteq dirty'[q]
              /\ \A k \in Keys \ dirty'[q] :
                    /\ \A m \in 1 .. Len(maps) :
                          (Copying(p) => m # arg[p].new) => maps'[m].ent[k] = maps[m].ent[k]
                    /\ maps[at[q]].ent[k] # None /\ k \in it[q].base => k \in it'[q].base
      BY <2>1, <2>2, <2>4
    <3>3. \A q \in Procs : q # p =>
              /\ pc'[q] = pc[q] /\ at'[q] = at[q] /\ arg'[q] = arg[q] /\ val'[q] = val[q]
              /\ it'[q].seen = it[q].seen /\ it'[q].last = it[q].last
      BY <2>1, <2>5
    <3>4. at'[p] \in {at[p], pin} /\ pin' = pin /\ tmp' = tmp /\ arg'[p].new = arg[p].new
      BY <2>1
    <3> QED BY <2>2, <3>1, <3>2, <3>3, <3>4, Zenon DEF StepOf
  <2> QED BY <2>6, <2>7, <2>8, <2>9, <2>10, CommandStep
<1> QED BY <1>1, <1>2

\* A walk that is over saw every entry that was there all along, so that the copy is
\* complete for the keys nobody wrote.
LEMMA ResizePinInv ==
    ASSUME MapInv, NEW p \in Cli, ResizePin(p)
    PROVE  MapInv'
<1>0. p \in Procs /\ TypeOK /\ Copied(p) /\ Owns(p)
  BY Holds DEF Procs
<1>1. CASE tmp # 0
  BY <1>1, QuitStep DEF ResizePin
<1>2. CASE tmp = 0
  <2>1. /\ pc[p] = "copy" /\ it[p].base \subseteq it[p].seen
        /\ tmp' = arg[p].new /\ pc' = [pc EXCEPT ![p] = "rename"]
        /\ UNCHANGED <<maps, pin, at, arg, val, it, cmds, capped, active, dirty>>
    BY <1>2 DEF ResizePin, Walked, Goto
  <2>2. /\ Copying(p) /\ arg[p].new \in 1 .. Len(maps) /\ arg[p].new # pin
        /\ \A q \in Procs : at[q] # arg[p].new
        /\ \A q \in Cli : q # p /\ Copying(q) => arg[q].new # arg[p].new
    BY <1>0, <2>1 DEF Copying, Owns
  <2>3. /\ pc' \in [Procs -> Steps] /\ pc'[p] = "rename"
        /\ \A q \in Procs : q # p => pc'[q] = pc[q]
    BY <1>0, <2>1 DEF TypeOK, Steps
  <2>4. tmp' \in 0 .. Len(maps')
    BY <1>0, <2>1, <2>2 DEF TypeOK
  <2>5. TypeOK'
    BY <1>0, <2>1, <2>3, <2>4, Zenon DEF TypeOK
  <2>6. Owns(p)'
    <3>1. \A q \in Cli : q # p /\ Copying(q)' => Copying(q)
      BY <2>3 DEF Copying, Procs
    <3> QED BY <2>1, <2>2, <2>3, <3>1 DEF Owns
  <2>7. Copied(p)'
    <3>1. ASSUME NEW j \in Keys \ dirty'[p]
          PROVE  CopiedKey(p, j, maps[at[p]].ent[j], maps[arg[p].new].ent[j])'
      <4>1. CopiedKey(p, j, maps[at[p]].ent[j], maps[arg[p].new].ent[j])
        BY <1>0, <2>1, <2>2, Zenon DEF Copied
      <4> QED BY <2>1, <2>3, <4>1, ZenonT(60) DEF CopiedKey, None, Store!None
    <3> QED BY <2>3, <3>1, ZenonT(60) DEF Copied
  <2>8. Command(p)'
    BY <2>3 DEF Command
  <2>9. StepOf(p)
    <3>1. Len(maps') \in Nat /\ Len(maps) <= Len(maps')
      <4>1. maps' = maps /\ maps \in Seq(Map)
        BY <1>0, <2>1, Zenon DEF TypeOK
      <4> QED BY <4>1
    <3>2. \A q \in Procs : q # p =>
              /\ dirty[q] \subseteq dirty'[q]
              /\ \A k \in Keys \ dirty'[q] :
                    /\ \A m \in 1 .. Len(maps) :
                          (Copying(p) => m # arg[p].new) => maps'[m].ent[k] = maps[m].ent[k]
                    /\ maps[at[q]].ent[k] # None /\ k \in it[q].base => k \in it'[q].base
      BY <2>1
    <3>3. \A q \in Procs : q # p =>
              /\ pc'[q] = pc[q] /\ at'[q] = at[q] /\ arg'[q] = arg[q] /\ val'[q] = val[q]
              /\ it'[q].seen = it[q].seen /\ it'[q].last = it[q].last
      BY <2>1, <2>3
    <3>4. at'[p] \in {at[p], pin} /\ pin' = pin /\ arg'[p].new = arg[p].new
      BY <2>1
    <3> QED BY <1>2, <2>1, <2>2, <3>1, <3>2, <3>3, <3>4, Zenon DEF StepOf
  <2> QED BY <2>5, <2>6, <2>7, <2>8, <2>9, CommandStep
<1> QED BY <1>1, <1>2

LEMMA ResizeRenameInv ==
    ASSUME MapInv, NEW p \in Cli, ResizeRename(p)
    PROVE  MapInv'
<1>0. p \in Procs /\ TypeOK /\ Owns(p)
  BY Holds DEF Procs
<1>1. /\ pc[p] = "rename" /\ Quit(p) /\ UNCHANGED <<maps, at, cmds, capped, active, dirty>>
      /\ pin' \in {pin, tmp} /\ tmp' \in {0, tmp}
  BY DEF ResizeRename
<1>2. /\ pc' \in [Procs -> Steps] /\ arg' \in [Procs -> Arg]
      /\ val' \in [Procs -> Entry] /\ it' \in [Procs -> Walk]
      /\ pc'[p] = "idle"
      /\ \A q \in Procs : q # p =>
            pc'[q] = pc[q] /\ arg'[q] = arg[q] /\ val'[q] = val[q] /\ it'[q] = it[q]
  BY <1>0, <1>1, Quits
<1>3. tmp = arg[p].new /\ arg[p].new \in 1 .. Len(maps)
  BY <1>0, <1>1, Zenon DEF Owns, Copying
<1>4. pin' \in 1 .. Len(maps') /\ tmp' \in 0 .. Len(maps')
  BY <1>0, <1>1, <1>3 DEF TypeOK
<1>5. TypeOK'
  BY <1>0, <1>1, <1>2, <1>4, Zenon DEF TypeOK
<1>6. ~Copying(p)' /\ Owns(p)' /\ Copied(p)'
  BY <1>2, NotCopying
<1>7. Command(p)'
  BY <1>2 DEF Command
<1>8. StepOf(p)
  <2>1. Len(maps') \in Nat /\ Len(maps) <= Len(maps')
    <3>1. maps' = maps /\ maps \in Seq(Map)
      BY <1>0, <1>1, Zenon DEF TypeOK
    <3> QED BY <3>1
  <2>2. \A q \in Procs : q # p =>
            /\ dirty[q] \subseteq dirty'[q]
            /\ \A k \in Keys \ dirty'[q] :
                  /\ \A m \in 1 .. Len(maps) :
                        (Copying(p) => m # arg[p].new) => maps'[m].ent[k] = maps[m].ent[k]
                  /\ maps[at[q]].ent[k] # None /\ k \in it[q].base => k \in it'[q].base
    BY <1>1, <1>2
  <2>3. \A q \in Procs : q # p =>
            /\ pc'[q] = pc[q] /\ at'[q] = at[q] /\ arg'[q] = arg[q] /\ val'[q] = val[q]
            /\ it'[q].seen = it[q].seen /\ it'[q].last = it[q].last
    BY <1>1, <1>2, ZenonT(60)
  <2>4. /\ at'[p] \in {at[p], pin}
        /\ pin' = pin \/ (pc[p] = "rename" /\ pin' = tmp)
        /\ tmp' = tmp \/ (pc[p] = "rename" /\ tmp' = 0)
    BY <1>1
  <2> QED BY <1>6, <2>1, <2>2, <2>3, <2>4, Zenon DEF StepOf
<1> QED BY <1>5, <1>6, <1>7, <1>8, CommandStep

LEMMA RemoveTmpInv ==
    ASSUME MapInv, RemoveTmp
    PROVE  MapInv'
<1>1. /\ tmp' = 0 /\ UNCHANGED <<maps, pin, pc, at, arg, val, it, cmds, capped, active, dirty>>
      /\ \A p \in Cli : ~Copying(p) /\ ~Copying(p)'
  BY DEF RemoveTmp, Copying
<1>2. TypeOK'
  <2>1. tmp' \in 0 .. Len(maps')
    BY <1>1 DEF MapInv, TypeOK
  <2>2. TypeOK
    BY DEF MapInv
  <2> QED BY <1>1, <2>1, <2>2, Zenon DEF TypeOK
<1>3. Parking' /\ Ticking' /\ \A p \in Cli : Command(p)'
  BY <1>1, ZenonT(60) DEF MapInv, Parking, Ticking, Command, Parked, Store!Capped
<1>4. \A p \in Cli : Owns(p)' /\ Copied(p)'
  BY <1>1, Zenon DEF Owns, Copied
<1> QED BY <1>2, <1>3, <1>4 DEF MapInv

\* The steps of the tick that write no map.
LEMMA TickReads ==
    ASSUME MapInv, UNCHANGED <<maps, pin, tmp, at, arg, cmds, dirty>>,
           capped' \in BOOLEAN, active' \in BOOLEAN,
           NEW l \in {"idle", "snap", "park", "parkput"}, pc' = [pc EXCEPT ![Capture] = l],
           val' \in [Procs -> Entry], it' \in [Procs -> Walk],
           \A q \in Procs : q # Capture => val'[q] = val[q] /\ it'[q] = it[q],
           l = "parkput" => it'[Capture].last \in Keys /\ val'[Capture].state = Parked
    PROVE  MapInv'
<1>0. Capture \in Procs /\ TypeOK
  BY DEF Procs, MapInv
<1>1. /\ pc' \in [Procs -> Steps] /\ pc'[Capture] = l
      /\ \A q \in Procs : q # Capture => pc'[q] = pc[q]
  BY <1>0 DEF TypeOK, Steps
<1>2. TypeOK'
  BY <1>0, <1>1, Zenon DEF TypeOK
<1>3. ~Copying(Capture)'
  BY <1>1 DEF Copying
<1>4. StepOf(Capture)
  BY <1>0, <1>1, <1>3, StillMaps
<1>5. Parking' /\ Ticking'
  BY <1>1 DEF Parking, Ticking, Parked, Store!Capped
<1> QED BY <1>2, <1>4, <1>5, TickStep

LEMMA TickInv ==
    ASSUME MapInv, Tick \/ ReachCap
    PROVE  MapInv'
<1>0. /\ Capture \in Procs /\ TypeOK /\ at[Capture] \in 1 .. Len(maps)
      /\ val[Capture] \in Entry /\ Ticking /\ Parking
  BY Holds DEF Procs, MapInv
<1>1. /\ val \in [Procs -> Entry] /\ it \in [Procs -> Walk] /\ capped \in BOOLEAN
      /\ active \in BOOLEAN /\ pc \in [Procs -> Steps]
  BY <1>0 DEF TypeOK
<1>2. CASE ReachCap
  <2>1. /\ UNCHANGED <<maps, pc, val, it, active, dirty, pin, tmp, at, arg, cmds>> /\ capped' = TRUE
    BY <1>2 DEF ReachCap, unchangedByTick
  <2>2. capped' \in BOOLEAN /\ active' \in BOOLEAN
    BY <1>1, <2>1
  <2>3. pc' = [pc EXCEPT ![Capture] = pc[Capture]]
    BY <1>0, <1>1, <2>1
  <2>4. pc[Capture] \in {"idle", "snap", "park", "parkput"}
    BY <1>0 DEF Ticking
  <2>5. pc[Capture] = "parkput" => it'[Capture].last \in Keys /\ val'[Capture].state = Parked
    BY <1>0, <2>1 DEF Parking
  <2> QED BY <1>1, <2>1, <2>2, <2>3, <2>4, <2>5, TickReads
\* The walks of a tick, from their start to their end.
<1>3. CASE TickStart \/ TickDecide \/ ParkDone
  <2>1. /\ UNCHANGED <<maps, pin, tmp, at, arg, cmds, dirty, val>>
        /\ \E l \in {"idle", "snap", "park"} : pc' = [pc EXCEPT ![Capture] = l]
    BY <1>3 DEF TickStart, TickDecide, ParkDone, Goto, unchangedByTick
  <2>2. \E w \in Walk : it' = [it EXCEPT ![Capture] = w]
    BY <1>3, RestTypes DEF TickStart, TickDecide, ParkDone
  <2>3. capped' \in BOOLEAN /\ active' \in BOOLEAN
    BY <1>1, <1>3, Zenon DEF TickStart, TickDecide, ParkDone
  <2>4. it' \in [Procs -> Walk] /\ \A q \in Procs : q # Capture => it'[q] = it[q]
    BY <1>0, <1>1, <2>2
  <2>5. PICK l \in {"idle", "snap", "park"} : pc' = [pc EXCEPT ![Capture] = l]
    BY <2>1, Zenon
  <2>6. l \in {"idle", "snap", "park", "parkput"} /\ l # "parkput"
    OBVIOUS
  <2>7. val' \in [Procs -> Entry] /\ \A q \in Procs : q # Capture => val'[q] = val[q]
    BY <1>1, <2>1
  <2> QED BY <2>1, <2>3, <2>4, <2>5, <2>6, <2>7, TickReads, ZenonT(60)
<1>4. CASE TickSnap
  <2>1. /\ UNCHANGED <<maps, pin, tmp, at, arg, cmds, dirty, val, capped, pc>> /\ pc[Capture] = "snap"
    BY <1>4 DEF TickSnap, unchangedByTick
  <2>2. PICK k \in Keys :
            /\ Visits(Capture, at[Capture], k)
            /\ LET e == maps[at[Capture]].ent[k]
               IN active' = (active \/ (e.tag = CapTag /\ e.state = Active))
    BY <1>4, Zenon DEF TickSnap
  <2>3. capped' \in BOOLEAN /\ active' \in BOOLEAN
    BY <1>1, <2>1, <2>2, Zenon
  <2>4. it' \in [Procs -> Walk] /\ \A q \in Procs : q # Capture => it'[q] = it[q]
    BY <1>0, <2>2, WalkStep
  <2>5. pc' = [pc EXCEPT ![Capture] = "snap"]
    BY <1>0, <1>1, <2>1
  <2>6. val' \in [Procs -> Entry] /\ \A q \in Procs : q # Capture => val'[q] = val[q]
    BY <1>1, <2>1
  <2> QED BY <2>1, <2>3, <2>4, <2>5, <2>6, TickReads, Zenon
<1>5. CASE ParkNext
  <2>1. /\ UNCHANGED <<maps, pin, tmp, at, arg, cmds, dirty, capped, active>> /\ pc[Capture] = "park"
    BY <1>5 DEF ParkNext, unchangedByTick
  <2>2. PICK k \in Keys :
            /\ Visits(Capture, at[Capture], k)
            /\ IF maps[at[Capture]].ent[k].tag = CapTag /\ maps[at[Capture]].ent[k].state # Parked
               THEN /\ val' = [val EXCEPT ![Capture] = [maps[at[Capture]].ent[k] EXCEPT !.state = Parked]]
                    /\ pc' = [pc EXCEPT ![Capture] = "parkput"]
               ELSE UNCHANGED <<val, pc>>
    BY <1>5 DEF ParkNext, Goto
  <2>3. /\ it' \in [Procs -> Walk] /\ it'[Capture].last = k
        /\ \A q \in Procs : q # Capture => it'[q] = it[q]
    BY <1>0, <2>2, WalkStep
  <2>4. maps[at[Capture]].ent[k] \in Entry /\ maps[at[Capture]].ent[k] # None
    BY <1>0, <2>2, EntryAt DEF Visits, Present
  <2> DEFINE e == [maps[at[Capture]].ent[k] EXCEPT !.state = Parked]
  <2>5. e \in Entry /\ e.state = Parked
    BY <2>4, EntryFacts
  <2>6. capped' \in BOOLEAN /\ active' \in BOOLEAN
    BY <1>1, <2>1
  <2>7. CASE val' = [val EXCEPT ![Capture] = e] /\ pc' = [pc EXCEPT ![Capture] = "parkput"]
    <3> HIDE DEF e
    <3>1. /\ val' \in [Procs -> Entry] /\ val'[Capture] = e
          /\ \A q \in Procs : q # Capture => val'[q] = val[q]
      BY <1>0, <1>1, <2>5, <2>7
    <3> QED BY <2>1, <2>3, <2>5, <2>6, <2>7, <3>1, TickReads
  <2>8. CASE UNCHANGED <<val, pc>>
    <3>1. pc' = [pc EXCEPT ![Capture] = "park"]
      BY <1>0, <1>1, <2>1, <2>8
    <3>2. val' \in [Procs -> Entry] /\ \A q \in Procs : q # Capture => val'[q] = val[q]
      BY <1>1, <2>8
    <3> QED BY <2>1, <2>3, <2>6, <3>1, <3>2, TickReads, Zenon
  <2> QED BY <2>2, <2>7, <2>8
\* SetState's put: over the entry it read, or back where it was deleted.
<1>6. CASE ParkPut
  <2>1. /\ pc[Capture] = "parkput" /\ val' = [val EXCEPT ![Capture] = None]
        /\ UNCHANGED <<capped, active, pin, tmp, at, arg, cmds>>
    BY <1>6 DEF ParkPut, unchangedByTick
  <2>2. val' \in [Procs -> Entry] /\ \A q \in Procs : q # Capture => val'[q] = val[q]
    BY <1>0, <1>1, <2>1, EntryFacts
  <2>3. capped' \in BOOLEAN /\ active' \in BOOLEAN
    BY <1>1, <2>1
  <2>4. CASE ~Room(at[Capture], it[Capture].last)
    <3>1. /\ pc' = [pc EXCEPT ![Capture] = "idle"] /\ it' = [it EXCEPT ![Capture] = Rest]
          /\ UNCHANGED <<maps, dirty>>
      BY <1>6, <2>4 DEF ParkPut, Goto
    <3>2. it' \in [Procs -> Walk] /\ \A q \in Procs : q # Capture => it'[q] = it[q]
      BY <1>0, <1>1, <3>1, RestTypes
    <3> QED BY <2>1, <2>2, <2>3, <3>1, <3>2, TickReads
  <2>5. CASE Room(at[Capture], it[Capture].last)
    <3>1. /\ Touch(at[Capture], it[Capture].last, val[Capture])
          /\ pc' = [pc EXCEPT ![Capture] = "park"] /\ it' = it
      BY <1>6, <2>5 DEF ParkPut, Goto
    <3>2. it[Capture].last \in Keys
      BY <1>0, <2>1 DEF Parking
    <3>3. /\ pc' \in [Procs -> Steps] /\ pc'[Capture] = "park"
          /\ \A q \in Procs : q # Capture => pc'[q] = pc[q]
      BY <1>0, <1>1, <3>1 DEF Steps
    <3>4. ~Copying(Capture)' /\ Parking' /\ Ticking'
      BY <3>3 DEF Copying, Parking, Ticking
    <3>5. \A q \in Procs : q # Capture =>
              /\ pc'[q] = pc[q] /\ arg'[q] = arg[q] /\ val'[q] = val[q]
              /\ it'[q].seen = it[q].seen /\ it'[q].last = it[q].last
              /\ it[q].base \ {it[Capture].last} \subseteq it'[q].base
      BY <2>1, <2>2, <3>1, <3>3
    <3>6. /\ StepOf(Capture) /\ maps' \in Seq(Map) /\ Len(maps') = Len(maps)
          /\ dirty' \in [Procs -> SUBSET Keys]
      BY <1>0, <2>1, <3>1, <3>2, <3>4, <3>5, TouchStep, Zenon
    <3>7. TypeOK'
      BY <1>0, <2>1, <2>2, <2>3, <3>1, <3>3, <3>6, Zenon DEF TypeOK
    <3> QED BY <3>4, <3>6, <3>7, TickStep
  <2> QED BY <2>4, <2>5
<1> QED BY <1>2, <1>3, <1>4, <1>5, <1>6 DEF Tick

LEMMA NextInv == MapInv /\ [Next]_vars => MapInv'
<1> SUFFICES ASSUME MapInv, [Next]_vars PROVE MapInv'
  OBVIOUS
<1>1. ASSUME NEW p \in Cli, Add(p) PROVE MapInv'
  BY <1>1, AddOpenInv, AddLookupInv, AddPutInv DEF Add
<1>2. ASSUME NEW p \in Cli, Del(p) PROVE MapInv'
  BY <1>2, DelOpenInv, DeleteInv DEF Del
<1>3. ASSUME NEW p \in Cli, ResizeCrash(p) PROVE MapInv'
  BY <1>3, QuitStep DEF ResizeCrash
<1>4. ASSUME NEW p \in Cli, Resize(p) PROVE MapInv'
  BY <1>3, <1>4, ResizeOpenInv, ResizeCountInv, ResizeCreateInv, CopyNextInv, CopyPutInv,
     ResizePinInv, ResizeRenameInv DEF Resize
<1>5. CASE UNCHANGED vars
  <2>1. TypeOK'
    BY <1>5, Zenon DEF vars, MapInv, TypeOK
  <2>2. Parking' /\ Ticking'
    BY <1>5 DEF vars, MapInv, Parking, Ticking, Parked, Store!Capped
  <2>3. \A p \in Cli : Copying(p)' <=> Copying(p)
    BY <1>5 DEF vars, Copying
  <2>4. \A p \in Cli : Command(p)' /\ Owns(p)'
    BY <1>5, <2>3, ZenonT(60) DEF vars, MapInv, Command, Owns, Store!Omitted
  <2>5. \A p \in Cli : Copied(p)'
    <3>1. UNCHANGED <<maps, pc, at, arg, val, it, dirty>> /\ \A p \in Cli : Copied(p)
      BY <1>5 DEF vars, MapInv
    <3> QED BY <2>3, <3>1, ZenonT(60) DEF Copied, CopiedKey, None, Store!None
  <2> QED BY <2>1, <2>2, <2>4, <2>5 DEF MapInv
<1> QED BY <1>1, <1>2, <1>4, <1>5, RemoveTmpInv, TickInv DEF Next

LEMMA InvCorrect == Spec => []MapInv
  BY InitInv, NextInv, PTL DEF Spec

-----------------------------------------------------------------------------
(* The theorems *)

\* The maps, the pins and what every set command and the capture hold keep their types.
THEOREM TypeCorrect == Spec => []TypeOK
  BY InvCorrect, PTL DEF MapInv

\* Which steps write a map, and which moves the pin.
LEMMA Writers ==
    ASSUME Next
    PROVE  /\ maps' = maps \/ ParkPut
              \/ \E p \in Cli : AddPut(p) \/ Delete(p) \/ ResizeCreate(p) \/ CopyPut(p)
           /\ pin' = pin \/ \E p \in Cli : ResizeRename(p)
<1>1. ASSUME NEW p \in Cli, Add(p) PROVE (maps' = maps \/ AddPut(p)) /\ pin' = pin
  BY <1>1, Zenon DEF Add, AddOpen, AddLookup, AddPut
<1>2. ASSUME NEW p \in Cli, Del(p) PROVE (maps' = maps \/ Delete(p)) /\ pin' = pin
  BY <1>2, Zenon DEF Del, DelOpen, Delete
<1>3. ASSUME NEW p \in Cli, Resize(p)
      PROVE  /\ maps' = maps \/ ResizeCreate(p) \/ CopyPut(p)
             /\ pin' = pin \/ ResizeRename(p)
  <2>1. CASE (\E c \in Capacities : ResizeOpen(p, c)) \/ ResizeCount(p) \/ CopyNext(p)
    BY <2>1, Zenon DEF ResizeOpen, ResizeCount, CopyNext
  <2>2. CASE ResizeCreate(p)
    BY <2>2 DEF ResizeCreate
  <2>3. CASE CopyPut(p)
    BY <2>3 DEF CopyPut
  <2>4. CASE ResizePin(p) \/ ResizeRename(p) \/ ResizeCrash(p)
    BY <2>4 DEF ResizePin, ResizeRename, ResizeCrash
  <2> QED BY <1>3, <2>1, <2>2, <2>3, <2>4 DEF Resize
<1>4. CASE RemoveTmp \/ ReachCap
  BY <1>4 DEF RemoveTmp, ReachCap, unchangedByTick
<1>5. CASE Tick
  BY <1>5, ZenonT(60) DEF Tick, TickStart, TickSnap, TickDecide, ParkNext, ParkPut, ParkDone, unchangedByTick
<1> QED BY <1>1, <1>2, <1>3, <1>4, <1>5 DEF Next

LEMMA SwapKeeps ==
    ASSUME MapInv, Next
    PROVE  SwapKeepsEntries
<1> SUFFICES ASSUME NEW p \in Cli, pc[p] = "rename", pin' # pin, pc'[p] = "idle", NEW k \in Keys \ dirty[p]
             PROVE  maps[pin'].ent[k] = maps[at[p]].ent[k]
  BY ZenonT(60) DEF SwapKeepsEntries
<1>1. PICK q \in Cli : ResizeRename(q)
  BY Writers, Zenon
<1>2. p \in Procs /\ q \in Procs /\ TypeOK /\ Owns(p) /\ Copied(p)
  BY DEF Procs, MapInv
<1>3. p = q
  <2>1. q # p => pc'[p] = pc[p]
    BY <1>1, <1>2, Quits DEF ResizeRename
  <2> QED BY <2>1
<1>4. pin' = tmp
  BY <1>1 DEF ResizeRename
<1>5. Copying(p) /\ tmp = arg[p].new
  BY <1>2 DEF Copying, Owns
<1>6. CopiedKey(p, k, maps[at[p]].ent[k], maps[arg[p].new].ent[k])
  BY <1>2, <1>5 DEF Copied
<1> QED BY <1>4, <1>5, <1>6, ZenonT(60) DEF CopiedKey

LEMMA StaysInert ==
    ASSUME MapInv, Next
    PROVE  DeletedStaysInert
<1> SUFFICES ASSUME NEW m \in 1 .. Len(maps), NEW k \in Keys, maps[m].ent[k] = None,
                    maps'[m].ent[k] # None, maps'[m].ent[k].state = Active,
                    ~\E p \in Cli : pc[p] \in {"put", "copyput"}
             PROVE  FALSE
  BY DEF DeletedStaysInert
<1>1. TypeOK /\ maps \in Seq(Map) /\ Capture \in Procs /\ \A p \in Cli : p \in Procs
  BY Zenon DEF MapInv, TypeOK, Procs
<1>2. \A p \in Cli : ~AddPut(p) /\ ~CopyPut(p)
  BY DEF AddPut, CopyPut
<1>3. ASSUME NEW p \in Cli, Delete(p) PROVE FALSE
  <2>1. at[p] \in 1 .. Len(maps) /\ Command(p) /\ pc[p] = "delete" /\ None \in Entry
    BY <1>1, <1>3, Holds, EntryFacts DEF Delete
  <2>2. arg[p].k \in Keys
    BY <2>1 DEF Command
  <2>3. maps' = maps \/ Puts(at[p], arg[p].k, None)
    BY <1>3 DEF Delete, Touch, Puts
  <2>4. Puts(at[p], arg[p].k, None) =>
            \A n \in 1 .. Len(maps) : \A j \in Keys :
                maps'[n].ent[j] = IF n = at[p] /\ j = arg[p].k THEN None ELSE maps[n].ent[j]
    <3>1. Puts(at[p], arg[p].k, None) => Written(at[p], arg[p].k, None)
      BY <1>1, <2>1, <2>2, PutWrites, ZenonT(60)
    <3> QED BY <3>1, ZenonT(60) DEF Written
  <2> QED BY <2>3, <2>4, Zenon
<1>4. ASSUME NEW p \in Cli, ResizeCreate(p) PROVE FALSE
  <2>1. maps' = maps \/ maps' = Append(maps, [cap |-> arg[p].cap, ent |-> [j \in Keys |-> None]])
    BY <1>4 DEF ResizeCreate
  <2>2. maps'[m] = maps[m]
    BY <1>1, <2>1
  <2> QED BY <2>2, Zenon
<1>5. CASE ParkPut
  <2>1. /\ at[Capture] \in 1 .. Len(maps) /\ val[Capture] \in Entry
        /\ it[Capture].last \in Keys /\ val[Capture].state = Parked
    BY <1>1, <1>5, Holds, Zenon DEF ParkPut, MapInv, Parking
  <2>2. maps' = maps \/ Puts(at[Capture], it[Capture].last, val[Capture])
    BY <1>5 DEF ParkPut, Touch, Puts
  <2>3. Puts(at[Capture], it[Capture].last, val[Capture]) =>
            \A n \in 1 .. Len(maps) : \A j \in Keys :
                maps'[n].ent[j] = IF n = at[Capture] /\ j = it[Capture].last
                                  THEN val[Capture] ELSE maps[n].ent[j]
    <3>1. Puts(at[Capture], it[Capture].last, val[Capture])
              => Written(at[Capture], it[Capture].last, val[Capture])
      BY <1>1, <2>1, PutWrites, Zenon
    <3> QED BY <3>1, ZenonT(60) DEF Written
  <2>4. Parked # Active
    BY DEF Parked, Active, Store!Capped, Store!Active
  <2> QED BY <2>1, <2>2, <2>3, <2>4
<1>6. maps' # maps
  OBVIOUS
<1> QED BY <1>2, <1>3, <1>4, <1>5, <1>6, Writers

\* However set commands overlap, are killed, and meet the tick of a capture: a resize moves
\* only the map it filled itself, loses no entry that nobody wrote meanwhile, and SetState
\* brings no deleted entry back alive (Resize, copyEntries, SetState).
THEOREM OverlapCorrect == Spec => OverlapSafe
<1>1. MapInv /\ [Next]_vars => [RenamesOwnMap /\ SwapKeepsEntries /\ DeletedStaysInert]_vars
  <2> SUFFICES ASSUME MapInv, Next PROVE RenamesOwnMap /\ SwapKeepsEntries /\ DeletedStaysInert
    BY Zenon
  <2>1. RenamesOwnMap
    BY DEF MapInv, Owns, Copying, RenamesOwnMap
  <2> QED BY <2>1, SwapKeeps, StaysInert
<1> QED BY <1>1, InvCorrect, PTL DEF Spec, OverlapSafe

\* A put that found room leaves the map within its capacity.
LEMMA PutFits ==
    ASSUME MapInv, WithinCapacity, NEW m \in 1 .. Len(maps), NEW k \in Keys, NEW v \in Entry,
           v = None \/ Room(m, k), Puts(m, k, v)
    PROVE  WithinCapacity'
<1>1. maps \in Seq(Map) /\ \A n \in 1 .. Len(maps) : maps[n] \in Map
  BY DEF MapInv, TypeOK
<1>2. /\ Len(maps') = Len(maps)
      /\ \A n \in 1 .. Len(maps) : maps'[n].cap = maps[n].cap
      /\ \A n \in 1 .. Len(maps) : n # m => maps'[n] = maps[n]
      /\ \A n \in 1 .. Len(maps) : \A j \in Keys :
            maps'[n].ent[j] = IF n = m /\ j = k THEN v ELSE maps[n].ent[j]
  <2>1. Written(m, k, v)
    BY <1>1, PutWrites
  <2> QED BY <2>1, Zenon DEF Written
<1>3. \A n \in 1 .. Len(maps) : n # m => Present(n)' = Present(n)
  BY <1>2 DEF Present, None, Store!None
<1>4. Present(m)' \subseteq Present(m) \cup {k} /\ (v = None => Present(m)' \subseteq Present(m))
  BY <1>2 DEF Present, None, Store!None
<1>5. IsFiniteSet(Present(m)) /\ IsFiniteSet(Present(m) \cup {k})
  <2>1. Present(m) \subseteq Keys /\ Present(m) \cup {k} \subseteq Keys
    BY DEF Present
  <2> QED BY <2>1, FS_Subset, SetMapAssumption
<1>6. /\ Cardinality(Present(m)) \in Nat /\ Cardinality(Present(m) \cup {k}) \in Nat
      /\ Cardinality(Present(m)') \in Nat
      /\ Cardinality(Present(m)') <= Cardinality(Present(m) \cup {k})
      /\ v = None => Cardinality(Present(m)') <= Cardinality(Present(m))
  BY <1>4, <1>5, FS_Subset, FS_CardinalityType
<1>7. /\ k \in Present(m) => Present(m) \cup {k} = Present(m)
      /\ k \notin Present(m) => Cardinality(Present(m) \cup {k}) = Cardinality(Present(m)) + 1
  BY <1>5, FS_AddElement
<1>8. maps[m].cap \in Nat /\ Cardinality(Present(m)) <= maps[m].cap
  BY <1>1, SetMapAssumption, ZenonT(60) DEF Map, WithinCapacity
<1>9. Cardinality(Present(m)') <= maps[m].cap
  <2>1. CASE v = None
    BY <1>6, <1>8, <2>1
  <2>2. CASE k \in Present(m)
    <3>1. Cardinality(Present(m) \cup {k}) = Cardinality(Present(m))
      BY <1>7, <2>2, Zenon
    <3> QED BY <1>6, <1>8, <3>1
  <2>3. CASE k \notin Present(m) /\ Cardinality(Present(m)) < maps[m].cap
    <3>1. Cardinality(Present(m) \cup {k}) = Cardinality(Present(m)) + 1
      BY <1>7, <2>3, Zenon
    <3> QED BY <1>6, <1>8, <2>3, <3>1
  <2> QED BY <2>1, <2>2, <2>3 DEF Room
<1> QED BY <1>2, <1>3, <1>9 DEF WithinCapacity

LEMMA CapacityStep ==
    ASSUME MapInv, WithinCapacity, Next
    PROVE  WithinCapacity'
<1>0. TypeOK /\ maps \in Seq(Map) /\ Capture \in Procs /\ \A p \in Cli : p \in Procs
  BY DEF MapInv, TypeOK, Procs
<1>1. CASE maps' = maps
  BY <1>1, Zenon DEF WithinCapacity, Present, None, Store!None
<1>2. ASSUME NEW p \in Cli, AddPut(p) PROVE WithinCapacity'
  <2>1. at[p] \in 1 .. Len(maps) /\ val[p] \in Entry /\ arg[p].k \in Keys
    BY <1>0, <1>2, Holds, Zenon DEF AddPut, Command
  <2>2. maps' = maps \/ (Room(at[p], arg[p].k) /\ Puts(at[p], arg[p].k, val[p]))
    BY <1>2 DEF AddPut, Touch, Puts
  <2> QED BY <1>1, <2>1, <2>2, PutFits
<1>3. ASSUME NEW p \in Cli, Delete(p) PROVE WithinCapacity'
  <2>1. at[p] \in 1 .. Len(maps) /\ arg[p].k \in Keys /\ None \in Entry
    BY <1>0, <1>3, Holds, EntryFacts DEF Delete, Command
  <2>2. maps' = maps \/ Puts(at[p], arg[p].k, None)
    BY <1>3 DEF Delete, Touch, Puts
  <2> QED BY <1>1, <2>1, <2>2, PutFits
<1>4. ASSUME NEW p \in Cli, CopyPut(p) PROVE WithinCapacity'
  <2>1. Owns(p) /\ Copied(p) /\ val[p] \in Entry /\ pc[p] = "copyput"
    BY <1>0, <1>4, Holds DEF CopyPut
  <2>2. arg[p].new \in 1 .. Len(maps) /\ it[p].last \in Keys
    BY <2>1, Zenon DEF Owns, Copied, Copying
  <2>3. maps' = maps \/ (/\ Room(arg[p].new, it[p].last)
                         /\ Puts(arg[p].new, it[p].last, val[p]))
    BY <1>4 DEF CopyPut, Puts
  <2> QED BY <1>1, <2>1, <2>2, <2>3, PutFits
<1>5. CASE ParkPut
  <2>1. at[Capture] \in 1 .. Len(maps) /\ val[Capture] \in Entry /\ it[Capture].last \in Keys
    BY <1>0, <1>5, Holds, Zenon DEF ParkPut, MapInv, Parking
  <2>2. maps' = maps \/
        (/\ Room(at[Capture], it[Capture].last)
         /\ Puts(at[Capture], it[Capture].last, val[Capture]))
    BY <1>5 DEF ParkPut, Touch, Puts
  <2> QED BY <1>1, <2>1, <2>2, PutFits, ZenonT(60)
<1>6. ASSUME NEW p \in Cli, ResizeCreate(p) PROVE WithinCapacity'
  <2> DEFINE r == [cap |-> arg[p].cap, ent |-> [j \in Keys |-> None]]
  <2>1. maps' = maps \/ maps' = Append(maps, r)
    BY <1>6 DEF ResizeCreate
  <2>2. arg[p].cap \in Nat
    BY <1>0, <1>6, Holds, SetMapAssumption DEF ResizeCreate, Command
  <2>3. CASE maps' = Append(maps, r)
    <3>1. /\ Len(maps') = Len(maps) + 1 /\ maps'[Len(maps) + 1] = r
          /\ \A n \in 1 .. Len(maps) : maps'[n] = maps[n]
      BY <1>0, <2>3
    <3>2. \A n \in 1 .. Len(maps) : Present(n)' = Present(n)
      BY <3>1, ZenonT(60) DEF Present, None, Store!None
    <3>3. ASSUME NEW n, n = Len(maps) + 1 PROVE Present(n)' = {}
      <4>1. \A k \in Keys : maps'[n].ent[k] = None
        BY <3>1, <3>3
      <4> QED BY <4>1 DEF Present, None, Store!None
    <3>4. Cardinality({}) = 0
      BY FS_EmptySet
    <3>5. ASSUME NEW n \in 1 .. Len(maps')
          PROVE  Cardinality(Present(n)') <= maps'[n].cap
      <4>1. CASE n \in 1 .. Len(maps)
        BY <3>1, <3>2, <4>1 DEF WithinCapacity
      <4>2. CASE n = Len(maps) + 1
        <5>1. Present(n)' = {}
          BY <3>3, <4>2
        <5>2. maps'[n].cap = arg[p].cap
          <6>1. maps'[n] = r /\ r.cap = arg[p].cap
            BY <3>1, <4>2, Zenon
          <6> QED BY <6>1, Zenon
        <5> QED BY <2>2, <3>4, <5>1, <5>2
      <4> QED BY <1>0, <3>1, <3>5, <4>1, <4>2
    <3> QED BY <3>5 DEF WithinCapacity
  <2> QED BY <1>1, <2>1, <2>3
<1> QED BY <1>1, <1>2, <1>3, <1>4, <1>5, <1>6, Writers

\* Put refuses a new key of a full map, so that neither overlapping adds, a resize's copy
\* nor the tick's put of a deleted key takes a set past its max_entries.
THEOREM CapacityCorrect == Spec => []WithinCapacity
<1>1. Init => WithinCapacity
  <2> SUFFICES ASSUME Init PROVE WithinCapacity
    OBVIOUS
  <2>1. Len(maps) = 1 /\ Cardinality(Present(1)) <= maps[1].cap
    BY DEF Init
  <2> QED BY <2>1 DEF WithinCapacity
<1>2. MapInv /\ WithinCapacity /\ [Next]_vars => WithinCapacity'
  <2>1. CASE UNCHANGED vars
    BY <2>1 DEF vars, WithinCapacity, Present
  <2> QED BY <2>1, CapacityStep
<1> QED BY <1>1, <1>2, InvCorrect, PTL DEF Spec

-----------------------------------------------------------------------------
(* Commands that do not overlap *)

\* A process that is alone at work finds what it read: a command holds the map at the
\* path and nobody writes under it, and SetState's entry is still as it was read.
Settled(p) ==
    /\ p \in Cli /\ pc[p] # "idle" => at[p] = pin
    /\ pc[p] \in {"count", "stat", "copy", "copyput", "rename"} => dirty[p] = {}
    /\ pc[p] = "put" =>
          val[p] = Store!AddedOver(maps[at[p]].ent[arg[p].k], arg[p].t, arg[p].mb)
    /\ pc[p] = "parkput" =>
          /\ maps[at[p]].ent[it[p].last] # None
          /\ val[p] = [maps[at[p]].ent[it[p].last] EXCEPT !.state = Parked]

Undisturbed ==
    \A p \in Procs : Settled(p) /\ \A q \in Procs : q # p => pc[p] = "idle" \/ pc[q] = "idle"

\* The entries at the path do not change.
SameStore == maps'[pin'].ent = maps[pin].ent

\* One of them does.
StorePut(k, v) == maps'[pin'].ent = [maps[pin].ent EXCEPT ![k] = v]

LEMMA AtRest ==
    ASSUME NEW p, pc[p] = "idle"
    PROVE  Settled(p)
  BY DEF Settled

\* A process takes its turn while the others are idle.
LEMMA Turn ==
    ASSUME Undisturbed, NEW p \in Procs, pc[p] # "idle" \/ \A q \in Procs : pc[q] = "idle",
           \A q \in Procs : q # p => pc'[q] = pc[q], Settled(p)'
    PROVE  Undisturbed'
<1>1. \A q \in Procs : q # p => pc'[q] = "idle"
  BY DEF Undisturbed
<1>2. \A q \in Procs : q # p => Settled(q)'
  BY <1>1, Zenon DEF Settled
<1> QED BY <1>1, <1>2 DEF Undisturbed

LEMMA SerialOpens ==
    ASSUME Serial, MapInv, Undisturbed, NEW p \in Cli, NEW l \in {"lookup", "delete", "count"}, NEW a,
           Open(p, l, a), maps' = maps, pin' = pin, l = "count" => dirty'[p] = {}
    PROVE  Undisturbed' /\ SameStore
<1>1. /\ p \in Procs /\ pc \in [Procs -> Steps] /\ at \in [Procs -> 1 .. Len(maps)]
      /\ pc' = [pc EXCEPT ![p] = l] /\ at' = [at EXCEPT ![p] = pin]
      /\ \A q \in Procs : pc[q] = "idle"
  BY ZenonT(60) DEF Open, Goto, Procs, MapInv, TypeOK
<1>2. pc'[p] = l /\ at'[p] = pin' /\ \A q \in Procs : q # p => pc'[q] = pc[q]
  BY <1>1
<1>3. Settled(p)'
  BY <1>2 DEF Settled
<1> QED BY <1>1, <1>2, <1>3, Turn DEF SameStore

LEMMA SerialQuits ==
    ASSUME MapInv, Undisturbed, NEW p \in Cli, Quit(p), pc[p] # "idle"
    PROVE  Undisturbed'
<1>1. p \in Procs /\ pc'[p] = "idle" /\ \A q \in Procs : q # p => pc'[q] = pc[q]
  BY Quits, Zenon DEF MapInv, Procs
<1>2. Settled(p)'
  BY <1>1 DEF Settled
<1> QED BY <1>1, <1>2, Turn

\* A write in the map at the path, as a step of the store.
LEMMA StoreWrite ==
    ASSUME MapInv, NEW k \in Keys, NEW v \in Entry, NEW m \in 1 .. Len(maps),
           Puts(m, k, v), pin' = pin
    PROVE  (m = pin => StorePut(k, v)) /\ (m # pin => SameStore)
<1>1. maps \in Seq(Map) /\ pin \in 1 .. Len(maps)
  BY DEF MapInv, TypeOK
<1>2. maps'[m].ent = [maps[m].ent EXCEPT ![k] = v]
  <2>1. Written(m, k, v)
    BY <1>1, PutWrites, Zenon
  <2> QED BY <2>1, Zenon DEF Written
<1>3. \A n \in 1 .. Len(maps) : n # m => maps'[n] = maps[n]
  <2>1. Written(m, k, v)
    BY <1>1, PutWrites, Zenon
  <2> QED BY <2>1, Zenon DEF Written
<1> QED BY <1>1, <1>2, <1>3 DEF SameStore, StorePut

\* AddMany's lookup and put are one Add of the store.
LEMMA AddSerial ==
    ASSUME Serial, MapInv, Undisturbed, NEW p \in Cli, Add(p)
    PROVE  Undisturbed' /\ (SameStore \/ Store!Next)
<1>0. /\ p \in Procs /\ TypeOK /\ Command(p) /\ Settled(p) /\ at[p] \in 1 .. Len(maps)
      /\ val[p] \in Entry
  BY Holds DEF Procs, Undisturbed
<1>1. ASSUME NEW k \in Keys, NEW t \in Tags, NEW mb \in MaxBytes \cup {Store!Omitted}, AddOpen(p, k, t, mb)
      PROVE  Undisturbed' /\ SameStore
  BY <1>1, SerialOpens DEF AddOpen
<1>2. CASE AddLookup(p)
  <2>1. pc[p] = "lookup" /\ SameStore
    BY <1>2, Zenon DEF AddLookup, SameStore
  <2>2. CASE Quit(p)
    BY <2>1, <2>2, SerialQuits
  <2>3. CASE ~Quit(p)
    <3>1. /\ val' = [val EXCEPT ![p] = Store!AddedOver(maps[at[p]].ent[arg[p].k], arg[p].t, arg[p].mb)]
          /\ pc' = [pc EXCEPT ![p] = "put"] /\ UNCHANGED <<maps, pin, at, arg>>
      BY <1>2, <2>3, ZenonT(60) DEF AddLookup, Goto
    <3>2. /\ pc'[p] = "put" /\ \A q \in Procs : q # p => pc'[q] = pc[q]
          /\ val'[p] = Store!AddedOver(maps[at[p]].ent[arg[p].k], arg[p].t, arg[p].mb)
      BY <1>0, <3>1, ZenonT(60) DEF TypeOK
    <3>3. val'[p] = Store!AddedOver(maps'[at'[p]].ent[arg'[p].k], arg'[p].t, arg'[p].mb)
      BY <3>1, <3>2, Zenon
    <3>4. at'[p] = pin'
      BY <1>0, <2>1, <3>1 DEF Settled
    <3>5. Settled(p)'
      BY <3>2, <3>3, <3>4, Zenon DEF Settled, Store!AddedOver, Store!None, Store!Active, Store!Omitted
    <3> QED BY <1>0, <2>1, <3>2, <3>5, Turn
  <2> QED BY <2>2, <2>3
<1>3. CASE AddPut(p)
  <2>1. pc[p] = "put" /\ Quit(p) /\ pin' = pin
    BY <1>3 DEF AddPut
  <2>2. Undisturbed'
    BY <2>1, SerialQuits
  <2>3. /\ arg[p].k \in Keys /\ arg[p].t \in Tags /\ arg[p].mb \in MaxBytes \cup {Store!Omitted}
        /\ ~(arg[p].mb > 0 /\ arg[p].t = 0)
    BY <1>0, <2>1 DEF Command
  <2>4. at[p] = pin /\ val[p] = Store!AddedOver(maps[pin].ent[arg[p].k], arg[p].t, arg[p].mb)
    BY <1>0, <2>1 DEF Settled
  <2>5. CASE maps' = maps
    BY <2>1, <2>2, <2>5 DEF SameStore
  <2>6. CASE Puts(at[p], arg[p].k, val[p])
    <3>1. StorePut(arg[p].k, val[p])
      BY <1>0, <2>1, <2>3, <2>4, <2>6, StoreWrite, ZenonT(60)
    <3>2. Store!Add(arg[p].k, arg[p].t, arg[p].mb)
      BY <2>3, <2>4, <3>1, Zenon DEF Store!Add, StorePut
    <3> QED BY <2>2, <2>3, <3>2, ZenonT(60) DEF Store!Next
  <2> QED BY <1>3, <2>5, <2>6 DEF AddPut, Touch, Puts
<1> QED BY <1>1, <1>2, <1>3 DEF Add

LEMMA DelSerial ==
    ASSUME Serial, MapInv, Undisturbed, NEW p \in Cli, Del(p)
    PROVE  Undisturbed' /\ (SameStore \/ Store!Next)
<1>0. /\ p \in Procs /\ TypeOK /\ Command(p) /\ Settled(p) /\ at[p] \in 1 .. Len(maps)
  BY Holds DEF Procs, Undisturbed
<1>1. ASSUME NEW k \in Keys, DelOpen(p, k) PROVE Undisturbed' /\ SameStore
  BY <1>1, SerialOpens DEF DelOpen
<1>2. CASE Delete(p)
  <2>1. pc[p] = "delete" /\ pc' = [pc EXCEPT ![p] = "idle"] /\ pin' = pin
    BY <1>2 DEF Delete, Goto
  <2>2. arg[p].k \in Keys /\ at[p] = pin
    BY <1>0, <2>1 DEF Command, Settled
  <2>3. pc'[p] = "idle" /\ \A q \in Procs : q # p => pc'[q] = pc[q]
    BY <1>0, <2>1 DEF TypeOK
  <2>4. Undisturbed'
    <3>1. Settled(p)'
      BY <2>3 DEF Settled
    <3> QED BY <1>0, <2>1, <2>3, <3>1, Turn
  <2>5. CASE maps' = maps
    BY <2>1, <2>4, <2>5 DEF SameStore
  <2>6. CASE /\ arg[p].k \in Present(at[p])
             /\ Puts(at[p], arg[p].k, None)
    <3>1. StorePut(arg[p].k, None)
      BY <1>0, <2>1, <2>2, <2>6, EntryFacts, StoreWrite
    <3>2. Store!Del(arg[p].k)
      BY <2>2, <2>6, <3>1 DEF Store!Del, StorePut, Present, None
    <3> QED BY <2>2, <2>4, <3>2 DEF Store!Next
  <2> QED BY <1>2, <2>5, <2>6 DEF Delete, Touch, Puts
<1> QED BY <1>1, <1>2 DEF Del

\* A resize changes no entry at the path until its rename, which swaps in an equal map.
LEMMA ResizeSerial ==
    ASSUME Serial, MapInv, Undisturbed, NEW p \in Cli, Resize(p)
    PROVE  Undisturbed' /\ SameStore
<1>0. /\ p \in Procs /\ TypeOK /\ Owns(p) /\ Copied(p) /\ Settled(p) /\ at[p] \in 1 .. Len(maps)
      /\ val[p] \in Entry
  BY Holds DEF Procs, Undisturbed
<1>1. ASSUME NEW c \in Capacities, ResizeOpen(p, c) PROVE Undisturbed' /\ SameStore
  <2>1. dirty'[p] = {}
    BY <1>0, <1>1 DEF ResizeOpen, TypeOK
  <2> QED BY <1>1, <2>1, SerialOpens DEF ResizeOpen
\* The steps between the opening and the rename.
<1>2. ASSUME pc[p] \in {"count", "stat", "copy", "copyput"}, pin' = pin, at' = at, dirty' = dirty,
             NEW l \in {"count", "stat", "copy", "copyput", "rename"}, pc' = [pc EXCEPT ![p] = l]
      PROVE  Undisturbed'
  <2>1. pc'[p] = l /\ \A q \in Procs : q # p => pc'[q] = pc[q]
    BY <1>0, <1>2 DEF TypeOK
  <2>2. at[p] = pin /\ dirty[p] = {} /\ pc[p] # "idle"
    BY <1>0, <1>2 DEF Settled
  <2>3. Settled(p)'
    BY <1>2, <2>1, <2>2 DEF Settled
  <2> QED BY <1>0, <2>1, <2>2, <2>3, Turn
<1>3. CASE ResizeCount(p)
  <2>1. pc[p] = "count" /\ UNCHANGED <<maps, pin, at, dirty>>
    BY <1>3 DEF ResizeCount
  <2>2. SameStore
    BY <2>1 DEF SameStore
  <2>3. CASE pc' = pc
    <3>1. pc' = [pc EXCEPT ![p] = "count"]
      BY <1>0, <2>1, <2>3 DEF TypeOK
    <3> QED BY <1>2, <2>1, <2>2, <3>1
  <2>4. CASE pc' = [pc EXCEPT ![p] = "stat"]
    BY <1>2, <2>1, <2>2, <2>4
  <2>5. CASE Quit(p)
    BY <2>1, <2>2, <2>5, SerialQuits
  <2> QED BY <1>3, <2>3, <2>4, <2>5, ZenonT(60) DEF ResizeCount, Goto
<1>4. CASE ResizeCreate(p)
  <2>1. pc[p] = "stat" /\ UNCHANGED <<pin, at, dirty>>
    BY <1>4 DEF ResizeCreate
  <2>2. SameStore
    <3>1. maps' = maps \/ \E r : maps' = Append(maps, r)
      BY <1>4 DEF ResizeCreate
    <3>2. maps \in Seq(Map) /\ pin \in 1 .. Len(maps)
      BY <1>0 DEF TypeOK
    <3> QED BY <2>1, <3>1, <3>2 DEF SameStore
  <2>3. CASE Quit(p)
    BY <2>1, <2>2, <2>3, SerialQuits
  <2>4. CASE pc' = [pc EXCEPT ![p] = "copy"]
    BY <1>2, <2>1, <2>2, <2>4
  <2> QED BY <1>4, <2>3, <2>4 DEF ResizeCreate, Goto
<1>5. CASE CopyNext(p)
  <2>1. /\ pc[p] = "copy" /\ pc' = [pc EXCEPT ![p] = "copyput"] /\ UNCHANGED <<maps, pin, at, dirty>>
    BY <1>5 DEF CopyNext, Goto
  <2>2. SameStore
    BY <2>1 DEF SameStore
  <2> QED BY <1>2, <2>1, <2>2
<1>6. CASE CopyPut(p)
  <2>1. pc[p] = "copyput" /\ UNCHANGED <<pin, at, dirty>>
    BY <1>6 DEF CopyPut
  <2>2. arg[p].new \in 1 .. Len(maps) /\ arg[p].new # pin /\ it[p].last \in Keys
    BY <1>0, <2>1, Zenon DEF Owns, Copied, Copying
  <2>3. maps' = maps \/ Puts(arg[p].new, it[p].last, val[p])
    BY <1>6 DEF CopyPut, Puts
  <2>4. SameStore
    <3>1. CASE maps' = maps
      BY <2>1, <3>1 DEF SameStore
    <3>2. CASE Puts(arg[p].new, it[p].last, val[p])
      BY <1>0, <2>1, <2>2, <3>2, StoreWrite, ZenonT(60)
    <3> QED BY <2>3, <3>1, <3>2
  <2>5. CASE Quit(p)
    BY <2>1, <2>4, <2>5, SerialQuits
  <2>6. CASE pc' = [pc EXCEPT ![p] = "copy"]
    BY <1>2, <2>1, <2>4, <2>6
  <2> QED BY <1>6, <2>5, <2>6 DEF CopyPut, Goto
<1>7. CASE ResizePin(p)
  <2>1. pc[p] = "copy" /\ UNCHANGED <<maps, pin, at, dirty>>
    BY <1>7 DEF ResizePin
  <2>2. SameStore
    BY <2>1 DEF SameStore
  <2>3. CASE Quit(p)
    BY <2>1, <2>2, <2>3, SerialQuits
  <2>4. CASE pc' = [pc EXCEPT ![p] = "rename"]
    BY <1>2, <2>1, <2>2, <2>4
  <2> QED BY <1>7, <2>3, <2>4 DEF ResizePin, Goto
<1>8. CASE ResizeRename(p)
  <2>1. pc[p] = "rename" /\ Quit(p) /\ maps' = maps /\ pin' \in {pin, tmp}
    BY <1>8 DEF ResizeRename
  <2>2. Undisturbed'
    BY <2>1, SerialQuits
  <2>3. at[p] = pin /\ dirty[p] = {} /\ Copying(p)
    BY <1>0, <2>1 DEF Settled, Copying
  <2>4. tmp = arg[p].new /\ arg[p].new \in 1 .. Len(maps)
    BY <1>0, <2>1, <2>3, ZenonT(60) DEF Owns
  <2>5. \A k \in Keys : maps[tmp].ent[k] = maps[pin].ent[k]
    <3>1. \A k \in Keys : CopiedKey(p, k, maps[at[p]].ent[k], maps[arg[p].new].ent[k])
      BY <1>0, <2>3, Zenon DEF Copied
    <3> QED BY <2>1, <2>3, <2>4, <3>1, ZenonT(60) DEF CopiedKey
  <2>6. maps[tmp] \in Map /\ maps[pin] \in Map
    BY <1>0, <2>3, <2>4 DEF TypeOK
  <2>7. maps[tmp].ent = maps[pin].ent
    <3>1. maps[tmp].ent \in [Keys -> Entry] /\ maps[pin].ent \in [Keys -> Entry]
      BY <2>6 DEF Map
    <3> QED BY <2>5, <3>1
  <2>8. SameStore
    BY <2>1, <2>7 DEF SameStore
  <2> QED BY <2>2, <2>8
<1>9. CASE ResizeCrash(p)
  <2>1. pc[p] # "idle" /\ Quit(p) /\ UNCHANGED <<maps, pin>>
    BY <1>9 DEF ResizeCrash
  <2> QED BY <2>1, SerialQuits DEF SameStore
<1> QED BY <1>1, <1>3, <1>4, <1>5, <1>6, <1>7, <1>8, <1>9 DEF Resize

\* SetState's read and put of an entry are one SetState of the store.
LEMMA TickSerial ==
    ASSUME Serial, MapInv, Undisturbed, Tick
    PROVE  Undisturbed' /\ (SameStore \/ Store!Next)
<1>0. /\ Capture \in Procs /\ Capture \notin Cli /\ TypeOK /\ Settled(Capture) /\ Parking
      /\ at[Capture] \in 1 .. Len(maps) /\ val[Capture] \in Entry
  BY SetMapAssumption, Holds, ZenonT(60) DEF Procs, Undisturbed, MapInv
<1>1. ASSUME NEW l \in {"idle", "snap", "park"}, pc' = [pc EXCEPT ![Capture] = l],
             pc[Capture] # "idle" \/ \A q \in Procs : pc[q] = "idle"
      PROVE  Undisturbed'
  <2>1. pc'[Capture] = l /\ \A q \in Procs : q # Capture => pc'[q] = pc[q]
    BY <1>0, <1>1 DEF TypeOK
  <2>2. Settled(Capture)'
    BY <1>0, <2>1, Zenon DEF Settled
  <2> QED BY <1>0, <1>1, <2>1, <2>2, Turn, ZenonT(60)
<1>2. CASE TickStart
  <2>1. /\ pc' = [pc EXCEPT ![Capture] = "snap"] /\ UNCHANGED <<maps, pin>>
        /\ \A q \in Procs : pc[q] = "idle"
    BY <1>2 DEF TickStart, Goto, Procs, unchangedByTick
  <2> QED BY <1>1, <2>1 DEF SameStore
<1>3. CASE TickSnap
  <2>1. pc[Capture] = "snap" /\ UNCHANGED <<maps, pin, pc>>
    BY <1>3 DEF TickSnap, unchangedByTick
  <2>2. pc' = [pc EXCEPT ![Capture] = "snap"]
    BY <1>0, <2>1 DEF TypeOK
  <2> QED BY <1>1, <2>1, <2>2, Zenon DEF SameStore
<1>4. CASE TickDecide \/ ParkDone
  <2>1. /\ pc[Capture] # "idle" /\ UNCHANGED <<maps, pin>>
        /\ pc' = [pc EXCEPT ![Capture] = "park"] \/ pc' = [pc EXCEPT ![Capture] = "idle"]
    BY <1>4 DEF TickDecide, ParkDone, Goto, unchangedByTick
  <2> QED BY <1>1, <2>1 DEF SameStore
<1>5. CASE ParkNext
  <2>1. pc[Capture] = "park" /\ UNCHANGED <<maps, pin, at>>
    BY <1>5 DEF ParkNext, unchangedByTick
  <2>2. PICK k \in Keys :
            /\ Visits(Capture, at[Capture], k)
            /\ IF maps[at[Capture]].ent[k].tag = CapTag /\ maps[at[Capture]].ent[k].state # Parked
               THEN /\ val' = [val EXCEPT ![Capture] = [maps[at[Capture]].ent[k] EXCEPT !.state = Parked]]
                    /\ pc' = [pc EXCEPT ![Capture] = "parkput"]
               ELSE UNCHANGED <<val, pc>>
    BY <1>5 DEF ParkNext, Goto
  <2>3. CASE pc' = pc
    <3>1. pc' = [pc EXCEPT ![Capture] = "park"]
      BY <1>0, <2>1, <2>3 DEF TypeOK
    <3> QED BY <1>1, <2>1, <3>1 DEF SameStore
  <2>4. CASE /\ val' = [val EXCEPT ![Capture] = [maps[at[Capture]].ent[k] EXCEPT !.state = Parked]]
             /\ pc' = [pc EXCEPT ![Capture] = "parkput"]
    <3>1. it'[Capture].last = k /\ maps[at[Capture]].ent[k] # None
      <4>1. it'[Capture].last = k
        BY <1>0, <2>2, WalkStep
      <4> QED BY <2>2, <4>1, Zenon DEF Visits, Present
    <3>2. /\ val'[Capture] = [maps[at[Capture]].ent[k] EXCEPT !.state = Parked]
          /\ pc'[Capture] = "parkput" /\ \A q \in Procs : q # Capture => pc'[q] = pc[q]
      BY <1>0, <2>4 DEF TypeOK
    <3>3. Settled(Capture)'
      BY <1>0, <2>1, <3>1, <3>2 DEF Settled, None, Store!None, Parked, Store!Capped
    <3>4. Undisturbed'
      BY <1>0, <2>1, <3>2, <3>3, Turn
    <3> QED BY <2>1, <3>4 DEF SameStore
  <2> QED BY <2>2, <2>3, <2>4
<1>6. CASE ParkPut
  <2> DEFINE k == it[Capture].last
             m == at[Capture]
  <2>1. /\ pc[Capture] = "parkput" /\ pin' = pin
        /\ pc' = [pc EXCEPT ![Capture] = "park"] \/ pc' = [pc EXCEPT ![Capture] = "idle"]
    BY <1>6 DEF ParkPut, Goto, unchangedByTick
  <2>2. Undisturbed'
    BY <1>1, <2>1
  <2>3. k \in Keys /\ maps[m].ent[k] # None /\ val[Capture] = [maps[m].ent[k] EXCEPT !.state = Parked]
    BY <1>0, <2>1 DEF Parking, Settled
  <2>4. maps' = maps \/ Puts(m, k, val[Capture])
    BY <1>6 DEF ParkPut, Touch, Puts
  <2>5. CASE maps' = maps
    BY <2>1, <2>2, <2>5 DEF SameStore
  <2>6. CASE Puts(m, k, val[Capture])
    <3>1. (m = pin => StorePut(k, val[Capture])) /\ (m # pin => SameStore)
      <4> HIDE DEF k, m
      <4>1. m \in 1 .. Len(maps) /\ val[Capture] \in Entry /\ pin' = pin /\ k \in Keys
        BY <1>0, <2>1, <2>3 DEF m
      <4> QED BY <2>6, <4>1, StoreWrite, Zenon
    <3>2. ASSUME m = pin PROVE Store!SetState(k, Store!Capped)
      <4>1. maps'[pin'].ent = [maps[pin].ent EXCEPT ![k].state = Store!Capped]
        BY <2>3, <3>1, <3>2 DEF Parked, StorePut
      <4>2. maps[pin].ent[k] # Store!None
        BY <2>3, <3>2 DEF None
      <4> QED BY <4>1, <4>2 DEF Store!SetState
    <3>3. m = pin => Store!Next
      BY <2>3, <3>2 DEF Store!Next
    <3> QED BY <2>2, <3>1, <3>3
  <2> QED BY <2>4, <2>5, <2>6, Zenon
<1> QED BY <1>2, <1>3, <1>4, <1>5, <1>6 DEF Tick

\* While commands do not overlap, an add's lookup and put, a delete, and SetState's read
\* and put each have the effect of one step on the entries at the path, and a resize,
\* killed or not, has none (AddMany, DeleteMany, SetState, Resize).
THEOREM SerialImplements ==
    ASSUME Serial
    PROVE  Spec => StoreSpec
<1>1. Init => Store!Init /\ Undisturbed
  <2> SUFFICES ASSUME Init PROVE Store!Init /\ Undisturbed
    OBVIOUS
  <2>1. \A p \in Procs : pc[p] = "idle"
    BY DEF Init
  <2>2. PICK e \in [Keys -> {None} \cup {x \in Store!Entries : x.state = Active}], c \in Capacities :
            maps = <<[cap |-> c, ent |-> e]>>
    BY DEF Init
  <2>3. maps[pin].ent = e
    BY <2>2 DEF Init
  <2> QED BY <2>1, <2>3, AtRest DEF Undisturbed, Store!Init, None, Active
<1>2. MapInv /\ Undisturbed /\ [Next]_vars => Undisturbed' /\ [Store!Next]_(maps[pin].ent)
  <2> SUFFICES ASSUME MapInv, Undisturbed, [Next]_vars
               PROVE  Undisturbed' /\ (SameStore \/ Store!Next)
    BY DEF SameStore
  <2>1. ASSUME NEW p \in Cli, Add(p) \/ Del(p) \/ Resize(p)
        PROVE  Undisturbed' /\ (SameStore \/ Store!Next)
    BY <2>1, AddSerial, DelSerial, ResizeSerial
  <2>2. CASE RemoveTmp \/ ReachCap \/ UNCHANGED vars
    <3>1. UNCHANGED <<maps, pin, pc, at, arg, val, it, dirty>>
      BY <2>2 DEF RemoveTmp, ReachCap, vars, unchangedByTick
    <3>2. \A p \in Procs : Settled(p) => Settled(p)'
      BY <3>1, ZenonT(60) DEF Settled, None, Store!None, Parked, Store!Capped, Store!AddedOver,
                              Store!Active, Store!Omitted
    <3> QED BY <3>1, <3>2 DEF Undisturbed, SameStore
  <2>3. CASE Tick
    BY <2>3, TickSerial
  <2> QED BY <2>1, <2>2, <2>3 DEF Next
<1> QED BY <1>1, <1>2, InvCorrect, PTL DEF Spec, StoreSpec, Store!Spec
=============================================================================
