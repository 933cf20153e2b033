------------------------------- MODULE SetMap -------------------------------
(* Pinned match sets (internal/setmap/ops.go): the `set add`, `set del` and   *)
(* `set resize` commands, each a process that opens the pinned map, and the   *)
(* once-a-second tick of a running capture, which holds the map it opened at  *)
(* attach time, reads every entry and rewrites the state of a capped tag.     *)
(* Nothing locks: a command is a sequence of map operations.                  *)
EXTENDS Integers, Sequences, FiniteSets

CONSTANTS
    Keys, Tags, MaxBytes,
    Cli,              \* set commands that run at the same time
    Capture,          \* the capture process
    CapTag,           \* the tag whose byte cap the capture reaches
    Capacities,       \* max_entries a resize may ask for
    Serial,           \* TRUE: commands do not overlap
    MaxCmds           \* bound: commands run

ASSUME SetMapAssumption ==
    /\ IsFiniteSet(Keys) /\ IsFiniteSet(Cli) /\ Capture \notin Cli
    /\ Tags \subseteq Nat /\ MaxBytes \subseteq Nat /\ 0 \in MaxBytes
    /\ CapTag \in Tags \ {0} /\ Capacities \subseteq Nat \ {0}
    /\ Serial \in BOOLEAN /\ MaxCmds \in Nat

VARIABLES
    maps,             \* every map ever created: [cap, ent]
    pin, tmp,         \* the map pinned at the path and at path_resize_tmp (0: none)
    pc, at, arg,      \* per process: step, map held, arguments
    val,              \* the value read or about to be written
    it,               \* iteration: keys seen, keys there since it began, last key
    cmds,             \* commands started
    capped, active,   \* the capture: CapTag reached its cap; snapshot saw it active
    dirty             \* per resize: keys some process wrote since it opened the map

vars == <<maps, pin, tmp, pc, at, arg, val, it, cmds, capped, active, dirty>>
Procs == Cli \cup {Capture}

\* The entry layout and the value an add computes are those of the store.
Store == INSTANCE SetStore WITH store <- maps[pin].ent
None == Store!None
Active == Store!Active
Parked == Store!Capped
NoArg == [k |-> "none", t |-> 0, mb |-> 0, new |-> 0, cap |-> 0]
Rest == [seen |-> {}, base |-> {}, last |-> "none"]

Present(m) == {k \in Keys : maps[m].ent[k] # None}

Init ==
    /\ \E e \in [Keys -> {None} \cup {x \in Store!Entries : x.state = Active}],
          c \in Capacities :
        maps = <<[cap |-> c, ent |-> e]>> /\ Cardinality(Present(1)) <= c
    /\ pin = 1 /\ tmp = 0
    /\ pc = [p \in Procs |-> "idle"] /\ at = [p \in Procs |-> 1]
    /\ arg = [p \in Procs |-> NoArg] /\ val = [p \in Procs |-> None]
    /\ it = [p \in Procs |-> Rest]
    /\ cmds = 0 /\ capped = FALSE /\ active = FALSE
    /\ dirty = [p \in Procs |-> {}]

-----------------------------------------------------------------------------
(* Map operations of the kernel: put, delete, walk *)

\* Everybody's view of a write of key k in map m.
Touch(m, k, v) ==
    /\ maps' = [maps EXCEPT ![m].ent[k] = v]
    /\ dirty' = [p \in Procs |-> dirty[p] \cup {k}]

\* The iterations that run over map m when k is deleted from it.
Shrunk(m, k) ==
    [p \in Procs |-> IF at[p] = m THEN [it[p] EXCEPT !.base = @ \ {k}] ELSE it[p]]

Room(m, k) == k \in Present(m) \/ Cardinality(Present(m)) < maps[m].cap

\* A walk starts, visits an entry not seen yet, or starts over because the entry it
\* was at has been deleted; it ends once it saw every entry that was there all along.
Started(m) == [seen |-> {}, base |-> Present(m), last |-> "none"]
Visits(p, m, k) ==
    /\ k \in Present(m)
    /\ \/ /\ k \notin it[p].seen
          /\ it' = [it EXCEPT ![p].seen = @ \cup {k}, ![p].last = k]
       \/ /\ it[p].last \in Keys \ Present(m)
          /\ it' = [it EXCEPT ![p].seen = {k}, ![p].last = k]
Walked(p) == it[p].base \subseteq it[p].seen

Goto(p, l) == pc' = [pc EXCEPT ![p] = l]

Quit(p) ==
    /\ Goto(p, "idle")
    /\ arg' = [arg EXCEPT ![p] = NoArg] /\ val' = [val EXCEPT ![p] = None]
    /\ it' = [it EXCEPT ![p] = Rest]

\* setOpen: a command starts by opening the map at the path.
Open(p, l, a) ==
    /\ pc[p] = "idle" /\ cmds < MaxCmds
    /\ Serial => \A q \in Procs : pc[q] = "idle"
    /\ cmds' = cmds + 1
    /\ Goto(p, l) /\ at' = [at EXCEPT ![p] = pin]
    /\ arg' = [arg EXCEPT ![p] = a]

-----------------------------------------------------------------------------
(* set add and set del *)

AddOpen(p, k, t, mb) ==
    /\ ~(mb > 0 /\ t = 0)
    /\ Open(p, "lookup", [NoArg EXCEPT !.k = k, !.t = t, !.mb = mb])
    /\ UNCHANGED <<maps, pin, tmp, val, it, capped, active, dirty>>

\* Mutant: an update starts active.
AddLookupFresh(p) ==
    /\ pc[p] = "lookup"
    /\ val' = [val EXCEPT ![p] = Store!AddedOver(None, arg[p].t, arg[p].mb)]
    /\ Goto(p, "put")
    /\ UNCHANGED <<maps, pin, tmp, at, arg, it, cmds, capped, active, dirty>>

\* The lookup that keeps state and cap; a failed one ends the command.
AddLookup(p) ==
    /\ pc[p] = "lookup"
    /\ \/ /\ val' = [val EXCEPT ![p] = Store!AddedOver(maps[at[p]].ent[arg[p].k], arg[p].t, arg[p].mb)]
          /\ Goto(p, "put")
          /\ UNCHANGED <<arg, it>>
       \/ Quit(p)
    /\ UNCHANGED <<maps, pin, tmp, at, cmds, capped, active, dirty>>

\* A full map refuses a new key.
AddPut(p) ==
    /\ pc[p] = "put"
    /\ IF Room(at[p], arg[p].k)
       THEN Touch(at[p], arg[p].k, val[p])
       ELSE UNCHANGED <<maps, dirty>>
    /\ Quit(p)
    /\ UNCHANGED <<pin, tmp, at, cmds, capped, active>>

DelOpen(p, k) ==
    /\ Open(p, "delete", [NoArg EXCEPT !.k = k])
    /\ UNCHANGED <<maps, pin, tmp, val, it, capped, active, dirty>>

Delete(p) ==
    /\ pc[p] = "delete"
    /\ IF arg[p].k \in Present(at[p])
       THEN Touch(at[p], arg[p].k, None)
       ELSE UNCHANGED <<maps, dirty>>
    /\ it' = [Shrunk(at[p], arg[p].k) EXCEPT ![p] = Rest]
    /\ Goto(p, "idle") /\ arg' = [arg EXCEPT ![p] = NoArg] /\ UNCHANGED val
    /\ UNCHANGED <<pin, tmp, at, cmds, capped, active>>

-----------------------------------------------------------------------------
(* set resize *)

\* Equal capacities: nothing to do.
ResizeOpen(p, c) ==
    /\ c # maps[pin].cap
    /\ Open(p, "count", [NoArg EXCEPT !.cap = c])
    /\ it' = [it EXCEPT ![p] = Started(pin)]
    /\ dirty' = [dirty EXCEPT ![p] = {}]
    /\ UNCHANGED <<maps, pin, tmp, val, capped, active>>

ResizeCount(p) ==
    /\ pc[p] = "count"
    /\ \/ \E k \in Keys : Visits(p, at[p], k) /\ UNCHANGED <<pc, arg, val>>
       \/ /\ Walked(p) /\ Cardinality(it[p].seen) <= arg[p].cap
          /\ Goto(p, "stat") /\ UNCHANGED <<arg, val, it>>
       \/ /\ Walked(p) /\ Cardinality(it[p].seen) > arg[p].cap
          /\ Quit(p)
    /\ UNCHANGED <<maps, pin, tmp, at, cmds, capped, active, dirty>>

\* A temporary pin ends the command; otherwise the new map is created.
ResizeCreate(p) ==
    /\ pc[p] = "stat"
    /\ IF tmp # 0
       THEN Quit(p) /\ UNCHANGED maps
       ELSE /\ maps' = Append(maps, [cap |-> arg[p].cap, ent |-> [k \in Keys |-> None]])
            /\ arg' = [arg EXCEPT ![p].new = Len(maps) + 1]
            /\ it' = [it EXCEPT ![p] = Started(at[p])]
            /\ Goto(p, "copy") /\ UNCHANGED val
    /\ UNCHANGED <<pin, tmp, at, cmds, capped, active, dirty>>

\* copyEntries: one entry at a time; a put that does not fit ends the command.
CopyNext(p) ==
    /\ pc[p] = "copy"
    /\ \E k \in Keys :
        /\ Visits(p, at[p], k)
        /\ val' = [val EXCEPT ![p] = maps[at[p]].ent[k]]
    /\ Goto(p, "copyput")
    /\ UNCHANGED <<maps, pin, tmp, at, arg, cmds, capped, active, dirty>>

CopyPut(p) ==
    LET m == arg[p].new IN
    /\ pc[p] = "copyput"
    /\ IF Room(m, it[p].last)
       THEN /\ maps' = [maps EXCEPT ![m].ent[it[p].last] = val[p]]
            /\ Goto(p, "copy") /\ UNCHANGED <<arg, val, it>>
       ELSE Quit(p) /\ UNCHANGED maps
    /\ UNCHANGED <<pin, tmp, at, cmds, capped, active, dirty>>

\* Pin fails when the temporary name exists by now.
ResizePin(p) ==
    /\ pc[p] = "copy" /\ Walked(p)
    /\ IF tmp = 0
       THEN tmp' = arg[p].new /\ Goto(p, "rename") /\ UNCHANGED <<arg, val, it>>
       ELSE Quit(p) /\ UNCHANGED tmp
    /\ UNCHANGED <<maps, pin, at, cmds, capped, active, dirty>>

\* rename(2) replaces the pin; when it fails the temporary pin is removed, which may
\* fail as well.
ResizeRename(p) ==
    /\ pc[p] = "rename"
    /\ \/ pin' = tmp /\ tmp' = 0
       \/ UNCHANGED pin /\ tmp' \in {0, tmp}
    /\ Quit(p)
    /\ UNCHANGED <<maps, at, cmds, capped, active, dirty>>

\* The command is killed.  Somebody removes the temporary pin it left.
ResizeCrash(p) ==
    /\ pc[p] \in {"count", "stat", "copy", "copyput", "rename"}
    /\ Quit(p)
    /\ UNCHANGED <<maps, pin, tmp, at, cmds, capped, active, dirty>>

RemoveTmp ==
    /\ tmp # 0 /\ \A p \in Cli : pc[p] \notin {"copy", "copyput", "rename"}
    /\ tmp' = 0
    /\ UNCHANGED <<maps, pin, pc, at, arg, val, it, cmds, capped, active, dirty>>

-----------------------------------------------------------------------------
(* capLifecycle.tick: snapshot, then park the capped tag if it is active *)

unchangedByTick == <<pin, tmp, at, arg, cmds>>

ReachCap ==
    /\ ~capped /\ capped' = TRUE
    /\ UNCHANGED <<maps, pc, val, it, active, dirty, unchangedByTick>>

\* unionTagInfos: a walk; the last record of the tag's state seen is what counts.
TickStart ==
    /\ pc[Capture] = "idle" /\ capped
    /\ Serial => \A q \in Cli : pc[q] = "idle"
    /\ Goto(Capture, "snap") /\ active' = FALSE
    /\ it' = [it EXCEPT ![Capture] = Started(at[Capture])]
    /\ UNCHANGED <<maps, val, capped, dirty, unchangedByTick>>

\* Mutant: the last entry walked decides whether the tag has an active one.
TickSnapLast ==
    /\ pc[Capture] = "snap"
    /\ \E k \in Keys :
        /\ Visits(Capture, at[Capture], k)
        /\ LET e == maps[at[Capture]].ent[k]
           IN active' = (e.tag = CapTag /\ e.state = Active)
    /\ UNCHANGED <<maps, pc, val, capped, dirty, unchangedByTick>>

TickSnap ==
    /\ pc[Capture] = "snap"
    /\ \E k \in Keys :
        /\ Visits(Capture, at[Capture], k)
        /\ LET e == maps[at[Capture]].ent[k]
           IN active' = (active \/ (e.tag = CapTag /\ e.state = Active))
    /\ UNCHANGED <<maps, pc, val, capped, dirty, unchangedByTick>>

\* A tag whose entries are parked already is left alone.
TickDecide ==
    /\ pc[Capture] = "snap" /\ Walked(Capture)
    /\ IF active
       THEN /\ Goto(Capture, "park")
            /\ it' = [it EXCEPT ![Capture] = Started(at[Capture])]
       ELSE Goto(Capture, "idle") /\ it' = [it EXCEPT ![Capture] = Rest]
    /\ UNCHANGED <<maps, val, capped, active, dirty, unchangedByTick>>

\* SetState reads an entry of the tag, and puts it back with the new state.
ParkNext ==
    /\ pc[Capture] = "park"
    /\ \E k \in Keys :
        LET e == maps[at[Capture]].ent[k] IN
        /\ Visits(Capture, at[Capture], k)
        /\ IF e.tag = CapTag /\ e.state # Parked
           THEN /\ val' = [val EXCEPT ![Capture] = [e EXCEPT !.state = Parked]]
                /\ Goto(Capture, "parkput")
           ELSE UNCHANGED <<val, pc>>
    /\ UNCHANGED <<maps, capped, active, dirty, unchangedByTick>>

\* Mutant: the entry is put back as it was read.
ParkPutAsRead ==
    /\ pc[Capture] = "parkput"
    /\ IF Room(at[Capture], it[Capture].last)
       THEN Touch(at[Capture], it[Capture].last, [val[Capture] EXCEPT !.state = Active])
       ELSE UNCHANGED <<maps, dirty>>
    /\ Goto(Capture, "park") /\ val' = [val EXCEPT ![Capture] = None]
    /\ UNCHANGED <<it, capped, active, unchangedByTick>>

\* A put of a deleted key can meet a full map, which ends the pass.
ParkPut ==
    /\ pc[Capture] = "parkput"
    /\ val' = [val EXCEPT ![Capture] = None]
    /\ IF Room(at[Capture], it[Capture].last)
       THEN /\ Touch(at[Capture], it[Capture].last, val[Capture])
            /\ Goto(Capture, "park") /\ UNCHANGED it
       ELSE /\ Goto(Capture, "idle") /\ it' = [it EXCEPT ![Capture] = Rest]
            /\ UNCHANGED <<maps, dirty>>
    /\ UNCHANGED <<capped, active, unchangedByTick>>

ParkDone ==
    /\ pc[Capture] = "park" /\ Walked(Capture)
    /\ Goto(Capture, "idle") /\ it' = [it EXCEPT ![Capture] = Rest]
    /\ UNCHANGED <<maps, val, capped, active, dirty, unchangedByTick>>

-----------------------------------------------------------------------------

Add(p) ==
    \/ \E k \in Keys, t \in Tags, mb \in MaxBytes \cup {Store!Omitted} : AddOpen(p, k, t, mb)
    \/ AddLookup(p) \/ AddPut(p)
Del(p) == (\E k \in Keys : DelOpen(p, k)) \/ Delete(p)
Resize(p) ==
    \/ \E c \in Capacities : ResizeOpen(p, c)
    \/ ResizeCount(p) \/ ResizeCreate(p) \/ CopyNext(p) \/ CopyPut(p)
    \/ ResizePin(p) \/ ResizeRename(p) \/ ResizeCrash(p)
Tick == TickStart \/ TickSnap \/ TickDecide \/ ParkNext \/ ParkPut \/ ParkDone

Next ==
    \/ \E p \in Cli : Add(p) \/ Del(p) \/ Resize(p)
    \/ RemoveTmp \/ ReachCap \/ Tick

Spec == Init /\ [][Next]_vars

\* The tick runs once a second, and a command that is started goes on.
Fairness ==
    /\ WF_vars(Tick)
    /\ \A p \in Cli : WF_vars(pc[p] # "idle" /\ (Add(p) \/ Del(p) \/ Resize(p)))

-----------------------------------------------------------------------------
(* Properties *)

Entry == Store!Entries \cup {None}
Map == [cap : Capacities, ent : [Keys -> Entry]]
Arg == [k : Keys \cup {"none"}, t : Tags \cup {0}, mb : MaxBytes \cup {Store!Omitted, 0}, new : Nat,
        cap : Capacities \cup {0}]
Walk == [seen : SUBSET Keys, base : SUBSET Keys, last : Keys \cup {"none"}]
Steps == {"idle", "lookup", "put", "delete", "count", "stat", "copy", "copyput", "rename", "snap", "park",
          "parkput"}

\* The maps, the pins and what each process holds keep their types.
TypeOK ==
    /\ maps \in Seq(Map) /\ pin \in 1 .. Len(maps) /\ tmp \in 0 .. Len(maps)
    /\ pc \in [Procs -> Steps] /\ at \in [Procs -> 1 .. Len(maps)]
    /\ arg \in [Procs -> Arg] /\ val \in [Procs -> Entry] /\ it \in [Procs -> Walk]
    /\ cmds \in 0 .. MaxCmds /\ capped \in BOOLEAN /\ active \in BOOLEAN
    /\ dirty \in [Procs -> SUBSET Keys]

\* No map ever holds more entries than its capacity.
WithinCapacity == \A m \in 1 .. Len(maps) : Cardinality(Present(m)) <= maps[m].cap

\* Of resizes that run at the same time, or after one was killed, each moves only the map
\* it filled itself: the check for the temporary pin and Pin's refusal of an existing
\* name leave no other map there.
RenamesOwnMap == \A p \in Cli : pc[p] = "rename" => tmp = arg[p].new

\* Resize: when the pin moves to the resized map, every key that nobody wrote since the
\* command opened the old map has in the new one the entry it has in the old one.
SwapKeepsEntries ==
    \A p \in Cli : pc[p] = "rename" /\ pin' # pin /\ pc'[p] = "idle" =>
        \A k \in Keys \ dirty[p] : maps[pin'].ent[k] = maps[at[p]].ent[k]

\* SetState may bring back an entry that was deleted while it rewrote it, but only parked:
\* an entry becomes active where there was none only when it is added or copied.
DeletedStaysInert ==
    \A m \in 1 .. Len(maps), k \in Keys :
        (maps[m].ent[k] = None /\ maps'[m].ent[k] # None /\ maps'[m].ent[k].state = Active)
            => \E p \in Cli : pc[p] \in {"put", "copyput"}

\* What overlapping commands and a capture that parks entries may never do to a set: lose
\* an untouched entry in a resize, move a map another resize filled, or revive a deleted
\* entry (Resize, SetState).
OverlapSafe == [][RenamesOwnMap /\ SwapKeepsEntries /\ DeletedStaysInert]_vars

\* tick: however adds, deletes and resizes interleave with it, the entries of a capped tag
\* end up parked in the map the capture uses (set commands come to an end).
ParkHeals ==
    <>[](capped => \A k \in Present(at[Capture]) :
            LET e == maps[at[Capture]].ent[k] IN e.tag = CapTag => e.state # Active)

\* While commands do not overlap, adds, deletes, state changes and resizes have the
\* effect of single steps on the entries at the path.
StoreSpec == Store!Spec
=============================================================================
