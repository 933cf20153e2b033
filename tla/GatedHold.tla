------------------------------ MODULE GatedHold ------------------------------
(* Gated (entry + exit) capture, internal/program/gated.go: the fentry half   *)
(* of the probe parks the packet in a per-CPU hold slot, the fexit half pairs *)
(* it with the verdict.  One CPU is modelled: CPUs share only the stop flag   *)
(* and the links, and their counters are summed.                              *)
(*                                                                            *)
(* A target invocation is pushed on `stack' when the trampoline enters it and *)
(* popped when it returns; nesting on a CPU is strictly LIFO.  fentry and     *)
(* fexit run with bottom halves off, so each is one action.  Attaching or     *)
(* detaching any link of the target rewrites the trampoline, and invocations  *)
(* still running the old image skip their fexit.                              *)
EXTENDS Integers, FiniteSets

CONSTANTS
    HoldSlots,     \* hold slots per CPU: the deepest nest that can be held
    Frames,        \* frame addresses (hook identities), recycled by the kernel
    MaxNest,       \* bound: invocations live at once on the CPU
    MaxInv,        \* bound: fentry runs in a behaviour
    MaxRewrites,   \* bound: trampoline rewrites by other attachments
    Emit,          \* --emit: "both", "entry" or "exit"
    ProbeRead      \* TRUE for hooks whose exit prologue reads memory fallibly

ASSUME GatedAssumption ==
    /\ HoldSlots \in Nat \ {0}
    /\ MaxNest \in Nat \ {0}
    /\ MaxInv \in Nat
    /\ MaxRewrites \in Nat
    /\ Emit \in {"both", "entry", "exit"}
    /\ ProbeRead \in BOOLEAN

VARIABLES
    phase,         \* where the probe is between attach and the end of Quiesce
    stop,          \* the holdStop flag
    stopFailed,    \* Quiesce could not set the flag or wait for its effect
    waitFor,       \* invocations at the bottom of the stack a barrier waits for
    rewrites,      \* rewrites by other attachments so far
    stack, top,    \* invocations live on this CPU
    depth,         \* holdDepth
    nextInv,       \* holdNextInv
    nextSeq,       \* holdNextSeq: holds written
    age,           \* jiffies since holdEnterJ[d], saturated at Stale
    enterI,        \* holdEnterI[d]
    hold,          \* the hold slots
    holdOverwrite, holdUnpaired, holdOverflow, holdResync,   \* export counters
    decided,       \* holds an exit paired with
    faulted,       \* holds consumed by an exit whose prologue then faulted
    emitted        \* records submitted to the ring

probeVars == <<phase, stop, stopFailed, rewrites>>
liveVars  == <<stack, top, waitFor>>
depthVars == <<depth, nextInv, age, enterI>>
lossVars  == <<holdOverwrite, holdUnpaired, holdOverflow, holdResync>>
holdVars == <<probeVars, liveVars, depthVars, nextSeq, hold, lossVars, decided,
          faulted, emitted>>

Slots == 0 .. HoldSlots - 1
Stale == 2           \* "more than one jiffy ago"
NoFrame == "none"

\* An invocation: the number its fentry took (0: no fentry ran), its frame, and
\* whether its trampoline image will still run the fexit.
Idle == [inv |-> 0, frame |-> NoFrame, exits |-> FALSE]
Empty == [valid |-> FALSE, inv |-> 0, frame |-> NoFrame, seq |-> 0, copyErr |-> FALSE]

HasFentry == phase \in {"capturing", "stopping", "closing"}
HasFexit == HasFentry \/ phase \in {"attaching", "fexit_only"}

HoldInit ==
    /\ phase = "attaching" /\ stop = 0 /\ stopFailed = FALSE
    /\ waitFor = 0 /\ rewrites = 0
    /\ stack = [i \in 1 .. MaxNest |-> Idle] /\ top = 0
    /\ depth = 0 /\ nextInv = 0 /\ nextSeq = 0
    /\ age = [s \in Slots |-> 0] /\ enterI = [s \in Slots |-> 0]
    /\ hold = [s \in Slots |-> Empty]
    /\ holdOverwrite = 0 /\ holdUnpaired = 0 /\ holdOverflow = 0 /\ holdResync = 0
    /\ decided = 0 /\ faulted = 0 /\ emitted = {}

-----------------------------------------------------------------------------
(* The target's invocations *)

\* No two live invocations of a CPU share a frame; a frame is free for reuse
\* once its invocation returned.
FreshFrame(f) == \A i \in 1 .. top : stack[i].frame # f

Push(inv, f) ==
    /\ top < MaxNest
    /\ FreshFrame(f)
    /\ top' = top + 1
    /\ stack' = [stack EXCEPT ![top + 1] =
                    [inv |-> inv, frame |-> f, exits |-> HasFexit]]
    /\ UNCHANGED waitFor

Pop ==
    /\ top > 0
    /\ top' = top - 1
    /\ stack' = [stack EXCEPT ![top] = Idle]
    /\ waitFor' = IF waitFor = top THEN top - 1 ELSE waitFor

\* The trampoline is regenerated: whoever is inside the old one skips its fexit.
Rewritten ==
    stack' = [i \in 1 .. MaxNest |-> [stack[i] EXCEPT !.exits = FALSE]]

-----------------------------------------------------------------------------
(* fentry: buildGatedEntryInsns *)

Innermost == IF depth <= HoldSlots THEN depth - 1 ELSE HoldSlots - 1
StaleDepth == depth # 0 /\ age[Innermost] = Stale
Base == IF StaleDepth THEN 0 ELSE depth

\* Number the invocation and take the next depth, restarting a stale one.
TakeDepth ==
    /\ nextInv < MaxInv
    /\ nextInv' = nextInv + 1
    /\ depth' = Base + 1
    /\ IF Base < HoldSlots
       THEN /\ age' = [age EXCEPT ![Base] = 0]
            /\ enterI' = [enterI EXCEPT ![Base] = nextInv + 1]
       ELSE UNCHANGED <<age, enterI>>
    /\ holdResync' = IF StaleDepth THEN holdResync + 1 ELSE holdResync

\* The entry filter missed, the tag is closed, or the stop flag is set.
EnterMiss(f) ==
    /\ HasFentry
    /\ Push(nextInv + 1, f)
    /\ TakeDepth
    /\ UNCHANGED <<probeVars, nextSeq, hold, holdOverwrite, holdUnpaired,
                   holdOverflow, decided, faulted, emitted>>

\* The filter matched below the last slot: counted, not held.
EnterOverflow(f) ==
    /\ HasFentry /\ stop = 0
    /\ Push(nextInv + 1, f)
    /\ TakeDepth
    /\ Base >= HoldSlots
    /\ holdOverflow' = holdOverflow + 1
    /\ UNCHANGED <<probeVars, nextSeq, hold, holdOverwrite, holdUnpaired,
                   decided, faulted, emitted>>

\* The filter matched: write the hold of this depth, with or without a good
\* snapshot of the packet (none is taken when only exit images are emitted).
EnterHold(f, err) ==
    /\ HasFentry /\ stop = 0
    /\ Push(nextInv + 1, f)
    /\ TakeDepth
    /\ Base < HoldSlots
    /\ Emit = "exit" => ~err
    /\ nextSeq' = nextSeq + 1
    /\ holdOverwrite' = IF hold[Base].valid THEN holdOverwrite + 1 ELSE holdOverwrite
    /\ hold' = [hold EXCEPT ![Base] =
                   [valid |-> TRUE, inv |-> enterI'[Base], frame |-> f,
                    seq |-> nextSeq + 1, copyErr |-> err]]
    /\ UNCHANGED <<probeVars, holdUnpaired, holdOverflow, decided, faulted, emitted>>

\* The target is entered while only the fexit is attached.  (With neither
\* attached, an invocation does not meet the probe at all.)
EnterPlain(f) ==
    /\ HasFexit /\ ~HasFentry
    /\ Push(0, f)
    /\ UNCHANGED <<probeVars, depthVars, nextSeq, hold, lossVars, decided,
                   faulted, emitted>>

-----------------------------------------------------------------------------
(* fexit: buildGatedExitInsns *)

\* The invocation returns without a fexit: its image has none, or was replaced.
ExitSkipped ==
    /\ Pop
    /\ ~stack[top].exits
    /\ UNCHANGED <<probeVars, depthVars, nextSeq, hold, lossVars, decided,
                   faulted, emitted>>

\* Depth 0 (no fentry ran) leaves everything alone; otherwise the depth is
\* given back.
GiveBack ==
    /\ depth' = IF depth = 0 THEN 0 ELSE depth - 1
    /\ UNCHANGED <<nextInv, age, enterI>>

HeldAt(d) == d - 1 \in Slots /\ hold[d - 1].valid

ExitEmpty ==
    /\ Pop
    /\ stack[top].exits
    /\ ~HeldAt(depth)
    /\ GiveBack
    /\ UNCHANGED <<probeVars, nextSeq, hold, lossVars, decided, faulted, emitted>>

\* Consume first, whatever happens below.
Consume == hold' = [hold EXCEPT ![depth - 1].valid = FALSE]

\* A deferred prologue faults after the hold was consumed.
ExitFault ==
    /\ ProbeRead
    /\ Pop
    /\ stack[top].exits
    /\ HeldAt(depth)
    /\ GiveBack
    /\ Consume
    /\ faulted' = faulted + 1
    /\ UNCHANGED <<probeVars, nextSeq, lossVars, decided, emitted>>

\* Mutant: the frame is compared, the invocation number is not.
PairedByFrame == hold[depth - 1].frame = stack[top].frame

\* The hold carries this depth's invocation number and this invocation's frame.
Paired ==
    /\ hold[depth - 1].inv = enterI[depth - 1]
    /\ hold[depth - 1].frame = stack[top].frame

ExitUnpaired ==
    /\ Pop
    /\ stack[top].exits
    /\ HeldAt(depth)
    /\ GiveBack
    /\ Consume
    /\ ~Paired
    /\ holdUnpaired' = holdUnpaired + 1
    /\ UNCHANGED <<probeVars, nextSeq, holdOverwrite, holdOverflow, holdResync,
                   decided, faulted, emitted>>

Record(mode) == [id |-> hold[depth - 1].seq, mode |-> mode,
                 entry |-> hold[depth - 1].inv, exit |-> stack[top].inv]

\* Mutant: the exit image is reserved before the entry image.
EmissionsExitFirst ==
    CASE Emit = "exit" -> {{}, {Record("exit")}}
      [] hold[depth - 1].copyErr -> {{}}
      [] Emit = "entry" -> {{}, {Record("entry")}}
      [] OTHER -> {{}, {Record("exit")}, {Record("entry"), Record("exit")}}

\* What the exit may put in the ring: nothing if the exit filter or a closed
\* tag rejects, the snapshot failed, or the first reserve or copy fails; the
\* entry image alone if the exit image's reserve fails after it.
Emissions ==
    CASE Emit = "exit" -> {{}, {Record("exit")}}
      [] hold[depth - 1].copyErr -> {{}}
      [] Emit = "entry" -> {{}, {Record("entry")}}
      [] OTHER -> {{}, {Record("entry")}, {Record("entry"), Record("exit")}}

ExitPaired ==
    /\ Pop
    /\ stack[top].exits
    /\ HeldAt(depth)
    /\ GiveBack
    /\ Consume
    /\ Paired
    /\ decided' = decided + 1
    /\ \E out \in Emissions : emitted' = emitted \cup out
    /\ UNCHANGED <<probeVars, nextSeq, lossVars, faulted>>

-----------------------------------------------------------------------------
(* The environment and the probe's life: LoadMultiPointRecord, Quiesce *)

Tick ==
    /\ \E s \in Slots : s < depth /\ age[s] < Stale
    /\ age' = [s \in Slots |-> IF age[s] < Stale THEN age[s] + 1 ELSE Stale]
    /\ UNCHANGED <<probeVars, liveVars, depth, nextInv, enterI, nextSeq, hold,
                   lossVars, decided, faulted, emitted>>

\* Another tool attaches to or detaches from the same target.
Rewrite ==
    /\ rewrites < MaxRewrites
    /\ rewrites' = rewrites + 1
    /\ Rewritten
    /\ UNCHANGED <<phase, stop, stopFailed, top, waitFor, depthVars, nextSeq, hold,
                   lossVars, decided, faulted, emitted>>

unchangedByProbe == <<rewrites, top, depthVars, nextSeq, hold, lossVars, decided,
                      faulted, emitted>>

\* The fexit is attached first, then the fentry.
AttachFentry ==
    /\ phase = "attaching" /\ phase' = "capturing"
    /\ Rewritten
    /\ UNCHANGED <<stop, stopFailed, waitFor, unchangedByProbe>>

\* Quiesce sets the stop flag and starts a barrier; if the flag cannot be set or
\* the barrier's map update fails it goes on to detach.
QuiesceStop ==
    /\ phase = "capturing"
    /\ \/ phase' = "stopping" /\ stop' = 1 /\ waitFor' = top /\ UNCHANGED stopFailed
       \/ phase' = "closing" /\ stopFailed' = TRUE /\ stop' \in {0, 1} /\ UNCHANGED waitFor
    /\ UNCHANGED <<stack, unchangedByProbe>>

\* Mutant: Quiesce does not wait between the stop flag and the detach.
QuiesceNoWait ==
    /\ phase = "stopping"
    /\ phase' = "closing"
    /\ UNCHANGED <<stop, stopFailed, waitFor, stack, unchangedByProbe>>

\* The grace period ends once every invocation live at its start has returned.
QuiesceBarrier ==
    /\ phase = "stopping" /\ waitFor = 0
    /\ phase' = "closing"
    /\ UNCHANGED <<stop, stopFailed, waitFor, stack, unchangedByProbe>>

\* Links close in reverse order of attachment: the fentry first.
CloseFentry ==
    /\ phase = "closing" /\ phase' = "fexit_only"
    /\ Rewritten
    /\ UNCHANGED <<stop, stopFailed, waitFor, unchangedByProbe>>

\* The last link closes and the second barrier starts, or fails at once.
CloseFexit ==
    /\ phase = "fexit_only"
    /\ Rewritten
    /\ \/ phase' = "detached" /\ waitFor' = top
       \/ phase' = "quiesced" /\ UNCHANGED waitFor
    /\ UNCHANGED <<stop, stopFailed, unchangedByProbe>>

QuiesceDone ==
    /\ phase = "detached" /\ waitFor = 0
    /\ phase' = "quiesced"
    /\ UNCHANGED <<stop, stopFailed, waitFor, stack, unchangedByProbe>>

Enter(f) ==
    \/ EnterMiss(f)
    \/ EnterOverflow(f)
    \/ \E err \in BOOLEAN : EnterHold(f, err)
    \/ EnterPlain(f)
Exit == ExitSkipped \/ ExitEmpty \/ ExitFault \/ ExitUnpaired \/ ExitPaired
Quiesce == QuiesceStop \/ QuiesceBarrier \/ CloseFentry \/ CloseFexit \/ QuiesceDone

HoldNext ==
    \/ \E f \in Frames : Enter(f)
    \/ Exit
    \/ Tick
    \/ Rewrite
    \/ AttachFentry
    \/ Quiesce

HoldSpec == HoldInit /\ [][HoldNext]_holdVars

-----------------------------------------------------------------------------
(* ExportStats *)

ValidSlots == {s \in Slots : hold[s].valid}
ResidualHolds == Cardinality(ValidSlots)

\* Mutant: holds left in their slots are not reported.
ReportedWithoutResidual == holdUnpaired

\* What ExportStats reports as HoldUnpaired: once the links are closed, holds
\* nobody consumed are added.
ReportedUnpaired ==
    holdUnpaired + IF phase \in {"detached", "quiesced"} THEN ResidualHolds ELSE 0

-----------------------------------------------------------------------------
(* Properties *)

\* Every per-CPU hold field, counter and emitted record keeps its type.
TypeOK ==
    /\ phase \in {"attaching", "capturing", "stopping", "closing", "fexit_only",
                  "detached", "quiesced"}
    /\ stop \in {0, 1} /\ stopFailed \in BOOLEAN
    /\ top \in 0 .. MaxNest /\ waitFor \in 0 .. top
    /\ rewrites \in Nat
    /\ stack \in [1 .. MaxNest ->
                     [inv : Nat, frame : Frames \cup {NoFrame}, exits : BOOLEAN]]
    /\ depth \in Nat /\ nextInv \in Nat /\ nextSeq \in Nat
    /\ age \in [Slots -> 0 .. Stale] /\ enterI \in [Slots -> Nat]
    /\ hold \in [Slots -> [valid : BOOLEAN, inv : Nat,
                           frame : Frames \cup {NoFrame}, seq : Nat,
                           copyErr : BOOLEAN]]
    /\ holdOverwrite \in Nat /\ holdUnpaired \in Nat
    /\ holdOverflow \in Nat /\ holdResync \in Nat
    /\ decided \in Nat /\ faulted \in Nat
    /\ emitted \subseteq [id : Nat, mode : {"entry", "exit"}, entry : Nat, exit : Nat]

\* A fexit whose own fentry ran never emits the entry image another invocation
\* left behind, whatever fexits were skipped, depths restarted and frames
\* recycled (the checks of gated.go:394-401).
PairsOnlyOwn == \A e \in emitted : e.exit # 0 => e.entry = e.exit

\* Invocation numbers in use were handed out, and a fexit runs for a numbered
\* invocation only while the fentry is attached.
NumbersInUse ==
    /\ \A i \in 1 .. top : stack[i].inv <= nextInv
    /\ \A s \in Slots : hold[s].inv <= nextInv
    /\ phase = "attaching" => \A i \in 1 .. top : stack[i].inv = 0
    /\ ~HasFentry => \A i \in 1 .. top : stack[i].exits => stack[i].inv = 0

\* While the fentry is attached, inner invocations have larger numbers, and the
\* number recorded at the depth an invocation will give back is its own or that
\* of an invocation nested in it.
DepthCovers ==
    HasFentry =>
        /\ \A i, j \in 1 .. top : i < j => stack[i].inv <= stack[j].inv
        /\ \A i \in 1 .. top :
               depth - 1 - (top - i) \in Slots =>
                   stack[i].inv <= enterI[depth - 1 - (top - i)]

\* A hold written inside a live invocation has another frame than it.
HoldsApart ==
    \A s \in Slots : \A i \in 1 .. top :
        hold[s].valid /\ stack[i].inv # 0 /\ stack[i].inv < hold[s].inv =>
            stack[i].frame # hold[s].frame

\* Why a fexit pairs only its own hold (PairsOnlyOwn), as an inductive invariant.
PairingInv == NumbersInUse /\ DepthCovers /\ HoldsApart /\ PairsOnlyOwn

\* Every hold ever written is accounted for exactly once: an exit decided on
\* it, or a counter reports it lost, or it is still in its slot, or an exit
\* whose fallible prologue faulted consumed it.
HoldsAccounted ==
    nextSeq = decided + holdOverwrite + holdUnpaired + faulted + ResidualHolds

\* What the report says once Quiesce returned is the whole truth: decisions plus
\* reported losses are all the holds written, unless an exit whose prologue faulted
\* consumed one.
ReportComplete ==
    phase = "quiesced" /\ faulted = 0 =>
        nextSeq = decided + holdOverwrite + ReportedUnpaired

\* A capture no other attachment disturbed, with no nest older than a jiffy and
\* the stop flag set in time, loses no hold, and Quiesce leaves none behind: the
\* stop flag and the first barrier come before the links are closed.
UndisturbedLosesNothing ==
    rewrites = 0 /\ holdResync = 0 /\ ~stopFailed =>
        /\ holdOverwrite = 0
        /\ holdUnpaired = 0
        /\ phase \in {"fexit_only", "detached", "quiesced"} => ValidSlots = {}

\* A packet id joins the images of one invocation and of no other, and an exit
\* image never comes without the entry image it was promised with.
PacketIdJoins ==
    \A e \in emitted :
        /\ \A g \in emitted : g.id = e.id => g.entry = e.entry /\ g.exit = e.exit
        /\ Emit = "both" /\ e.mode = "exit" =>
               \E g \in emitted : g.id = e.id /\ g.mode = "entry"

\* The comment of gated.go:42-44 as it stands, for a capture whose stop flag was set in
\* time: no fexit pairs a hold another invocation left, also none that runs between the
\* closing of the fentry link and that of the fexit link (Quiesce).
NeverPairsAnother == ~stopFailed => \A e \in emitted : e.entry = e.exit

=============================================================================
