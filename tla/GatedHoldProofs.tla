--------------------------- MODULE GatedHoldProofs ---------------------------
(* Proofs about GatedHold, for every number of slots, frames, invocations and *)
(* rewrites.                                                                  *)
EXTENDS GatedHold, FiniteSetTheorems, TLAPS

-----------------------------------------------------------------------------
(* Type correctness *)

\* The initial state of the probe and of its hold map is well typed.
LEMMA InitType == HoldInit => TypeOK
<1> SUFFICES ASSUME HoldInit PROVE TypeOK
  OBVIOUS
<1>1. Idle \in [inv : Nat, frame : Frames \cup {NoFrame}, exits : BOOLEAN]
  BY DEF Idle
<1>2. Empty \in [valid : BOOLEAN, inv : Nat, frame : Frames \cup {NoFrame},
                 seq : Nat, copyErr : BOOLEAN]
  BY DEF Empty
<1>3. stopFailed \in BOOLEAN
  BY DEF HoldInit
<1>4. QED
  BY <1>1, <1>2, <1>3, GatedAssumption DEF HoldInit, TypeOK, Stale

\* Taking a depth keeps the per-depth entry times and numbers well typed.
LEMMA TakeDepthType ==
    ASSUME TypeOK, TakeDepth
    PROVE  /\ depth' \in Nat /\ nextInv' \in Nat
           /\ age' \in [Slots -> 0 .. Stale] /\ enterI' \in [Slots -> Nat]
           /\ holdResync' \in Nat
           /\ Base \in Nat
           /\ Base < HoldSlots => Base \in Slots /\ enterI'[Base] = nextInv + 1
<1>1. depth # 0 => Innermost \in Slots
  BY GatedAssumption DEF TypeOK, Innermost, Slots
<1>2. Base \in Nat
  BY DEF Base, TypeOK
<1>3. Base < HoldSlots => Base \in Slots
  BY <1>2, GatedAssumption DEF Slots
<1>4. holdResync' \in Nat
  BY DEF TakeDepth, TypeOK
<1>5. /\ depth' = Base + 1 /\ nextInv' = nextInv + 1
      /\ Base < HoldSlots => /\ age' = [age EXCEPT ![Base] = 0]
                            /\ enterI' = [enterI EXCEPT ![Base] = nextInv + 1]
      /\ ~(Base < HoldSlots) => age' = age /\ enterI' = enterI
  BY DEF TakeDepth
<1>6. age \in [Slots -> 0 .. Stale] /\ enterI \in [Slots -> Nat] /\ nextInv + 1 \in Nat
      /\ 0 \in 0 .. Stale
  BY DEF TypeOK, Stale
<1>7. age' \in [Slots -> 0 .. Stale]
  BY <1>3, <1>5, <1>6
<1>8. enterI' \in [Slots -> Nat]
  BY <1>3, <1>5, <1>6
<1>9. Base < HoldSlots => enterI'[Base] = nextInv + 1
  BY <1>3, <1>5, <1>6
<1>10. QED
  BY <1>2, <1>3, <1>4, <1>5, <1>6, <1>7, <1>8, <1>9

\* Entering an invocation keeps the stack well typed.
LEMMA PushType ==
    ASSUME TypeOK, NEW inv \in Nat, NEW f \in Frames, Push(inv, f)
    PROVE  /\ top' \in 0 .. MaxNest /\ waitFor' \in 0 .. top'
           /\ stack' \in [1 .. MaxNest ->
                     [inv : Nat, frame : Frames \cup {NoFrame}, exits : BOOLEAN]]
<1>1. HasFexit \in BOOLEAN
  BY DEF HasFexit, HasFentry
<1>2. QED
  BY <1>1, GatedAssumption DEF TypeOK, Push

\* So does leaving one.
LEMMA PopType ==
    ASSUME TypeOK, Pop
    PROVE  /\ top' \in 0 .. MaxNest /\ waitFor' \in 0 .. top'
           /\ stack' \in [1 .. MaxNest ->
                     [inv : Nat, frame : Frames \cup {NoFrame}, exits : BOOLEAN]]
           /\ top \in 1 .. MaxNest
BY GatedAssumption DEF TypeOK, Pop, Idle

\* What a push and a pop do to the stack.
LEMMA Pushed ==
    ASSUME TypeOK, NEW v, NEW f, Push(v, f)
    PROVE  /\ top \in Nat /\ top' = top + 1 /\ top + 1 \in 1 .. MaxNest
           /\ stack'[top + 1] = [inv |-> v, frame |-> f, exits |-> HasFexit]
           /\ stack'[top + 1].inv = v /\ stack'[top + 1].frame = f
           /\ stack'[top + 1].exits = HasFexit
           /\ \A i \in 1 .. top : stack'[i] = stack[i]
           /\ \A i \in 1 .. top : stack[i].inv \in Nat
           /\ \A i \in 1 .. top : stack[i].frame # f
<1>1. top \in 0 .. MaxNest /\ top < MaxNest /\ top' = top + 1
  BY DEF TypeOK, Push
<1>2. \A i \in 1 .. top : i \in 1 .. MaxNest /\ i # top + 1
  BY <1>1, GatedAssumption
<1>3. top + 1 \in 1 .. MaxNest /\ top \in Nat
  BY <1>1, GatedAssumption
<1>4. stack' = [stack EXCEPT ![top + 1] = [inv |-> v, frame |-> f, exits |-> HasFexit]]
  BY DEF Push
<1>5. DOMAIN stack = 1 .. MaxNest /\ \A i \in 1 .. MaxNest : stack[i].inv \in Nat
  BY DEF TypeOK
<1>6. stack'[top + 1] = [inv |-> v, frame |-> f, exits |-> HasFexit]
  BY <1>3, <1>4, <1>5
<1>7. \A i \in 1 .. top : stack'[i] = stack[i] /\ stack[i].inv \in Nat
  BY <1>2, <1>4, <1>5
<1>8. \A i \in 1 .. top : stack[i].frame # f
  BY DEF Push, FreshFrame
<1> QED BY <1>1, <1>3, <1>6, <1>7, <1>8

LEMMA Popped ==
    ASSUME TypeOK, Pop
    PROVE  /\ top \in 1 .. MaxNest /\ top' = top - 1
           /\ waitFor \in 0 .. top /\ waitFor' = IF waitFor = top THEN top - 1 ELSE waitFor
           /\ \A i \in 1 .. top' : stack'[i] = stack[i]
<1>1. /\ top \in 1 .. MaxNest /\ top' = top - 1
      /\ waitFor \in 0 .. top /\ waitFor' = IF waitFor = top THEN top - 1 ELSE waitFor
  BY DEF Pop, TypeOK
<1>2. stack' = [stack EXCEPT ![top] = Idle] /\ DOMAIN stack = 1 .. MaxNest
  BY DEF Pop, TypeOK
<1>3. \A i \in 1 .. top' : i \in 1 .. MaxNest /\ i # top
  BY <1>1, GatedAssumption
<1> QED BY <1>1, <1>2, <1>3

\* A trampoline rewrite keeps the stack well typed.
LEMMA RewrittenType ==
    ASSUME TypeOK, Rewritten
    PROVE  stack' \in [1 .. MaxNest ->
                     [inv : Nat, frame : Frames \cup {NoFrame}, exits : BOOLEAN]]
BY ZenonT(60) DEF TypeOK, Rewritten

\* Every step of the probe, the target and the kernel keeps the state well typed.
LEMMA NextType == TypeOK /\ [HoldNext]_holdVars => TypeOK'
<1> SUFFICES ASSUME TypeOK, [HoldNext]_holdVars PROVE TypeOK'
  OBVIOUS
<1> USE GatedAssumption
<1>1. ASSUME NEW f \in Frames, EnterMiss(f) PROVE TypeOK'
  <2>1. Push(nextInv + 1, f) /\ TakeDepth /\ nextInv + 1 \in Nat
    BY <1>1 DEF EnterMiss, TypeOK
  <2>2. QED
    BY <1>1, <2>1, PushType, TakeDepthType DEF EnterMiss, TypeOK, probeVars
<1>2. ASSUME NEW f \in Frames, EnterOverflow(f) PROVE TypeOK'
  <2>1. Push(nextInv + 1, f) /\ TakeDepth /\ nextInv + 1 \in Nat
    BY <1>2 DEF EnterOverflow, TypeOK
  <2>2. holdOverflow' \in Nat
    BY <1>2 DEF EnterOverflow, TypeOK
  <2>3. UNCHANGED <<probeVars, nextSeq, hold, holdOverwrite, holdUnpaired, decided,
                    faulted, emitted>>
    BY <1>2 DEF EnterOverflow
  <2>4. QED
    BY <2>1, <2>2, <2>3, PushType, TakeDepthType DEF TypeOK, probeVars
<1>3. ASSUME NEW f \in Frames, NEW err \in BOOLEAN, EnterHold(f, err) PROVE TypeOK'
  <2>1. Push(nextInv + 1, f) /\ TakeDepth /\ nextInv + 1 \in Nat
    BY <1>3 DEF EnterHold, TypeOK
  <2>2. Base \in Slots /\ enterI'[Base] \in Nat /\ nextSeq + 1 \in Nat
    BY <1>3, <2>1, TakeDepthType DEF EnterHold, TypeOK
  <2>3. hold' \in [Slots -> [valid : BOOLEAN, inv : Nat, frame : Frames \cup {NoFrame},
                             seq : Nat, copyErr : BOOLEAN]]
    BY <1>3, <2>2 DEF EnterHold, TypeOK
  <2>4. holdOverwrite' \in Nat /\ nextSeq' \in Nat
    BY <1>3 DEF EnterHold, TypeOK
  <2>5. UNCHANGED <<probeVars, holdUnpaired, holdOverflow, decided, faulted, emitted>>
    BY <1>3 DEF EnterHold
  <2>6. QED
    BY <2>1, <2>3, <2>4, <2>5, PushType, TakeDepthType DEF TypeOK, probeVars
<1>4. ASSUME NEW f \in Frames, EnterPlain(f) PROVE TypeOK'
  BY <1>4, PushType DEF EnterPlain, TypeOK, probeVars, depthVars, lossVars
<1>5. CASE ExitSkipped
  BY <1>5, PopType DEF ExitSkipped, TypeOK, probeVars, depthVars, lossVars
<1>6. CASE ExitEmpty
  <2>1. depth' \in Nat
    BY <1>6 DEF ExitEmpty, GiveBack, TypeOK
  <2>2. Pop
    BY <1>6 DEF ExitEmpty
  <2>3. UNCHANGED <<probeVars, nextInv, age, enterI, nextSeq, hold, lossVars, decided, faulted, emitted>>
    BY <1>6 DEF ExitEmpty, GiveBack
  <2>4. QED
    BY <2>1, <2>2, <2>3, PopType DEF TypeOK, probeVars, lossVars
<1>7. ASSUME Consume, HeldAt(depth)
      PROVE  hold' \in [Slots -> [valid : BOOLEAN, inv : Nat, frame : Frames \cup {NoFrame},
                                  seq : Nat, copyErr : BOOLEAN]]
  BY ZenonT(60), <1>7 DEF Consume, HeldAt, TypeOK
<1>8. CASE ExitFault
  <2>1. depth' \in Nat /\ faulted' \in Nat
    BY <1>8 DEF ExitFault, GiveBack, TypeOK
  <2>2. Pop /\ Consume /\ HeldAt(depth)
    BY <1>8 DEF ExitFault
  <2>3. UNCHANGED <<probeVars, nextInv, age, enterI, nextSeq, lossVars, decided, emitted>>
    BY <1>8 DEF ExitFault, GiveBack
  <2>4. QED
    BY <1>7, <2>1, <2>2, <2>3, PopType DEF TypeOK, probeVars, lossVars
<1>9. CASE ExitUnpaired
  <2>1. depth' \in Nat /\ holdUnpaired' \in Nat
    BY <1>9 DEF ExitUnpaired, GiveBack, TypeOK
  <2>2. Pop /\ Consume /\ HeldAt(depth)
    BY <1>9 DEF ExitUnpaired
  <2>3. UNCHANGED <<probeVars, nextInv, age, enterI, nextSeq, holdOverwrite,
                    holdOverflow, holdResync, decided, faulted, emitted>>
    BY <1>9 DEF ExitUnpaired, GiveBack
  <2>4. QED
    BY <1>7, <2>1, <2>2, <2>3, PopType DEF TypeOK, probeVars
<1>10. CASE ExitPaired
  <2> DEFINE Rec == [id : Nat, mode : {"entry", "exit"}, entry : Nat, exit : Nat]
  <2>1. Pop /\ Consume /\ HeldAt(depth)
    BY <1>10 DEF ExitPaired
  <2>2. top \in 1 .. MaxNest /\ depth - 1 \in Slots
    BY <2>1, PopType DEF HeldAt
  <2>3. \A mode \in {"entry", "exit"} : Record(mode) \in Rec
    BY <2>2 DEF Record, TypeOK
  <2>4. \A out \in Emissions : out \subseteq {Record("entry"), Record("exit")}
    BY Zenon DEF Emissions
  <2>5. PICK out \in Emissions : emitted' = emitted \cup out
    BY <1>10 DEF ExitPaired
  <2>6. emitted' \subseteq Rec
    BY <2>3, <2>4, <2>5 DEF TypeOK
  <2>7. depth' \in Nat /\ decided' \in Nat
    BY <1>10 DEF ExitPaired, GiveBack, TypeOK
  <2>8. UNCHANGED <<probeVars, nextInv, age, enterI, nextSeq, lossVars, faulted>>
    BY <1>10 DEF ExitPaired, GiveBack
  <2>9. QED
    BY <1>7, <2>1, <2>6, <2>7, <2>8, PopType DEF TypeOK, probeVars, lossVars
<1>11. CASE Tick
  <2>1. age' \in [Slots -> 0 .. Stale]
    <3>1. \A s \in Slots : age[s] \in 0 .. 2
      BY DEF TypeOK, Stale
    <3>2. age' = [s \in Slots |-> IF age[s] < 2 THEN age[s] + 1 ELSE 2]
      BY <1>11 DEF Tick, Stale
    <3>3. \A s \in Slots : (IF age[s] < 2 THEN age[s] + 1 ELSE 2) \in 0 .. 2
      BY <3>1
    <3>4. QED
      BY <3>2, <3>3 DEF Stale
  <2>2. QED
    BY <1>11, <2>1 DEF Tick, TypeOK, probeVars, liveVars, lossVars
<1>12. CASE Rewrite
  <2>1. Rewritten /\ rewrites' \in Nat
    BY <1>12 DEF Rewrite, TypeOK
  <2>2. UNCHANGED <<phase, stop, stopFailed, top, waitFor, depthVars, nextSeq, hold,
                    lossVars, decided, faulted, emitted>>
    BY <1>12 DEF Rewrite
  <2>3. QED
    BY <2>1, <2>2, RewrittenType DEF TypeOK, depthVars, lossVars
<1>13. CASE AttachFentry
  BY <1>13, RewrittenType DEF AttachFentry, TypeOK, unchangedByProbe, depthVars, lossVars
<1>14. CASE QuiesceStop
  <2>1. phase' \in {"stopping", "closing"} /\ stop' \in {0, 1} /\ waitFor' \in 0 .. top
    BY <1>14 DEF QuiesceStop, TypeOK
  <2>2. stopFailed' \in BOOLEAN
    BY <1>14 DEF QuiesceStop, TypeOK
  <2>3. UNCHANGED <<stack, unchangedByProbe>>
    BY <1>14 DEF QuiesceStop
  <2>4. QED
    BY <2>1, <2>2, <2>3 DEF TypeOK, unchangedByProbe, depthVars, lossVars
<1>15. CASE QuiesceBarrier
  BY <1>15 DEF QuiesceBarrier, TypeOK, unchangedByProbe, depthVars, lossVars
<1>16. CASE CloseFentry
  BY <1>16, RewrittenType DEF CloseFentry, TypeOK, unchangedByProbe, depthVars, lossVars
<1>17. CASE CloseFexit
  <2>1. phase' \in {"detached", "quiesced"} /\ waitFor' \in 0 .. top
    BY <1>17 DEF CloseFexit, TypeOK
  <2>2. UNCHANGED <<stop, stopFailed, unchangedByProbe>>
    BY <1>17 DEF CloseFexit
  <2>3. Rewritten
    BY <1>17 DEF CloseFexit
  <2>. QED
    BY <2>1, <2>2, <2>3, RewrittenType DEF TypeOK, unchangedByProbe, depthVars, lossVars
<1>18. CASE QuiesceDone
  BY <1>18 DEF QuiesceDone, TypeOK, unchangedByProbe, depthVars, lossVars
<1>19. CASE UNCHANGED holdVars
  BY <1>19 DEF holdVars, TypeOK, probeVars, liveVars, depthVars, lossVars
<1>20. QED
  BY <1>1, <1>2, <1>3, <1>4, <1>5, <1>6, <1>8, <1>9, <1>10, <1>11, <1>12, <1>13,
     <1>14, <1>15, <1>16, <1>17, <1>18, <1>19 DEF HoldNext, Enter, Exit, Quiesce

\* The probe's state, its hold map and the stack of live invocations stay well
\* typed in every behaviour.
THEOREM TypeCorrect == HoldSpec => []TypeOK
BY InitType, NextType, PTL DEF HoldSpec

-----------------------------------------------------------------------------
(* A fexit pairs only its own hold *)

StackFacts == NumbersInUse /\ DepthCovers /\ HoldsApart

\* A numbered entry: the new invocation is the innermost, has the largest
\* number, and the depth it takes records it.
LEMMA NumberedEntry ==
    ASSUME TypeOK, StackFacts, HasFentry, HasFentry', phase' # "attaching",
           NEW f \in Frames, Push(nextInv + 1, f), TakeDepth
    PROVE  /\ \A i \in 1 .. top' : stack'[i].inv <= nextInv'
           /\ DepthCovers'
<1> USE GatedAssumption
<1>1. /\ top \in Nat /\ top' = top + 1 /\ top + 1 \in 1 .. MaxNest
      /\ stack'[top + 1].inv = nextInv + 1
      /\ \A i \in 1 .. top : stack'[i] = stack[i] /\ stack[i].inv \in Nat
  BY Pushed
<1>2. \A i \in 1 .. top : stack[i].inv <= nextInv
  BY DEF StackFacts, NumbersInUse
<1>3. nextInv' = nextInv + 1 /\ nextInv \in Nat /\ depth' = Base + 1 /\ Base \in Nat
  BY TakeDepthType DEF TakeDepth, TypeOK
<1>4. \A i \in 1 .. top' : stack'[i].inv <= nextInv'
  BY <1>1, <1>2, <1>3
<1>5. \A i, j \in 1 .. top' : i < j => stack'[i].inv <= stack'[j].inv
  <2>1. \A i, j \in 1 .. top : i < j => stack[i].inv <= stack[j].inv
    BY DEF StackFacts, DepthCovers
  <2>2. QED
    BY <2>1, <1>1, <1>2, <1>3
<1>6. ASSUME NEW i \in 1 .. top', depth' - 1 - (top' - i) \in Slots
      PROVE  stack'[i].inv <= enterI'[depth' - 1 - (top' - i)]
  <2> DEFINE s == depth' - 1 - (top' - i)
  <2>1. CASE i = top + 1
    <3>1. s = Base /\ Base < HoldSlots
      BY <2>1, <1>1, <1>3, <1>6 DEF Slots
    <3>2. enterI'[Base] = nextInv + 1
      BY <3>1, TakeDepthType
    <3>3. QED
      BY <2>1, <3>1, <3>2, <1>1, <1>3
  <2>2. CASE i \in 1 .. top
    <3>1. s = Base - 1 - (top - i) /\ s < Base /\ s \in Slots
      BY <2>2, <1>1, <1>3, <1>6
    <3>2. Base = depth
      BY <3>1, <2>2, <1>1 DEF Base, Slots, TypeOK
    <3>3. stack[i].inv <= enterI[s]
      BY <3>1, <3>2, <2>2 DEF StackFacts, DepthCovers
    <3>4. enterI'[s] = enterI[s]
      BY <3>1, <1>3 DEF TakeDepth, TypeOK
    <3>5. QED
      BY <3>3, <3>4, <2>2, <1>1
  <2>3. QED
    BY <2>1, <2>2, <1>1
<1>7. QED
  BY <1>4, <1>5, <1>6 DEF DepthCovers

\* Entering without touching the holds keeps them apart: the newcomer's number
\* is larger than any hold's.
LEMMA EntryKeepsApart ==
    ASSUME TypeOK, StackFacts, NEW f \in Frames, Push(nextInv + 1, f), hold' = hold
    PROVE  HoldsApart'
<1>1. /\ top \in Nat /\ top' = top + 1 /\ top + 1 \in 1 .. MaxNest
      /\ stack'[top + 1].inv = nextInv + 1
      /\ \A i \in 1 .. top : stack'[i] = stack[i]
  BY GatedAssumption DEF Push, TypeOK
<1>2. \A s \in Slots : hold[s].inv <= nextInv /\ hold[s].inv \in Nat
  BY DEF StackFacts, NumbersInUse, TypeOK
<1>3. SUFFICES ASSUME NEW s \in Slots, NEW i \in 1 .. top',
                      hold[s].valid, stack'[i].inv # 0, stack'[i].inv < hold[s].inv
               PROVE  stack'[i].frame # hold[s].frame
  BY DEF HoldsApart
<1>4. i \in 1 .. top
  BY <1>1, <1>2, <1>3 DEF TypeOK
<1>5. QED
  BY <1>1, <1>3, <1>4 DEF StackFacts, HoldsApart

\* Leaving keeps the facts about the remaining invocations, whether the depth
\* is given back with it or a skipped fexit leaves it.
LEMMA LeavingKeeps ==
    ASSUME TypeOK, StackFacts, Pop, UNCHANGED <<phase, nextInv, enterI>>,
           \/ depth' = depth /\ (depth = 0 \/ ~stack[top].exits)
           \/ depth # 0 /\ depth' = depth - 1,
           \A s \in Slots : /\ hold'[s].inv = hold[s].inv
                            /\ hold'[s].frame = hold[s].frame
                            /\ hold'[s].valid => hold[s].valid
    PROVE  StackFacts'
<1> USE GatedAssumption
<1>1. /\ top \in 1 .. MaxNest /\ top' = top - 1
      /\ \A i \in 1 .. top' : stack'[i] = stack[i] /\ i \in 1 .. top /\ i + 1 \in 1 .. top
      /\ \A i \in 1 .. top : stack[i].inv \in Nat
  BY DEF Pop, TypeOK
<1>2. NumbersInUse'
  BY <1>1 DEF StackFacts, NumbersInUse, HasFentry
<1>3. HoldsApart'
  BY <1>1 DEF StackFacts, HoldsApart
<1>4. DepthCovers'
  <2>1. SUFFICES ASSUME HasFentry
                 PROVE  /\ \A i, j \in 1 .. top' : i < j => stack'[i].inv <= stack'[j].inv
                        /\ \A i \in 1 .. top' : depth' - 1 - (top' - i) \in Slots =>
                               stack'[i].inv <= enterI[depth' - 1 - (top' - i)]
    BY DEF DepthCovers, HasFentry
  <2>2. /\ \A i, j \in 1 .. top : i < j => stack[i].inv <= stack[j].inv
        /\ \A i \in 1 .. top : depth - 1 - (top - i) \in Slots =>
                               stack[i].inv <= enterI[depth - 1 - (top - i)]
    BY <2>1 DEF StackFacts, DepthCovers
  <2>3. ASSUME NEW i \in 1 .. top', depth' - 1 - (top' - i) \in Slots
        PROVE  stack'[i].inv <= enterI[depth' - 1 - (top' - i)]
    <3>1. depth \in Nat /\ \A s \in Slots : s \in Nat /\ enterI[s] \in Nat
      BY DEF TypeOK, Slots
    <3>2. CASE depth # 0 /\ depth' = depth - 1
      <4>1. depth' - 1 - (top' - i) = depth - 1 - (top - i)
        BY <3>1, <3>2, <1>1
      <4>2. QED
        BY <4>1, <2>2, <2>3, <1>1
    <3>3. CASE depth' = depth
      <4>1. depth' - 1 - (top' - i) = depth - 1 - (top - (i + 1))
        BY <3>1, <3>3, <1>1
      <4>2. stack[i + 1].inv <= enterI[depth' - 1 - (top' - i)]
        BY <4>1, <2>2, <2>3, <1>1
      <4>3. stack[i].inv <= stack[i + 1].inv
        BY <2>2, <1>1
      <4>4. QED
        BY <4>2, <4>3, <3>1, <2>3, <1>1
    <3>4. QED
      BY <3>2, <3>3
  <2>4. QED
    BY <2>2, <2>3, <1>1
<1>5. QED
  BY <1>2, <1>3, <1>4 DEF StackFacts

\* A rewrite of the trampoline changes neither numbers nor frames, and leaves no
\* fexit to run for anyone inside, so the phase may change with it.
LEMMA RewriteKeeps ==
    ASSUME TypeOK, StackFacts, Rewritten,
           UNCHANGED <<top, nextInv, depth, enterI, hold>>,
           phase' # "attaching" \/ phase' = phase,
           HasFentry' => HasFentry \/ phase = "attaching"
    PROVE  StackFacts'
<1>1. \A i \in 1 .. top : /\ i \in 1 .. MaxNest
                          /\ stack'[i].inv = stack[i].inv /\ stack[i].inv \in Nat
                          /\ stack'[i].frame = stack[i].frame
                          /\ stack'[i].exits = FALSE
  BY SMTT(120), GatedAssumption DEF Rewritten, TypeOK
<1>2. NumbersInUse'
  BY <1>1 DEF StackFacts, NumbersInUse
<1>3. HoldsApart'
  BY SMTT(120), <1>1 DEF StackFacts, HoldsApart
<1>4. DepthCovers'
  <2>1. CASE HasFentry
    BY <2>1, <1>1 DEF StackFacts, DepthCovers
  <2>2. CASE phase = "attaching"
    <3>1. \A i \in 1 .. top : stack'[i].inv = 0
      BY <2>2, <1>1 DEF StackFacts, NumbersInUse
    <3>2. \A s \in Slots : 0 <= enterI[s]
      BY DEF TypeOK
    <3>3. QED
      BY <3>1, <3>2 DEF DepthCovers
  <2>3. QED
    BY <2>1, <2>2 DEF DepthCovers
<1>5. QED
  BY <1>2, <1>3, <1>4 DEF StackFacts

\* An exit that pairs, of an invocation whose fentry ran, pairs its own hold.
LEMMA PairedIsOwn ==
    ASSUME TypeOK, StackFacts, top > 0, stack[top].exits, HeldAt(depth), Paired,
           stack[top].inv # 0
    PROVE  hold[depth - 1].inv = stack[top].inv
<1> USE GatedAssumption
<1>1. top \in 1 .. top /\ top \in 1 .. MaxNest /\ top - top = 0
  BY DEF TypeOK
<1>2. depth - 1 \in Slots /\ depth - 1 - (top - top) = depth - 1
  BY <1>1 DEF HeldAt, TypeOK
<1>3. HasFentry
  BY <1>1 DEF StackFacts, NumbersInUse
<1>4. stack[top].inv <= enterI[depth - 1]
  BY <1>1, <1>2, <1>3 DEF StackFacts, DepthCovers
<1>5. ~(stack[top].inv < hold[depth - 1].inv)
  <2>1. hold[depth - 1].valid /\ stack[top].frame = hold[depth - 1].frame
    BY DEF HeldAt, Paired
  <2>2. QED
    BY <1>1, <1>2, <2>1 DEF StackFacts, HoldsApart
<1>6. stack[top].inv \in Nat /\ hold[depth - 1].inv \in Nat
  BY <1>1, <1>2 DEF TypeOK
<1>7. QED
  BY <1>4, <1>5, <1>6 DEF Paired

\* Consuming a hold only clears its valid flag.
LEMMA ConsumeKeeps ==
    ASSUME TypeOK, Consume, HeldAt(depth)
    PROVE  \A s \in Slots : /\ hold'[s].inv = hold[s].inv
                            /\ hold'[s].frame = hold[s].frame
                            /\ hold'[s].valid => hold[s].valid
<1>1. depth - 1 \in Slots
  BY DEF HeldAt
<1>2. ASSUME NEW s \in Slots, s # depth - 1 PROVE hold'[s] = hold[s]
  BY <1>1, <1>2 DEF Consume, TypeOK
<1>3. hold'[depth - 1] = [hold[depth - 1] EXCEPT !.valid = FALSE]
  BY <1>1 DEF Consume, TypeOK
<1>4. /\ hold'[depth - 1].inv = hold[depth - 1].inv
      /\ hold'[depth - 1].frame = hold[depth - 1].frame
      /\ hold'[depth - 1].valid = FALSE
  BY <1>1, <1>3 DEF TypeOK
<1>5. QED
  BY <1>2, <1>4

\* Every step keeps the inductive invariant.
LEMMA NextPairing == TypeOK /\ PairingInv /\ [HoldNext]_holdVars => PairingInv'
<1> SUFFICES ASSUME TypeOK, PairingInv, [HoldNext]_holdVars PROVE PairingInv'
  OBVIOUS
<1> USE GatedAssumption
<1>1. StackFacts /\ PairsOnlyOwn
  BY DEF PairingInv, StackFacts
<1>2. SUFFICES StackFacts' /\ PairsOnlyOwn'
  BY DEF PairingInv, StackFacts
<1>3. ASSUME NEW f \in Frames, HasFentry, Push(nextInv + 1, f), TakeDepth, phase' = phase,
             hold' = hold, emitted' = emitted
      PROVE  StackFacts' /\ PairsOnlyOwn'
  <2>1. HasFentry' /\ phase' # "attaching"
    BY <1>3 DEF HasFentry
  <2>2. (\A i \in 1 .. top' : stack'[i].inv <= nextInv') /\ DepthCovers'
    BY <1>1, <1>3, <2>1, NumberedEntry
  <2>3. HoldsApart'
    BY <1>1, <1>3, EntryKeepsApart
  <2>4. \A s \in Slots : hold'[s].inv <= nextInv'
    BY <1>1, <1>3 DEF StackFacts, NumbersInUse, TakeDepth, TypeOK
  <2>5. NumbersInUse'
    BY <2>1, <2>2, <2>4 DEF NumbersInUse
  <2>6. QED
    BY <1>1, <1>3, <2>2, <2>3, <2>5 DEF StackFacts, PairsOnlyOwn
<1>4. ASSUME NEW f \in Frames, EnterMiss(f) PROVE StackFacts' /\ PairsOnlyOwn'
  BY <1>3, <1>4 DEF EnterMiss, probeVars
<1>5. ASSUME NEW f \in Frames, EnterOverflow(f) PROVE StackFacts' /\ PairsOnlyOwn'
  BY <1>3, <1>5 DEF EnterOverflow, probeVars
<1>6. ASSUME NEW f \in Frames, NEW err \in BOOLEAN, EnterHold(f, err)
      PROVE  StackFacts' /\ PairsOnlyOwn'
  <2>1. /\ HasFentry /\ Push(nextInv + 1, f) /\ TakeDepth /\ phase' = phase
        /\ Base < HoldSlots /\ emitted' = emitted
        /\ hold' = [hold EXCEPT ![Base] =
                       [valid |-> TRUE, inv |-> enterI'[Base], frame |-> f,
                        seq |-> nextSeq + 1, copyErr |-> err]]
    BY <1>6 DEF EnterHold, probeVars
  <2>2. HasFentry' /\ phase' # "attaching"
    BY <2>1 DEF HasFentry
  <2>3. (\A i \in 1 .. top' : stack'[i].inv <= nextInv') /\ DepthCovers'
    BY <1>1, <2>1, <2>2, NumberedEntry
  <2>4. Base \in Slots /\ enterI'[Base] = nextInv + 1 /\ nextInv' = nextInv + 1
    BY <2>1, TakeDepthType DEF TakeDepth
  <2>5. /\ hold'[Base].inv = nextInv + 1 /\ hold'[Base].frame = f
        /\ \A s \in Slots : s # Base => hold'[s] = hold[s]
    BY <2>1, <2>4 DEF TypeOK
  <2>6. \A s \in Slots : hold[s].inv <= nextInv /\ hold[s].inv \in Nat /\ nextInv \in Nat
    BY <1>1 DEF StackFacts, NumbersInUse, TypeOK
  <2>7. NumbersInUse'
    BY <2>2, <2>3, <2>4, <2>5, <2>6 DEF NumbersInUse
  <2>8. /\ top \in Nat /\ top' = top + 1 /\ top + 1 \in 1 .. MaxNest
        /\ stack'[top + 1].inv = nextInv + 1
        /\ \A i \in 1 .. top : stack'[i] = stack[i] /\ stack[i].frame # f
    BY <2>1, Pushed
  <2>9. HoldsApart'
    <3>1. SUFFICES ASSUME NEW s \in Slots, NEW i \in 1 .. top',
                          hold'[s].valid, stack'[i].inv # 0, stack'[i].inv < hold'[s].inv
                   PROVE  stack'[i].frame # hold'[s].frame
      BY DEF HoldsApart
    <3>2. i \in 1 .. top
      BY <2>4, <2>5, <2>6, <2>8, <3>1
    <3>3. CASE s = Base
      BY <2>5, <2>8, <3>2, <3>3
    <3>4. CASE s # Base
      BY SMTT(120), <1>1, <2>5, <2>8, <3>1, <3>2, <3>4 DEF StackFacts, HoldsApart
    <3>5. QED
      BY <3>3, <3>4
  <2>10. QED
    BY <1>1, <2>1, <2>3, <2>7, <2>9 DEF StackFacts, PairsOnlyOwn
<1>7. ASSUME NEW f \in Frames, EnterPlain(f) PROVE StackFacts' /\ PairsOnlyOwn'
  <2>1. /\ ~HasFentry /\ Push(0, f)
        /\ UNCHANGED <<phase, depth, nextInv, enterI, hold, emitted>>
    BY <1>7 DEF EnterPlain, probeVars, depthVars
  <2>2. /\ top \in Nat /\ top' = top + 1 /\ top + 1 \in 1 .. MaxNest
        /\ stack'[top + 1].inv = 0
        /\ \A i \in 1 .. top : stack'[i] = stack[i]
    BY <2>1, Pushed
  <2>3. ~HasFentry'
    BY <2>1 DEF HasFentry
  <2>4. NumbersInUse'
    <3>1. nextInv \in Nat /\ \A i \in 1 .. top' : i \in 1 .. top \/ i = top + 1
      BY <2>2 DEF TypeOK
    <3>2. \A i \in 1 .. top' : (stack'[i] = stack[i] /\ i \in 1 .. top) \/ stack'[i].inv = 0
      BY <2>2, <3>1
    <3>3. \A i \in 1 .. top' : stack'[i].inv <= nextInv
      BY <1>1, <3>1, <3>2 DEF StackFacts, NumbersInUse
    <3>4. QED
      BY <1>1, <2>1, <2>3, <3>2, <3>3 DEF StackFacts, NumbersInUse
  <2>5. HoldsApart'
    BY <1>1, <2>1, <2>2 DEF StackFacts, HoldsApart
  <2>6. QED
    BY <1>1, <2>1, <2>3, <2>4, <2>5 DEF StackFacts, DepthCovers, PairsOnlyOwn
<1>8. ASSUME ExitSkipped PROVE StackFacts' /\ PairsOnlyOwn'
  <2>1. /\ Pop /\ ~stack[top].exits
        /\ UNCHANGED <<phase, depth, nextInv, enterI, hold, emitted>>
    BY <1>8 DEF ExitSkipped, probeVars, depthVars
  <2>2. QED
    BY <1>1, <2>1, LeavingKeeps DEF PairsOnlyOwn
<1>9. ASSUME GiveBack
      PROVE  /\ UNCHANGED <<nextInv, enterI>>
             /\ \/ depth' = depth /\ (depth = 0 \/ ~stack[top].exits)
                \/ depth # 0 /\ depth' = depth - 1
  BY <1>9 DEF GiveBack
<1>10. ASSUME ExitEmpty PROVE StackFacts' /\ PairsOnlyOwn'
  <2>1. Pop /\ GiveBack /\ UNCHANGED <<phase, hold, emitted>>
    BY <1>10 DEF ExitEmpty, probeVars
  <2>2. QED
    BY <1>1, <1>9, <2>1, LeavingKeeps DEF PairsOnlyOwn
<1>11. ASSUME Pop, GiveBack, Consume, HeldAt(depth), phase' = phase PROVE StackFacts'
  BY <1>1, <1>9, <1>11, ConsumeKeeps, LeavingKeeps
<1>12. ASSUME ExitFault PROVE StackFacts' /\ PairsOnlyOwn'
  <2>1. Pop /\ GiveBack /\ Consume /\ HeldAt(depth) /\ UNCHANGED <<phase, emitted>>
    BY <1>12 DEF ExitFault, probeVars
  <2>2. QED
    BY <1>1, <1>11, <2>1 DEF PairsOnlyOwn
<1>13. ASSUME ExitUnpaired PROVE StackFacts' /\ PairsOnlyOwn'
  <2>1. Pop /\ GiveBack /\ Consume /\ HeldAt(depth) /\ UNCHANGED <<phase, emitted>>
    BY <1>13 DEF ExitUnpaired, probeVars
  <2>2. QED
    BY <1>1, <1>11, <2>1 DEF PairsOnlyOwn
<1>14. ASSUME ExitPaired PROVE StackFacts' /\ PairsOnlyOwn'
  <2>1. /\ Pop /\ GiveBack /\ Consume /\ HeldAt(depth) /\ phase' = phase
        /\ stack[top].exits /\ Paired
    BY <1>14 DEF ExitPaired, probeVars
  <2>2. stack[top].inv # 0 => hold[depth - 1].inv = stack[top].inv
    BY <1>1, <2>1, PairedIsOwn DEF Pop
  <2>3. \A mode \in {"entry", "exit"} :
            Record(mode).exit # 0 => Record(mode).entry = Record(mode).exit
    BY <2>2 DEF Record
  <2>4. \A out \in Emissions : out \subseteq {Record("entry"), Record("exit")}
    BY Zenon DEF Emissions
  <2>5. PICK out \in Emissions : emitted' = emitted \cup out
    BY <1>14 DEF ExitPaired
  <2>6. PairsOnlyOwn'
    BY <1>1, <2>3, <2>4, <2>5 DEF PairsOnlyOwn
  <2>7. QED
    BY <1>11, <2>1, <2>6
<1>15. ASSUME Tick PROVE StackFacts' /\ PairsOnlyOwn'
  BY <1>1, <1>15 DEF Tick, probeVars, liveVars, StackFacts, NumbersInUse, DepthCovers,
     HoldsApart, PairsOnlyOwn, HasFentry
<1>16. ASSUME Rewritten, UNCHANGED <<top, depthVars, hold, emitted>>,
              phase' # "attaching" \/ phase' = phase,
              HasFentry' => HasFentry \/ phase = "attaching"
       PROVE  StackFacts' /\ PairsOnlyOwn'
  BY <1>1, <1>16, RewriteKeeps DEF depthVars, PairsOnlyOwn
<1>17. ASSUME Rewrite PROVE StackFacts' /\ PairsOnlyOwn'
  <2>1. Rewritten /\ UNCHANGED <<top, depthVars, hold, emitted, phase>>
    BY <1>17 DEF Rewrite
  <2>2. QED
    BY <1>16, <2>1 DEF HasFentry
<1>18. ASSUME AttachFentry PROVE StackFacts' /\ PairsOnlyOwn'
  BY <1>16, <1>18 DEF AttachFentry, unchangedByProbe
<1>19. ASSUME CloseFentry PROVE StackFacts' /\ PairsOnlyOwn'
  BY <1>16, <1>19 DEF CloseFentry, unchangedByProbe, HasFentry
<1>20. ASSUME CloseFexit PROVE StackFacts' /\ PairsOnlyOwn'
  BY <1>16, <1>20 DEF CloseFexit, unchangedByProbe, HasFentry
<1>21. ASSUME UNCHANGED <<stack, top, depthVars, hold, emitted>>, HasFentry' <=> HasFentry,
              phase' # "attaching"
       PROVE  StackFacts' /\ PairsOnlyOwn'
  BY <1>1, <1>21 DEF depthVars, StackFacts, NumbersInUse, DepthCovers, HoldsApart, PairsOnlyOwn
<1>22. ASSUME QuiesceStop PROVE StackFacts' /\ PairsOnlyOwn'
  BY <1>21, <1>22 DEF QuiesceStop, unchangedByProbe, HasFentry
<1>23. ASSUME QuiesceBarrier PROVE StackFacts' /\ PairsOnlyOwn'
  BY <1>21, <1>23 DEF QuiesceBarrier, unchangedByProbe, HasFentry
<1>24. ASSUME QuiesceDone PROVE StackFacts' /\ PairsOnlyOwn'
  BY <1>21, <1>24 DEF QuiesceDone, unchangedByProbe, HasFentry
<1>25. ASSUME UNCHANGED holdVars PROVE StackFacts' /\ PairsOnlyOwn'
  BY <1>1, <1>25 DEF holdVars, probeVars, liveVars, depthVars, StackFacts, NumbersInUse,
     DepthCovers, HoldsApart, PairsOnlyOwn, HasFentry
<1>26. QED
  BY <1>4, <1>5, <1>6, <1>7, <1>8, <1>10, <1>12, <1>13, <1>14, <1>15, <1>17, <1>18,
     <1>19, <1>20, <1>22, <1>23, <1>24, <1>25 DEF HoldNext, Enter, Exit, Quiesce

\* Whatever fexits are skipped, depths restarted and frames recycled, a fexit
\* whose own fentry ran emits only the entry image of its own invocation.
THEOREM PairingCorrect == HoldSpec => []PairsOnlyOwn
<1>1. HoldInit => PairingInv
  BY SMTT(120), GatedAssumption DEF HoldInit, PairingInv, NumbersInUse, DepthCovers, HoldsApart,
     PairsOnlyOwn, HasFentry, Empty
<1>2. PairingInv => PairsOnlyOwn
  BY DEF PairingInv
<1>3. QED
  BY <1>1, <1>2, InitType, NextType, NextPairing, PTL DEF HoldSpec

-----------------------------------------------------------------------------
(* Every hold is accounted for *)

\* Hold slots are finitely many, so the holds still valid can be counted.
LEMMA SlotsFinite ==
    ASSUME TypeOK
    PROVE  IsFiniteSet(ValidSlots) /\ ResidualHolds \in Nat
<1>1. IsFiniteSet(Slots)
  BY GatedAssumption, FS_Interval DEF Slots
<1>2. ValidSlots \in SUBSET Slots
  BY DEF ValidSlots
<1>3. QED
  BY <1>1, <1>2, FS_Subset, FS_CardinalityType DEF ResidualHolds

\* Writing a hold adds one to the valid ones unless it overwrites a valid one.
LEMMA WritingAddsOne ==
    ASSUME TypeOK, NEW b \in Slots, NEW h, h.valid,
           hold' = [hold EXCEPT ![b] = h]
    PROVE  ResidualHolds' = IF hold[b].valid THEN ResidualHolds ELSE ResidualHolds + 1
<1>1. \A s \in Slots : hold'[s] = IF s = b THEN h ELSE hold[s]
  BY DEF TypeOK
<1>2. ValidSlots' = ValidSlots \cup {b}
  BY <1>1 DEF ValidSlots
<1>3. hold[b].valid <=> b \in ValidSlots
  BY DEF ValidSlots
<1>4. QED
  BY <1>2, <1>3, SlotsFinite, FS_AddElement DEF ResidualHolds

\* Consuming a hold takes one from the valid ones.
LEMMA ConsumingTakesOne ==
    ASSUME TypeOK, Consume, HeldAt(depth)
    PROVE  ResidualHolds' = ResidualHolds - 1
<1>1. depth - 1 \in Slots /\ depth - 1 \in ValidSlots
  BY DEF HeldAt, ValidSlots
<1>2. \A s \in Slots : s # depth - 1 => hold'[s] = hold[s]
  BY <1>1 DEF Consume, TypeOK
<1>3. hold'[depth - 1] = [hold[depth - 1] EXCEPT !.valid = FALSE]
  BY <1>1 DEF Consume, TypeOK
<1>4. ~hold'[depth - 1].valid
  BY <1>1, <1>3 DEF TypeOK
<1>5. ValidSlots' = ValidSlots \ {depth - 1}
  BY <1>2, <1>4 DEF ValidSlots
<1>6. QED
  BY <1>1, <1>5, SlotsFinite, FS_RemoveElement DEF ResidualHolds

\* Every step keeps the books balanced.
LEMMA NextAccounted == TypeOK /\ HoldsAccounted /\ [HoldNext]_holdVars => HoldsAccounted'
<1> SUFFICES ASSUME TypeOK, HoldsAccounted, [HoldNext]_holdVars PROVE HoldsAccounted'
  OBVIOUS
<1>1. /\ nextSeq \in Nat /\ decided \in Nat /\ holdOverwrite \in Nat
      /\ holdUnpaired \in Nat /\ faulted \in Nat /\ ResidualHolds \in Nat
  BY SlotsFinite DEF TypeOK
<1>2. ASSUME UNCHANGED <<nextSeq, decided, holdOverwrite, holdUnpaired, faulted, hold>>
      PROVE  HoldsAccounted'
  BY <1>2 DEF HoldsAccounted, ResidualHolds, ValidSlots
<1>3. ASSUME NEW f \in Frames, NEW err \in BOOLEAN, EnterHold(f, err)
      PROVE  HoldsAccounted'
  <2> DEFINE h == [valid |-> TRUE, inv |-> enterI'[Base], frame |-> f,
                   seq |-> nextSeq + 1, copyErr |-> err]
  <2>1. Base \in Slots
    BY <1>3, TakeDepthType DEF EnterHold
  <2>2. hold' = [hold EXCEPT ![Base] = h]
    BY <1>3 DEF EnterHold
  <2>3. h.valid
    OBVIOUS
  <2>4. ResidualHolds' = IF hold[Base].valid THEN ResidualHolds ELSE ResidualHolds + 1
    <3> HIDE DEF h
    <3> QED BY <2>1, <2>2, <2>3, WritingAddsOne
  <2>5. /\ nextSeq' = nextSeq + 1
        /\ hold[Base].valid => holdOverwrite' = holdOverwrite + 1
        /\ ~hold[Base].valid => holdOverwrite' = holdOverwrite
        /\ UNCHANGED <<holdUnpaired, decided, faulted>>
    BY <1>3 DEF EnterHold
  <2>6. CASE hold[Base].valid
    <3>1. holdOverwrite' = holdOverwrite + 1 /\ ResidualHolds' = ResidualHolds
      BY <2>4, <2>5, <2>6
    <3>2. QED
      BY <1>1, <2>5, <3>1 DEF HoldsAccounted
  <2>7. CASE ~hold[Base].valid
    <3>1. holdOverwrite' = holdOverwrite /\ ResidualHolds' = ResidualHolds + 1
      BY <2>4, <2>5, <2>7
    <3>2. QED
      BY <1>1, <2>5, <3>1 DEF HoldsAccounted
  <2>8. QED
    BY <2>6, <2>7
<1>4. ASSUME Consume, HeldAt(depth), nextSeq' = nextSeq, holdOverwrite' = holdOverwrite,
             \/ faulted' = faulted + 1 /\ UNCHANGED <<decided, holdUnpaired>>
             \/ holdUnpaired' = holdUnpaired + 1 /\ UNCHANGED <<decided, faulted>>
             \/ decided' = decided + 1 /\ UNCHANGED <<holdUnpaired, faulted>>
      PROVE  HoldsAccounted'
  <2>1. ResidualHolds' = ResidualHolds - 1
    BY <1>4, ConsumingTakesOne
  <2>2. QED
    BY <1>1, <1>4, <2>1 DEF HoldsAccounted
<1>5. CASE ExitFault
  BY <1>4, <1>5 DEF ExitFault, lossVars
<1>6. CASE ExitUnpaired
  BY <1>4, <1>6 DEF ExitUnpaired
<1>7. CASE ExitPaired
  BY <1>4, <1>7 DEF ExitPaired, lossVars
<1>8. ASSUME NEW f \in Frames, EnterMiss(f) \/ EnterOverflow(f) \/ EnterPlain(f)
      PROVE  HoldsAccounted'
  BY <1>2, <1>8 DEF EnterMiss, EnterOverflow, EnterPlain, lossVars
<1>9. CASE ExitSkipped \/ ExitEmpty
  BY <1>2, <1>9 DEF ExitSkipped, ExitEmpty, lossVars
<1>10. CASE Tick \/ Rewrite
  BY <1>2, <1>10 DEF Tick, Rewrite, lossVars
<1>11. CASE AttachFentry \/ Quiesce
  BY <1>2, <1>11 DEF AttachFentry, Quiesce, QuiesceStop, QuiesceBarrier, CloseFentry,
     CloseFexit, QuiesceDone, unchangedByProbe, lossVars
<1>12. CASE UNCHANGED holdVars
  BY <1>2, <1>12 DEF holdVars, lossVars
<1>13. QED
  BY <1>3, <1>5, <1>6, <1>7, <1>8, <1>9, <1>10, <1>11, <1>12 DEF HoldNext, Enter, Exit

\* Of every hold the fentry ever wrote, an exit decided, or a loss counter
\* reports it, or it still sits in its slot, or a faulting exit dropped it:
\* exactly one of these.
THEOREM AccountingCorrect == HoldSpec => []HoldsAccounted
<1>1. HoldInit => HoldsAccounted
  <2> SUFFICES ASSUME HoldInit PROVE HoldsAccounted
    OBVIOUS
  <2>1. ValidSlots = {}
    BY DEF HoldInit, ValidSlots, Empty
  <2>2. ResidualHolds = 0
    BY <2>1, FS_EmptySet DEF ResidualHolds
  <2>3. QED
    BY <2>2 DEF HoldInit, HoldsAccounted
<1>2. QED
  BY <1>1, InitType, NextType, NextAccounted, PTL DEF HoldSpec

\* What is reported once Quiesce returned is the whole truth, whatever was skipped,
\* restarted or rewritten: ExportStats adds the holds left in their slots.
THEOREM ReportCorrect == HoldSpec => []ReportComplete
<1>1. TypeOK /\ HoldsAccounted => ReportComplete
  <2> SUFFICES ASSUME TypeOK, HoldsAccounted, phase = "quiesced", faulted = 0
               PROVE  nextSeq = decided + holdOverwrite + ReportedUnpaired
    BY DEF ReportComplete
  <2>1. ReportedUnpaired = holdUnpaired + ResidualHolds
    BY DEF ReportedUnpaired
  <2>2. /\ decided \in Nat /\ holdOverwrite \in Nat /\ holdUnpaired \in Nat
        /\ ResidualHolds \in Nat
    BY SlotsFinite DEF TypeOK
  <2>3. QED
    BY <2>1, <2>2 DEF HoldsAccounted
<1>2. QED
  BY <1>1, TypeCorrect, AccountingCorrect, PTL

-----------------------------------------------------------------------------
(* A packet id joins the images of one invocation *)

\* Ids in use were handed out; a hold that can still be emitted shares its id with no
\* other such hold and with no record already in the ring.
IdsSpent ==
    /\ \A s \in Slots : hold[s].seq <= nextSeq
    /\ \A e \in emitted : e.id <= nextSeq
    /\ \A s \in Slots : hold[s].valid => \A e \in emitted : e.id # hold[s].seq
    /\ \A s, t \in Slots : s # t /\ hold[s].valid /\ hold[t].valid =>
           hold[s].seq # hold[t].seq

\* Writing a hold spends a fresh id.
LEMMA WritingSpends ==
    ASSUME TypeOK, IdsSpent, NEW b \in Slots, NEW h, h.seq = nextSeq + 1,
           hold' = [hold EXCEPT ![b] = h], nextSeq' = nextSeq + 1, emitted' = emitted
    PROVE  IdsSpent'
<1>1. hold'[b] = h /\ \A s \in Slots : s # b => hold'[s] = hold[s]
  BY DEF TypeOK
<1>2. nextSeq \in Nat /\ \A s \in Slots : hold[s].seq \in Nat
  BY DEF TypeOK
<1>3. \A e \in emitted : e.id \in Nat
  BY DEF TypeOK
<1>4. \A s \in Slots : hold'[s].seq <= nextSeq'
  BY <1>1, <1>2 DEF IdsSpent
<1>5. \A e \in emitted' : e.id <= nextSeq'
  BY <1>2, <1>3 DEF IdsSpent
<1>6. \A s \in Slots : hold'[s].valid => \A e \in emitted' : e.id # hold'[s].seq
  BY <1>1, <1>2, <1>3 DEF IdsSpent
<1>7. \A s, t \in Slots : s # t /\ hold'[s].valid /\ hold'[t].valid =>
          hold'[s].seq # hold'[t].seq
  BY SMTT(120), <1>1, <1>2 DEF IdsSpent
<1>8. QED
  BY <1>4, <1>5, <1>6, <1>7 DEF IdsSpent

\* Consuming a hold takes its id out of use; the records it may leave carry it.
LEMMA ConsumingSpends ==
    ASSUME TypeOK, IdsSpent, Consume, HeldAt(depth), nextSeq' = nextSeq,
           NEW out, \A e \in out : e.id = hold[depth - 1].seq, emitted' = emitted \cup out
    PROVE  IdsSpent'
<1>1. depth - 1 \in Slots /\ hold[depth - 1].valid
  BY DEF HeldAt
<1>2. \A s \in Slots : s # depth - 1 => hold'[s] = hold[s]
  BY <1>1 DEF Consume, TypeOK
<1>3. hold'[depth - 1] = [hold[depth - 1] EXCEPT !.valid = FALSE]
  BY <1>1 DEF Consume, TypeOK
<1>4. ~hold'[depth - 1].valid /\ hold'[depth - 1].seq = hold[depth - 1].seq
  BY <1>1, <1>3 DEF TypeOK
<1>5. \A s \in Slots : hold'[s].seq = hold[s].seq
  BY <1>2, <1>4
<1>6. \A s \in Slots : hold'[s].valid => hold[s].valid /\ s # depth - 1
  BY <1>2, <1>4
<1>7. \A s \in Slots : hold'[s].seq <= nextSeq'
  BY <1>5 DEF IdsSpent
<1>8. \A e \in emitted' : e.id <= nextSeq'
  BY <1>1 DEF IdsSpent
<1>9. \A s \in Slots : hold'[s].valid => \A e \in emitted' : e.id # hold'[s].seq
  BY SMTT(120), <1>1, <1>5, <1>6 DEF IdsSpent
<1>10. \A s, t \in Slots : s # t /\ hold'[s].valid /\ hold'[t].valid =>
          hold'[s].seq # hold'[t].seq
  BY SMTT(120), <1>5, <1>6 DEF IdsSpent
<1>11. QED
  BY <1>7, <1>8, <1>9, <1>10 DEF IdsSpent

\* What one exit emits: its records agree, and an exit image has its entry image.
LEMMA EmissionsJoin ==
    ASSUME NEW out \in Emissions
    PROVE  /\ \A e \in out : /\ e.id = hold[depth - 1].seq
                             /\ e.entry = hold[depth - 1].inv /\ e.exit = stack[top].inv
           /\ Emit = "both" => \A e \in out : e.mode = "exit" =>
                  \E g \in out : g.id = e.id /\ g.mode = "entry"
<1>1. \A mode \in {"entry", "exit"} :
          /\ Record(mode).id = hold[depth - 1].seq
          /\ Record(mode).entry = hold[depth - 1].inv
          /\ Record(mode).exit = stack[top].inv
          /\ Record(mode).mode = mode
  BY DEF Record
<1>2. out \subseteq {Record("entry"), Record("exit")}
  BY Zenon DEF Emissions
<1>3. ASSUME Emit = "both", Record("exit") \in out PROVE Record("entry") \in out
  <2>1. out \in {{}, {Record("entry")}, {Record("entry"), Record("exit")}}
    BY <1>3, Zenon DEF Emissions
  <2>2. Record("exit") # Record("entry")
    BY <1>1
  <2>3. QED
    BY <1>3, <2>1, <2>2
<1>4. QED
  BY <1>1, <1>2, <1>3

\* Every step keeps the ids apart and the images joined.
LEMMA NextJoins ==
    TypeOK /\ IdsSpent /\ PacketIdJoins /\ [HoldNext]_holdVars => IdsSpent' /\ PacketIdJoins'
<1> SUFFICES ASSUME TypeOK, IdsSpent, PacketIdJoins, [HoldNext]_holdVars
             PROVE  IdsSpent' /\ PacketIdJoins'
  OBVIOUS
<1>1. ASSUME emitted' = emitted PROVE PacketIdJoins'
  BY <1>1 DEF PacketIdJoins
<1>2. ASSUME UNCHANGED <<nextSeq, hold, emitted>> PROVE IdsSpent' /\ PacketIdJoins'
  BY <1>1, <1>2 DEF IdsSpent
<1>3. ASSUME NEW f \in Frames, NEW err \in BOOLEAN, EnterHold(f, err)
      PROVE  IdsSpent' /\ PacketIdJoins'
  <2> DEFINE h == [valid |-> TRUE, inv |-> enterI'[Base], frame |-> f,
                   seq |-> nextSeq + 1, copyErr |-> err]
  <2>1. Base \in Slots
    BY <1>3, TakeDepthType DEF EnterHold
  <2>2. /\ hold' = [hold EXCEPT ![Base] = h] /\ h.seq = nextSeq + 1
        /\ nextSeq' = nextSeq + 1 /\ emitted' = emitted
    BY <1>3 DEF EnterHold
  <2>3. IdsSpent'
    <3> HIDE DEF h
    <3> QED BY <2>1, <2>2, WritingSpends
  <2>4. QED
    BY <1>1, <2>2, <2>3
<1>4. ASSUME Consume, HeldAt(depth), nextSeq' = nextSeq, emitted' = emitted
      PROVE  IdsSpent' /\ PacketIdJoins'
  <2>1. PICK out : out = {}
    OBVIOUS
  <2>2. emitted' = emitted \cup out /\ \A e \in out : e.id = hold[depth - 1].seq
    BY <1>4, <2>1
  <2>3. IdsSpent'
    BY <1>4, <2>2, ConsumingSpends
  <2>4. QED
    BY <1>1, <1>4, <2>3
<1>5. CASE ExitFault
  BY <1>4, <1>5 DEF ExitFault
<1>6. CASE ExitUnpaired
  BY <1>4, <1>6 DEF ExitUnpaired
<1>7. CASE ExitPaired
  <2>1. Consume /\ HeldAt(depth) /\ nextSeq' = nextSeq
    BY <1>7 DEF ExitPaired
  <2>2. PICK out \in Emissions : emitted' = emitted \cup out
    BY <1>7 DEF ExitPaired
  <2>3. /\ \A e \in out : /\ e.id = hold[depth - 1].seq
                          /\ e.entry = hold[depth - 1].inv /\ e.exit = stack[top].inv
        /\ Emit = "both" => \A e \in out : e.mode = "exit" =>
               \E g \in out : g.id = e.id /\ g.mode = "entry"
    BY EmissionsJoin
  <2>4. IdsSpent'
    BY <2>1, <2>2, <2>3, ConsumingSpends
  <2>5. \A e \in emitted : e.id # hold[depth - 1].seq
    BY <2>1 DEF HeldAt, IdsSpent
  <2>6. \A e, g \in emitted' : g.id = e.id => g.entry = e.entry /\ g.exit = e.exit
    BY SMTT(120), <2>2, <2>3, <2>5 DEF PacketIdJoins
  <2>7. Emit = "both" => \A e \in emitted' : e.mode = "exit" =>
            \E g \in emitted' : g.id = e.id /\ g.mode = "entry"
    BY <2>2, <2>3 DEF PacketIdJoins
  <2>8. QED
    BY <2>4, <2>6, <2>7 DEF PacketIdJoins
<1>8. ASSUME NEW f \in Frames, EnterMiss(f) \/ EnterOverflow(f) \/ EnterPlain(f)
      PROVE  IdsSpent' /\ PacketIdJoins'
  BY <1>2, <1>8 DEF EnterMiss, EnterOverflow, EnterPlain
<1>9. CASE ExitSkipped \/ ExitEmpty
  BY <1>2, <1>9 DEF ExitSkipped, ExitEmpty
<1>10. CASE Tick \/ Rewrite
  BY <1>2, <1>10 DEF Tick, Rewrite
<1>11. CASE AttachFentry \/ Quiesce
  BY <1>2, <1>11 DEF AttachFentry, Quiesce, QuiesceStop, QuiesceBarrier, CloseFentry,
     CloseFexit, QuiesceDone, unchangedByProbe
<1>12. CASE UNCHANGED holdVars
  BY <1>2, <1>12 DEF holdVars
<1>13. QED
  BY <1>3, <1>5, <1>6, <1>7, <1>8, <1>9, <1>10, <1>11, <1>12 DEF HoldNext, Enter, Exit

\* A packet id joins the images of one invocation and of no other, for any number of
\* slots, invocations and rewrites.
THEOREM JoiningCorrect == HoldSpec => []PacketIdJoins
<1>1. HoldInit => IdsSpent /\ PacketIdJoins
  BY SMTT(120) DEF HoldInit, IdsSpent, PacketIdJoins, Empty
<1>2. QED
  BY <1>1, InitType, NextType, NextJoins, PTL DEF HoldSpec

-----------------------------------------------------------------------------
(* An undisturbed capture loses nothing *)

\* No other attachment, no depth restarted, and a stop flag that took effect.
Undisturbed == rewrites = 0 /\ holdResync = 0 /\ ~stopFailed

\* The k outermost invocations were in the target when the fentry was attached; the
\* others hold one depth each, in order, and only their holds are valid.
NestIsHeld(k) ==
    /\ \A i \in 1 .. k : ~stack[i].exits
    /\ \A i \in k + 1 .. top : stack[i].exits
    /\ depth = top - k
    /\ \A s \in Slots : s < depth => enterI[s] = stack[k + s + 1].inv
    /\ \A s \in Slots : hold[s].valid =>
           /\ s < depth
           /\ hold[s].inv = stack[k + s + 1].inv
           /\ hold[s].frame = stack[k + s + 1].frame

\* While the barrier of Quiesce runs, every valid hold is of an invocation it waits for.
HeldByWaitedFor(k) == \A s \in Slots : hold[s].valid => k + s + 1 <= waitFor

\* The inductive invariant: nothing lost so far, and the nest as above from the attach
\* of the fentry to the end of the barrier, behind which no hold is valid.
NothingLost ==
    /\ holdOverwrite = 0 /\ holdUnpaired = 0
    /\ phase = "attaching" => depth = 0
    /\ phase \in {"capturing", "stopping"} =>
           \E k \in 0 .. top : NestIsHeld(k) /\ (phase = "stopping" => HeldByWaitedFor(k))
    /\ phase \in {"stopping", "closing"} => stop = 1
    /\ phase \notin {"capturing", "stopping"} => \A s \in Slots : ~hold[s].valid

\* What disturbed a capture stays on record.
LEMMA StaysDisturbed ==
    ASSUME TypeOK, [HoldNext]_holdVars, Undisturbed' PROVE Undisturbed
<1>1. ASSUME TakeDepth PROVE holdResync' = holdResync \/ holdResync' = holdResync + 1
  BY <1>1 DEF TakeDepth
<1>2. ASSUME NEW f \in Frames, Enter(f)
      PROVE  /\ UNCHANGED <<rewrites, stopFailed>>
             /\ holdResync' = holdResync \/ holdResync' = holdResync + 1
  BY <1>1, <1>2 DEF Enter, EnterMiss, EnterOverflow, EnterHold, EnterPlain, probeVars, lossVars
<1>3. CASE \E f \in Frames : Enter(f)
  BY <1>2, <1>3 DEF Undisturbed, TypeOK
<1>4. CASE Exit
  BY SMTT(120), <1>4 DEF Exit, ExitSkipped, ExitEmpty, ExitFault, ExitUnpaired, ExitPaired, probeVars,
     lossVars, Undisturbed
<1>5. CASE Tick \/ AttachFentry
  BY <1>5 DEF Tick, AttachFentry, probeVars, lossVars, unchangedByProbe, Undisturbed
<1>6. CASE Rewrite
  BY <1>6 DEF Rewrite, Undisturbed, TypeOK
<1>7. CASE Quiesce
  BY SMTT(120), <1>7 DEF Quiesce, QuiesceStop, QuiesceBarrier, CloseFentry, CloseFexit, QuiesceDone,
     unchangedByProbe, lossVars, Undisturbed
<1>8. CASE UNCHANGED holdVars
  BY <1>8 DEF holdVars, probeVars, lossVars, Undisturbed
<1>9. QED
  BY <1>3, <1>4, <1>5, <1>6, <1>7, <1>8 DEF HoldNext

LEMMA SlotsNat == \A s \in Slots : s \in Nat
  BY GatedAssumption DEF Slots

\* An entry that restarts no depth takes the next one of the nest.
LEMMA EntryNests ==
    ASSUME TypeOK, NEW k \in 0 .. top, NestIsHeld(k), NEW f \in Frames, HasFentry,
           Push(nextInv + 1, f), TakeDepth, ~StaleDepth,
           \A s \in Slots : s # depth => hold'[s] = hold[s],
           depth \in Slots /\ hold'[depth].valid =>
               hold'[depth].inv = nextInv + 1 /\ hold'[depth].frame = f
    PROVE  k \in 0 .. top' /\ NestIsHeld(k)'
<1>1. top \in Nat /\ top' = top + 1 /\ top + 1 \in 1 .. MaxNest
  BY Pushed
<1>5. \A i \in 1 .. top : stack'[i] = stack[i]
  BY Pushed
<1>6. /\ stack'[top + 1].inv = nextInv + 1 /\ stack'[top + 1].frame = f
      /\ stack'[top + 1].exits
  BY Pushed DEF HasFexit
<1>7. depth \in Nat /\ depth = top - k /\ Base = depth /\ depth' = depth + 1
  BY DEF NestIsHeld, TakeDepth, Base, TypeOK
<1>a. \A s \in Slots : s \in Nat
  BY SlotsNat
<1>8. \A i \in 1 .. k : ~stack'[i].exits
  <2>1. \A i \in 1 .. k : i \in 1 .. top
    BY <1>1
  <2>2. \A i \in 1 .. k : ~stack[i].exits
    BY Zenon DEF NestIsHeld
  <2> QED BY <1>5, <2>1, <2>2, Zenon
<1>9. \A i \in k + 1 .. top' : stack'[i].exits
  <2>1. \A i \in k + 1 .. top' : i = top + 1 \/ (i \in 1 .. top /\ i \in k + 1 .. top)
    BY <1>1
  <2>2. \A i \in k + 1 .. top : stack[i].exits
    BY DEF NestIsHeld
  <2> QED BY <1>5, <1>6, <2>1, <2>2, Zenon
<1>10. /\ depth \in Slots => enterI'[depth] = nextInv + 1
       /\ \A s \in Slots : s # depth => enterI'[s] = enterI[s]
  <2>1. depth \in Slots <=> depth < HoldSlots
    BY <1>7, GatedAssumption DEF Slots
  <2>2. /\ depth < HoldSlots => enterI' = [enterI EXCEPT ![depth] = nextInv + 1]
        /\ ~(depth < HoldSlots) => enterI' = enterI
    BY <1>7 DEF TakeDepth
  <2>3. enterI \in [Slots -> Nat]
    BY DEF TypeOK
  <2>4. QED
    BY <2>1, <2>2, <2>3
\* A slot below the depth belongs to a frame that was there already.
<1>11. \A s \in Slots : s < depth => k + s + 1 \in 1 .. top /\ stack'[k + s + 1] = stack[k + s + 1]
  <2> SUFFICES ASSUME NEW s \in Slots, s < depth
               PROVE  k + s + 1 \in 1 .. top /\ stack'[k + s + 1] = stack[k + s + 1]
    OBVIOUS
  <2>1. s \in Nat
    BY <1>a, Zenon
  <2>2. k + s + 1 \in 1 .. top
    BY <1>1, <1>7, <2>1
  <2> QED BY <1>5, <2>2, Zenon
<1>12. k + depth + 1 = top + 1
  BY <1>1, <1>7
<1>13. \A s \in Slots : s < depth' <=> s < depth \/ s = depth
  BY <1>7, GatedAssumption DEF Slots
<1>14. \A s \in Slots : s < depth' => enterI'[s] = stack'[k + s + 1].inv
  <2> SUFFICES ASSUME NEW s \in Slots, s < depth' PROVE enterI'[s] = stack'[k + s + 1].inv
    OBVIOUS
  <2>1. CASE s = depth
    BY <1>6, <1>10, <1>12, <2>1, Zenon
  <2>2. CASE s # depth
    <3>1. s < depth /\ enterI'[s] = enterI[s] /\ stack'[k + s + 1] = stack[k + s + 1]
      BY <1>10, <1>11, <1>13, <2>2, Zenon
    <3>2. enterI[s] = stack[k + s + 1].inv
      BY <3>1, Zenon DEF NestIsHeld
    <3> QED BY <3>1, <3>2, Zenon
  <2> QED BY <2>1, <2>2
<1>15. ASSUME NEW s \in Slots, hold'[s].valid
       PROVE  /\ s < depth'
              /\ hold'[s].inv = stack'[k + s + 1].inv
              /\ hold'[s].frame = stack'[k + s + 1].frame
  <2>1. CASE s = depth
    BY <1>6, <1>12, <1>13, <1>15, <2>1, Zenon
  <2>2. CASE s # depth
    <3>1. hold'[s] = hold[s]
      BY <2>2, Zenon
    <3>2. s < depth /\ hold[s].inv = stack[k + s + 1].inv /\ hold[s].frame = stack[k + s + 1].frame
      BY <1>15, <3>1, Zenon DEF NestIsHeld
    <3> QED BY <1>11, <1>13, <3>1, <3>2, Zenon
  <2> QED BY <2>1, <2>2
<1>16. k \in 0 .. top' /\ depth' = top' - k
  BY <1>1, <1>7
<1> QED BY <1>8, <1>9, <1>14, <1>15, <1>16, Zenon DEF NestIsHeld

\* A fexit runs for the innermost holder: it gives its depth back, with its hold.
LEMMA ExitNests ==
    ASSUME TypeOK, NEW k \in 0 .. top, NestIsHeld(k), Pop, stack[top].exits, GiveBack,
           \A s \in Slots : s # depth - 1 => hold'[s] = hold[s],
           depth - 1 \in Slots => ~hold'[depth - 1].valid
    PROVE  /\ k \in 0 .. top' /\ NestIsHeld(k)'
           /\ HeldByWaitedFor(k) => HeldByWaitedFor(k)'
           /\ HeldAt(depth) => Paired
<1>1. /\ top \in 1 .. MaxNest /\ top' = top - 1
      /\ waitFor \in 0 .. top /\ waitFor' = IF waitFor = top THEN top - 1 ELSE waitFor
  BY Popped
<1>2. \A i \in 1 .. top' : stack'[i] = stack[i]
  BY Popped
<1>3. k # top
  <2>1. \A i \in 1 .. k : ~stack[i].exits
    BY DEF NestIsHeld
  <2>2. top \in 1 .. top
    BY <1>1, GatedAssumption
  <2> QED BY <2>1, <2>2, Zenon
<1>4. depth = top - k /\ depth' = depth - 1 /\ enterI' = enterI
  <2>1. depth = top - k
    BY DEF NestIsHeld
  <2>2. depth # 0
    BY <1>1, <1>3, <2>1, GatedAssumption
  <2> QED BY <2>1, <2>2 DEF GiveBack
<1>5. k \in 0 .. top' /\ depth' = top' - k
  BY <1>1, <1>3, <1>4, GatedAssumption
<1>6. \A s \in Slots : s < depth' => s < depth /\ stack'[k + s + 1] = stack[k + s + 1]
  <2> SUFFICES ASSUME NEW s \in Slots, s < depth'
               PROVE  s < depth /\ stack'[k + s + 1] = stack[k + s + 1]
    OBVIOUS
  <2>1. s \in Nat
    BY GatedAssumption DEF Slots
  <2>2. s < depth /\ k + s + 1 \in 1 .. top'
    BY <1>1, <1>4, <1>5, <2>1, GatedAssumption
  <2> QED BY <1>2, <2>2, Zenon
<1>7. \A s \in Slots : s < depth => s < depth' \/ s = depth - 1
  BY <1>1, <1>4, GatedAssumption DEF Slots
<1>8. \A s \in Slots : hold'[s].valid =>
          /\ hold'[s] = hold[s] /\ s < depth' /\ stack'[k + s + 1] = stack[k + s + 1]
  <2> SUFFICES ASSUME NEW s \in Slots, hold'[s].valid
               PROVE  hold'[s] = hold[s] /\ s < depth' /\ stack'[k + s + 1] = stack[k + s + 1]
    OBVIOUS
  <2>1. s # depth - 1
    OBVIOUS
  <2>2. hold'[s] = hold[s]
    BY <2>1, Zenon
  <2>3. s < depth
    BY <2>2, Zenon DEF NestIsHeld
  <2> QED BY <1>6, <1>7, <2>1, <2>2, <2>3, Zenon
<1>9. \A s \in Slots : s < depth' => enterI'[s] = stack'[k + s + 1].inv
  <2>1. \A s \in Slots : s < depth => enterI[s] = stack[k + s + 1].inv
    BY DEF NestIsHeld
  <2> QED BY <1>4, <1>6, <2>1, Zenon
<1>10. \A s \in Slots : hold'[s].valid =>
           /\ s < depth'
           /\ hold'[s].inv = stack'[k + s + 1].inv
           /\ hold'[s].frame = stack'[k + s + 1].frame
  <2>1. \A s \in Slots : hold[s].valid =>
            hold[s].inv = stack[k + s + 1].inv /\ hold[s].frame = stack[k + s + 1].frame
    BY DEF NestIsHeld
  <2> QED BY <1>8, <2>1, Zenon
<1>11. /\ \A i \in 1 .. k : ~stack'[i].exits
       /\ \A i \in k + 1 .. top' : stack'[i].exits
  <2>1. /\ \A i \in 1 .. k : i \in 1 .. top'
        /\ \A i \in k + 1 .. top' : i \in 1 .. top' /\ i \in k + 1 .. top
    BY <1>1, <1>5, GatedAssumption
  <2>2. (\A i \in 1 .. k : ~stack[i].exits) /\ (\A i \in k + 1 .. top : stack[i].exits)
    BY DEF NestIsHeld
  <2> QED BY <1>2, <2>1, <2>2, Zenon
<1>12. NestIsHeld(k)'
  BY <1>5, <1>9, <1>10, <1>11, Zenon DEF NestIsHeld
<1>13. HeldByWaitedFor(k) => HeldByWaitedFor(k)'
  <2> SUFFICES ASSUME HeldByWaitedFor(k), NEW s \in Slots, hold'[s].valid
               PROVE  k + s + 1 <= waitFor'
    BY DEF HeldByWaitedFor
  <2>1. s \in Nat
    BY GatedAssumption DEF Slots
  <2>2. hold[s].valid /\ s < depth'
    BY <1>8, Zenon
  <2>3. k + s + 1 <= waitFor
    BY <2>2, Zenon DEF HeldByWaitedFor
  <2> QED BY <1>1, <1>4, <1>5, <2>1, <2>2, <2>3, GatedAssumption
<1>14. HeldAt(depth) => Paired
  <2>1. SUFFICES ASSUME depth - 1 \in Slots, hold[depth - 1].valid PROVE Paired
    BY DEF HeldAt
  <2>2. k + (depth - 1) + 1 = top
    BY <1>1, <1>4, GatedAssumption
  <2>3. QED
    BY <2>1, <2>2 DEF NestIsHeld, Paired
<1> QED BY <1>5, <1>12, <1>13, <1>14

\* Every step of an undisturbed capture loses nothing.
LEMMA NextLosesNothing ==
    ASSUME TypeOK, Undisturbed => NothingLost, [HoldNext]_holdVars, Undisturbed'
    PROVE  NothingLost'
<1> USE GatedAssumption
<1>1. Undisturbed /\ NothingLost
  BY StaysDisturbed
<1>2. PICK k \in 0 .. top : phase \in {"capturing", "stopping"} =>
          NestIsHeld(k) /\ (phase = "stopping" => HeldByWaitedFor(k))
  <2>1. 0 \in 0 .. top
    BY DEF TypeOK
  <2>2. QED
    BY <1>1, <2>1 DEF NothingLost
<1>3. ASSUME TakeDepth PROVE ~StaleDepth /\ Base = depth
  <2>1. holdResync = 0 /\ holdResync' = 0
    BY <1>1 DEF Undisturbed
  <2>2. QED
    BY <1>3, <2>1 DEF TakeDepth, Base
\* Entries.
<1>4. ASSUME NEW f \in Frames, HasFentry, Push(nextInv + 1, f), TakeDepth,
             UNCHANGED <<phase, stop, hold, holdOverwrite, holdUnpaired>>
      PROVE  NothingLost'
  <2>1. phase \in {"capturing", "stopping", "closing"} /\ waitFor' = waitFor
    BY <1>4 DEF HasFentry, Push
  <2>2. ASSUME phase \in {"capturing", "stopping"}
        PROVE  /\ k \in 0 .. top' /\ NestIsHeld(k)'
               /\ phase = "stopping" => HeldByWaitedFor(k)'
    <3>1. NestIsHeld(k) /\ ~StaleDepth
      BY <1>2, <1>3, <1>4, <2>2
    <3>2. depth \notin Slots \/ ~hold'[depth].valid
      <4>1. \A s \in Slots : hold[s].valid => s < depth
        BY <3>1 DEF NestIsHeld
      <4>2. depth \in Nat => ~(depth < depth)
        OBVIOUS
      <4>3. depth \in Nat
        BY DEF TypeOK
      <4> QED BY <1>4, <4>1, <4>2, <4>3, Zenon
    <3>3. k \in 0 .. top' /\ NestIsHeld(k)'
      BY <1>4, <3>1, <3>2, EntryNests
    <3>4. QED
      BY <1>2, <1>4, <2>1, <2>2, <3>3 DEF HeldByWaitedFor
  <2>3. QED
    BY <1>1, <1>4, <2>1, <2>2 DEF NothingLost
<1>5. ASSUME NEW f \in Frames, EnterMiss(f) PROVE NothingLost'
  BY <1>4, <1>5 DEF EnterMiss, probeVars
<1>6. ASSUME NEW f \in Frames, EnterOverflow(f) PROVE NothingLost'
  BY <1>4, <1>6 DEF EnterOverflow, probeVars
<1>7. ASSUME NEW f \in Frames, NEW err \in BOOLEAN, EnterHold(f, err) PROVE NothingLost'
  <2>1. /\ HasFentry /\ Push(nextInv + 1, f) /\ TakeDepth /\ stop = 0
        /\ UNCHANGED <<phase, stop, holdUnpaired>>
    BY <1>7 DEF EnterHold, probeVars
  <2>2. phase = "capturing" /\ NestIsHeld(k)
    BY <1>1, <1>2, <2>1 DEF HasFentry, NothingLost
  <2>3. Base = depth /\ ~StaleDepth
    BY <1>3, <2>1
  <2>4. depth \in Slots /\ enterI'[depth] = nextInv + 1
    BY <1>7, <2>1, <2>3, TakeDepthType DEF EnterHold
  <2>5. ~hold[depth].valid
    BY SMTT(120), <2>2, <2>4 DEF NestIsHeld, TypeOK
  <2>6. holdOverwrite' = holdOverwrite
    BY <1>7, <2>3, <2>5 DEF EnterHold
  <2>7. hold' = [hold EXCEPT ![depth] =
                    [valid |-> TRUE, inv |-> nextInv + 1, frame |-> f,
                     seq |-> nextSeq + 1, copyErr |-> err]]
    BY <1>7, <2>3, <2>4 DEF EnterHold
  <2>8. /\ \A s \in Slots : s # depth => hold'[s] = hold[s]
        /\ hold'[depth].inv = nextInv + 1 /\ hold'[depth].frame = f
    BY <2>4, <2>7 DEF TypeOK
  <2>9. k \in 0 .. top' /\ NestIsHeld(k)'
    BY <2>1, <2>2, <2>3, <2>8, EntryNests
  <2>10. QED
    BY <1>1, <2>1, <2>2, <2>6, <2>9 DEF NothingLost
<1>8. ASSUME NEW f \in Frames, EnterPlain(f) PROVE NothingLost'
  <2>1. phase \in {"attaching", "fexit_only"}
    BY <1>8 DEF EnterPlain, HasFexit, HasFentry
  <2>2. UNCHANGED <<phase, stop, depth, hold, holdOverwrite, holdUnpaired>>
    BY <1>8 DEF EnterPlain, probeVars, depthVars, lossVars
  <2>3. QED
    BY <1>1, <2>1, <2>2 DEF NothingLost
\* Exits.
<1>9. CASE ExitSkipped
  <2>1. /\ Pop /\ ~stack[top].exits
        /\ UNCHANGED <<phase, stop, depth, hold, enterI, holdOverwrite, holdUnpaired>>
    BY <1>9 DEF ExitSkipped, probeVars, depthVars, lossVars
  <2>2. /\ top \in 1 .. MaxNest /\ top' = top - 1
        /\ \A i \in 1 .. top' : stack'[i] = stack[i]
    BY <2>1, Popped
  <2>3. ASSUME phase \in {"capturing", "stopping"}
        PROVE  \E m \in 0 .. top' : NestIsHeld(m)' /\ HeldByWaitedFor(m)'
    <3>1. k = top
      <4>1. \A i \in k + 1 .. top : stack[i].exits
        BY <1>2, <2>3 DEF NestIsHeld
      <4>2. ~(top \in k + 1 .. top)
        BY <2>1, <4>1, Zenon
      <4> QED BY <2>2, <4>2
    <3>2. depth = 0
      <4>1. depth = top - k
        BY <1>2, <2>3, Zenon DEF NestIsHeld
      <4> QED BY <2>2, <3>1, <4>1
    <3>3. \A s \in Slots : ~hold[s].valid
      BY SMTT(120), <1>2, <2>3, <3>2 DEF NestIsHeld, Slots
    <3>4. PICK m \in 0 .. top' : m = top'
      BY <2>2
    <3>5. \A i \in 1 .. m : ~stack'[i].exits
      BY SMTT(120), <1>2, <2>2, <2>3, <3>1, <3>4 DEF NestIsHeld
    <3>6. depth' = top' - m /\ depth' = 0
      BY SMTT(120), <2>1, <2>2, <3>2, <3>4
    <3>7. NestIsHeld(m)'
      BY SMTT(120), <2>1, <2>2, <3>3, <3>4, <3>5, <3>6 DEF NestIsHeld, Slots
    <3>8. HeldByWaitedFor(m)'
      BY <2>1, <3>3 DEF HeldByWaitedFor
    <3>9. QED
      BY <3>7, <3>8
  <2>4. QED
    BY <1>1, <2>1, <2>3 DEF NothingLost
<1>10. ASSUME Pop, stack[top].exits, GiveBack, UNCHANGED <<phase, stop, holdOverwrite>>,
              \A s \in Slots : s # depth - 1 => hold'[s] = hold[s],
              depth - 1 \in Slots => ~hold'[depth - 1].valid,
              HeldAt(depth) /\ Paired => holdUnpaired' = holdUnpaired,
              ~HeldAt(depth) => holdUnpaired' = holdUnpaired
       PROVE  NothingLost'
  <2>1. \A s \in Slots : hold'[s].valid => hold[s].valid
    BY <1>10
  <2>2. CASE phase \in {"capturing", "stopping"}
    <3>1. NestIsHeld(k)
      BY <1>2, <2>2
    <3>2. /\ k \in 0 .. top' /\ NestIsHeld(k)'
          /\ HeldByWaitedFor(k) => HeldByWaitedFor(k)'
          /\ HeldAt(depth) => Paired
      BY <1>10, <3>1, ExitNests
    <3>3. phase = "stopping" => HeldByWaitedFor(k)'
      BY <1>2, <2>2, <3>2
    <3>4. holdUnpaired' = 0 /\ holdOverwrite' = 0
      BY <1>1, <1>10, <3>2 DEF NothingLost
    <3>5. QED
      BY <1>1, <1>10, <2>2, <3>2, <3>3, <3>4 DEF NothingLost
  <2>3. CASE phase \notin {"capturing", "stopping"}
    <3>1. \A s \in Slots : ~hold[s].valid
      BY <1>1, <2>3 DEF NothingLost
    <3>2. ~HeldAt(depth)
      BY <3>1 DEF HeldAt
    <3>3. phase = "attaching" => depth' = 0
      BY <1>1, <1>10 DEF NothingLost, GiveBack
    <3>4. QED
      BY <1>1, <1>10, <2>1, <2>3, <3>1, <3>2, <3>3 DEF NothingLost
  <2>4. QED
    BY <2>2, <2>3
<1>11. CASE ExitEmpty
  BY <1>10, <1>11 DEF ExitEmpty, HeldAt, probeVars, lossVars
<1>12. ASSUME Consume, HeldAt(depth)
       PROVE  /\ \A s \in Slots : s # depth - 1 => hold'[s] = hold[s]
              /\ depth - 1 \in Slots => ~hold'[depth - 1].valid
  <2>1. depth - 1 \in Slots
    BY <1>12 DEF HeldAt
  <2>2. hold'[depth - 1] = [hold[depth - 1] EXCEPT !.valid = FALSE]
    BY <1>12, <2>1 DEF Consume, TypeOK
  <2>3. ~hold'[depth - 1].valid
    BY <2>1, <2>2 DEF TypeOK
  <2>4. QED
    BY <1>12, <2>1, <2>3 DEF Consume, TypeOK
<1>13. CASE ExitFault
  BY <1>10, <1>12, <1>13 DEF ExitFault, probeVars, lossVars
<1>14. CASE ExitUnpaired
  BY <1>10, <1>12, <1>14 DEF ExitUnpaired, probeVars
<1>15. CASE ExitPaired
  BY <1>10, <1>12, <1>15 DEF ExitPaired, probeVars, lossVars
\* The environment and the probe's life.
<1>16. CASE Tick
  BY <1>1, <1>16 DEF Tick, probeVars, liveVars, lossVars, NothingLost, NestIsHeld,
     HeldByWaitedFor
<1>17. CASE Rewrite
  BY <1>1, <1>17 DEF Rewrite, Undisturbed
<1>18. CASE AttachFentry
  <2>1. /\ phase = "attaching" /\ phase' = "capturing" /\ Rewritten
        /\ UNCHANGED <<top, depth, enterI, hold, holdOverwrite, holdUnpaired>>
    BY <1>18 DEF AttachFentry, unchangedByProbe, depthVars, lossVars
  <2>2. depth = 0 /\ \A s \in Slots : ~hold[s].valid
    BY <1>1, <2>1 DEF NothingLost
  <2>3. top \in 0 .. MaxNest /\ \A i \in 1 .. top : ~stack'[i].exits
    BY SMTT(120), <2>1 DEF Rewritten, TypeOK
  <2>4. PICK m \in 0 .. top : m = top
    BY <2>3
  <2>5. NestIsHeld(m)'
    <3>1. depth' = top' - m /\ \A i \in m + 1 .. top' : FALSE
      BY <2>1, <2>2, <2>3, <2>4
    <3>2. \A s \in Slots : ~(s < depth')
      BY <2>1, <2>2 DEF Slots
    <3>3. \A s \in Slots : ~hold'[s].valid
      BY <2>1, <2>2
    <3> QED BY <2>3, <2>4, <3>1, <3>2, <3>3, Zenon DEF NestIsHeld
  <2>6. QED
    BY <1>1, <2>1, <2>4, <2>5 DEF NothingLost
<1>19. CASE QuiesceStop
  <2>1. /\ phase = "capturing" /\ phase' = "stopping" /\ stop' = 1 /\ waitFor' = top
        /\ UNCHANGED <<stack, top, depth, enterI, hold, holdOverwrite, holdUnpaired>>
    BY <1>19 DEF QuiesceStop, Undisturbed, unchangedByProbe, depthVars, lossVars
  <2>2. NestIsHeld(k)
    BY <1>2, <2>1
  <2>3. NestIsHeld(k)'
    BY <2>1, <2>2 DEF NestIsHeld
  <2>4. HeldByWaitedFor(k)'
    <3>1. \A s \in Slots : hold[s].valid => s < depth
      BY <2>2 DEF NestIsHeld
    <3>2. top \in Nat /\ depth = top - k /\ \A s \in Slots : s \in Nat
      BY <2>2, SlotsNat DEF NestIsHeld, TypeOK
    <3> QED BY <2>1, <3>1, <3>2 DEF HeldByWaitedFor
  <2>5. QED
    BY <1>1, <2>1, <2>3, <2>4 DEF NothingLost
<1>20. CASE QuiesceBarrier
  <2>1. /\ phase = "stopping" /\ waitFor = 0 /\ phase' = "closing"
        /\ UNCHANGED <<stop, hold, holdOverwrite, holdUnpaired>>
    BY <1>20 DEF QuiesceBarrier, unchangedByProbe, lossVars
  <2>2. \A s \in Slots : ~hold[s].valid
    BY <1>2, <2>1 DEF HeldByWaitedFor, Slots
  <2>3. QED
    BY <1>1, <2>1, <2>2 DEF NothingLost
<1>21. CASE CloseFentry \/ CloseFexit \/ QuiesceDone
  BY <1>1, <1>21 DEF CloseFentry, CloseFexit, QuiesceDone, unchangedByProbe, lossVars,
     NothingLost
<1>22. CASE UNCHANGED holdVars
  BY <1>1, <1>22 DEF holdVars, probeVars, liveVars, depthVars, lossVars, NothingLost,
     NestIsHeld, HeldByWaitedFor
<1>23. QED
  BY <1>5, <1>6, <1>7, <1>8, <1>9, <1>11, <1>13, <1>14, <1>15, <1>16, <1>17, <1>18,
     <1>19, <1>20, <1>21, <1>22 DEF HoldNext, Enter, Exit, Quiesce

\* A capture nobody disturbed loses no hold and leaves none behind, for any number of
\* slots and invocations: the stop flag and the first barrier come before the detach.
THEOREM UndisturbedCorrect == HoldSpec => []UndisturbedLosesNothing
<1>1. HoldInit => (Undisturbed => NothingLost)
  BY SMTT(120) DEF HoldInit, NothingLost, Empty
<1>2. TypeOK /\ (Undisturbed => NothingLost) /\ [HoldNext]_holdVars => (Undisturbed => NothingLost)'
  BY NextLosesNothing
<1>3. (Undisturbed => NothingLost) => UndisturbedLosesNothing
  BY DEF Undisturbed, NothingLost, UndisturbedLosesNothing, ValidSlots
<1>4. QED
  BY <1>1, <1>2, <1>3, InitType, NextType, PTL DEF HoldSpec

=============================================================================
