---------------------------- MODULE FieldWindow ----------------------------
(***************************************************************************)
(* How a Kunai field becomes a value in R3 (pkg/kunai/codegen/codegen.go): *)
(* the window of bytes that covers a field or a bit slice of it, the       *)
(* address of a stack entry whose position is only known at run time, the  *)
(* bounded load, and the shifts and masks after it.                        *)
(*                                                                         *)
(* Packet bits are kept symbolic: a register is the sequence of the 64     *)
(* packet bits it holds, most significant first, so that one execution     *)
(* stands for every packet content.  Only the bytes the code computes with *)
(* (an index, a count, an entry's length, a presence flag) have values.    *)
(***************************************************************************)
EXTENDS Integers, Sequences

CONSTANTS
    WindowRefs,           \* the fields read, see below
    PacketsOf(_),   \* ref -> packets it is read from
    Layer,          \* byte at which the layer starts
    HeaderSize,     \* bytes of its primary header
    ScratchBufSize

VARIABLES
    windowRef,   \* the field read
    windowPkt,   \* the packet
    windowCode,  \* instructions, empty until generated
    windowOut,   \* "none", then "read", "absent" or "unproved"
    windowValue  \* R3 after the read

windowVars == <<windowRef, windowPkt, windowCode, windowOut, windowValue>>

(***************************************************************************)
(* A ref: place ("primary", "aux", "option", "stack"), anchor ("r4",       *)
(* "slot", "abs"), bitOff and width from the header's or entry's start,    *)
(* lo and hi (the slice, lo = -1 for none), gated, elem (bytes of an       *)
(* entry), off (OffsetInLayer, or OffsetAfterOwner of an option), index    *)
(* (-1 for a dynamic one), varTail with its scale and least (MinTotal),    *)
(* capacity, push (StackPushBound), bound ("slot", "hdr", "none"),         *)
(* writeBack.                                                              *)
(*                                                                         *)
(* A packet: len, idx and cnt (bytes 0 and 1 of the header), flag (byte    *)
(* 2), pushed (entries), tails (their length bytes), opt (where the option *)
(* starts, -1 if absent).                                                  *)
(***************************************************************************)
IdxOff == 0
CntOff == 1
FlagOff == 2
WriteBackOff == 3
LenFieldByteOff == 1
IsAux(r) == r.place # "primary"
WindowMinOf(a, b) == IF a < b THEN a ELSE b

sliceSplitWindow == 9

\* 0 when no single load covers the bytes.
nextLDXSize(cover) ==
    CASE cover <= 1 -> 1 [] cover = 2 -> 2 [] cover \in 3..4 -> 4 [] cover \in 5..8 -> 8 [] OTHER -> 0

Cover(bitOff, width) == ((bitOff % 8) + width + 7) \div 8
ByteClean(r) == r.bitOff % 8 = 0 /\ r.width % 8 = 0
Sliced(r) == r.lo # -1
SliceLen(r) == r.hi - r.lo

bareSubByteField(r) == ~Sliced(r) /\ ~ByteClean(r)

\* An unsliced field over nine bytes is read as its [0:width] slice.
splitBareField(r) ==
    IF bareSubByteField(r) /\ r.width <= 64 /\ Cover(r.bitOff, r.width) = sliceSplitWindow
    THEN [r EXCEPT !.lo = 0, !.hi = r.width] ELSE r

sliceBits(r) == <<r.lo + (r.bitOff % 8), r.hi + (r.bitOff % 8)>>

SliceCover(r) == ((sliceBits(r)[2] + 7) \div 8) - (sliceBits(r)[1] \div 8)

sliceSplitsLoad(r0) ==
    LET r == splitBareField(r0)
    IN  Sliced(r) /\ SliceLen(r) <= 64 /\ SliceCover(r) = sliceSplitWindow

\* Moved back where the rounded window would run past the end of the field.
sliceWindowStart(r, loadBytes) ==
    LET start == sliceBits(r)[1] \div 8
        bytes == r.width \div 8
    IN  IF ByteClean(r) /\ bytes >= loadBytes /\ start + loadBytes > bytes
        THEN bytes - loadBytes ELSE start

\* Windows are <<offset, bytes>>; bytes 0 is a refusal.
WindowRefused == <<0, 0>>

applySliceToOffset(r, off, size) ==
    LET cover == SliceCover(r)
        load  == IF nextLDXSize(cover) = 0 /\ cover = sliceSplitWindow /\ SliceLen(r) <= 64
                 THEN sliceSplitWindow ELSE nextLDXSize(cover)
    IN  IF ~Sliced(r) THEN <<off, size>>
        ELSE IF load = 0 THEN WindowRefused
        ELSE <<off + sliceWindowStart(r, load), load>>

subByteWindow(bitOff, width) == <<bitOff \div 8, nextLDXSize(Cover(bitOff, width))>>

findFieldByteOffset(r) ==
    IF ByteClean(r) /\ r.width <= 64 THEN <<r.bitOff \div 8, r.width \div 8>> ELSE WindowRefused

auxFieldWindow(r0) ==
    LET r == splitBareField(r0)
        w == CASE Sliced(r) -> applySliceToOffset(r, r.bitOff \div 8, 0)
               [] ~Sliced(r) /\ ByteClean(r) ->
                    IF r.width > 64 THEN WindowRefused ELSE <<r.bitOff \div 8, r.width \div 8>>
               [] OTHER -> subByteWindow(r.bitOff, r.width)
    IN  IF ~ByteClean(r) /\ w[1] + w[2] > r.elem THEN WindowRefused ELSE w

needsEntryAddress(r) == r.place = "stack" /\ (r.index = -1 \/ (r.index > 0 /\ r.varTail))

fieldRefByteOffset(r0) ==
    LET r   == splitBareField(r0)
        aux == auxFieldWindow(r)
    IN  CASE ~IsAux(r) ->
               (CASE findFieldByteOffset(r) # WindowRefused ->
                       applySliceToOffset(r, findFieldByteOffset(r)[1], findFieldByteOffset(r)[2])
                  [] findFieldByteOffset(r) = WindowRefused /\ Sliced(r) ->
                       applySliceToOffset(r, r.bitOff \div 8, SliceLen(r) \div 8)
                  [] OTHER -> IF ByteClean(r) THEN WindowRefused ELSE subByteWindow(r.bitOff, r.width))
          [] IsAux(r) /\ aux[2] = 0 -> WindowRefused
          [] OTHER -> <<r.off + aux[1] + (IF r.place = "stack" THEN r.index * r.elem ELSE 0), aux[2]>>

dynamicOffsetAuxEntryOff(r) == IF r.index > -1 THEN r.off + r.index * r.elem ELSE 0

scalarFieldWindow(r) ==
    CASE r.place = "option" ->
           LET w == auxFieldWindow(r)
           IN  IF w[2] = 0 THEN WindowRefused ELSE <<dynamicOffsetAuxEntryOff(r) + w[1], w[2]>>
      [] needsEntryAddress(r) -> auxFieldWindow(r)
      [] OTHER -> fieldRefByteOffset(r)

\* <<shift, width to keep>>; <<0, 0>> when the window is the value.
slicePostAdjust(r0, loadBytes) ==
    LET r     == splitBareField(r0)
        start == sliceWindowStart(r, loadBytes)
        b     == sliceBits(r)
    IN  CASE Sliced(r) ->
               IF b[2] - start * 8 = loadBytes * 8 /\ b[1] = start * 8 /\ SliceLen(r) = loadBytes * 8
               THEN <<0, 0>> ELSE <<loadBytes * 8 - (b[2] - start * 8), SliceLen(r)>>
          [] bareSubByteField(r) -> <<loadBytes * 8 - ((r.bitOff % 8) + r.width), r.width>>
          [] OTHER -> <<0, 0>>

(***************************************************************************)
(* Instructions.  k is ToFail or the number of instructions a jump skips,  *)
(* and the bytes of a load or of a byte-order change.                      *)
(***************************************************************************)
WindowToFail == -1
WindowIns(op, d, s, n, k) == [op |-> op, d |-> d, s |-> s, n |-> n, k |-> k]
LoadSlot(d, slot) == WindowIns("slot", d, slot, 0, 0)
WindowMov(d, s) == WindowIns("mov", d, s, 0, 0)
WindowMovImm(d, n) == WindowIns("movi", d, "-", n, 0)
Add(d, s) == WindowIns("add", d, s, 0, 0)
AddImm(d, n) == WindowIns("addi", d, "-", n, 0)
WindowJumpImm(op, d, n, to) == WindowIns(op, d, "imm", n, to)
WindowJump(op, d, s, to) == WindowIns(op, d, s, 0, to)
LoadMem(d, s, off, size) == WindowIns("ldx", d, s, off, size)

foldOffsetIntoScalar(dst, src, off) ==
    (IF dst # src THEN <<WindowMov(dst, src)>> ELSE <<>>) \o (IF off > 0 THEN <<AddImm(dst, off)>> ELSE <<>>)

boundedScalarLoad(dst, scalar, size) ==
    <<WindowJumpImm("JGT", scalar, ScratchBufSize - size, WindowToFail)>>
    \o (IF dst = scalar THEN <<Add(dst, "r0")>> ELSE <<WindowMov(dst, "r0"), Add(dst, scalar)>>)
    \o <<AddImm(dst, size), WindowJump("JGT", dst, "r1", WindowToFail), LoadMem(dst, dst, 0 - size, size)>>

\* dst is the only register written.
emitFieldLoadTo(dst, r, off, size) ==
    CASE r.writeBack /\ off = WriteBackOff /\ size = 1 -> <<LoadSlot(dst, "writeBack")>>
      [] r.anchor = "slot" -> <<LoadSlot(dst, "layer")>> \o foldOffsetIntoScalar(dst, dst, off)
                              \o boundedScalarLoad(dst, dst, size)
      [] r.anchor = "r4" -> foldOffsetIntoScalar(dst, "r4", off) \o boundedScalarLoad(dst, dst, size)
      [] OTHER -> <<WindowMov(dst, "r0"), AddImm(dst, Layer + off + size),
                    WindowJump("JGT", dst, "r1", WindowToFail), LoadMem(dst, dst, 0 - size, size)>>

emitFieldLoad(r, off, size) == emitFieldLoadTo("r3", r, off, size)

WindowGate(r) == [r EXCEPT !.writeBack = FALSE]
emitAuxGating(r) ==
    IF ~r.gated THEN <<>>
    ELSE emitFieldLoad(WindowGate(r), FlagOff, 1) \o <<WindowJumpImm("JEQ", "r3", 0, WindowToFail)>>

emitDynamicAuxByteLoad(off, size) ==
    <<LoadSlot("r3", "option"), WindowJumpImm("JEQ", "r3", -1, WindowToFail)>>
    \o foldOffsetIntoScalar("r5", "r3", off) \o boundedScalarLoad("r3", "r5", size)

emitHeaderCount(dst, r) == emitFieldLoadTo(dst, WindowGate(r), CntOff, 1) \o <<AddImm(dst, 1)>>

(***************************************************************************)
(* The address of a stack entry: R5 = its start.                           *)
(***************************************************************************)

emitDynamicIndexRead(r) ==
    (CASE r.anchor = "slot" -> <<LoadSlot("r5", "layer")>> \o foldOffsetIntoScalar("r3", "r5", IdxOff)
       [] r.anchor = "r4" -> foldOffsetIntoScalar("r3", "r4", IdxOff)
       [] OTHER -> <<WindowMovImm("r3", Layer + IdxOff)>>)
    \o boundedScalarLoad("r3", "r3", 1)
    \o <<WindowJumpImm("JGE", "r3", r.capacity, WindowToFail)>>
    \o (CASE r.bound = "slot" -> <<LoadSlot("r2", "pushed"), WindowJump("JGE", "r3", "r2", WindowToFail)>>
          [] r.bound = "hdr" -> emitHeaderCount("r2", r) \o <<WindowJump("JGE", "r3", "r2", WindowToFail)>>
          [] OTHER -> <<>>)

emitEntryBaseScalar(r, slotInR5) ==
    CASE r.anchor = "slot" ->
           <<IF slotInR5 THEN WindowMov("r3", "r5") ELSE LoadSlot("r3", "layer"), AddImm("r3", r.off)>>
      [] r.anchor = "r4" -> <<WindowMov("r3", "r4"), AddImm("r3", r.off)>>
      [] OTHER -> <<WindowMovImm("r3", Layer + r.off)>>

\* The length byte counts the tail, or with r.least the whole entry, in units.
emitTailLengthScalar(r) ==
    <<WindowIns("muli", "r2", "-", r.scale, 0)>>
    \o (IF r.least > 0 THEN <<WindowJumpImm("JLT", "r2", r.least, WindowToFail), AddImm("r2", 0 - r.least)>> ELSE <<>>)

emitVarTailStep(r) ==
    <<WindowMov("r2", "r3"), AddImm("r2", LenFieldByteOff)>> \o boundedScalarLoad("r2", "r2", 1)
    \o emitTailLengthScalar(r) \o <<AddImm("r3", r.elem), Add("r3", "r2")>>

emitExposeEntry(r) ==
    <<WindowJumpImm("JGT", "r3", ScratchBufSize - r.elem, WindowToFail),
      WindowMov("r5", "r0"), Add("r5", "r3"), WindowMov("r3", "r5"), AddImm("r3", r.elem),
      WindowJump("JGT", "r3", "r1", WindowToFail)>>

emitDynamicStackAddressCounted(r) ==
    emitDynamicIndexRead(r)
    \o <<WindowIns("muli", "r3", "-", r.elem, 0), AddImm("r3", r.off)>>
    \o (CASE r.anchor = "r4" -> <<Add("r3", "r4")>>
          [] r.anchor = "slot" -> <<Add("r3", "r5")>>
          [] OTHER -> <<AddImm("r3", Layer)>>)
    \o emitExposeEntry(r)

RECURSIVE VarWalk(_, _, _), VarSteps(_, _)
\* Steps from entry k on, left at the entry R5 names.
VarWalk(r, k, bound) ==
    IF k = bound - 1 THEN <<WindowJumpImm("JNE", "r5", k, WindowToFail)>>
    ELSE LET rest == emitVarTailStep(r) \o VarWalk(r, k + 1, bound)
         IN  <<WindowJumpImm("JEQ", "r5", k, Len(rest))>> \o rest

emitDynamicVarTailStackAddress(r) ==
    emitDynamicIndexRead(r) \o <<WindowMov("r2", "r3")>> \o emitEntryBaseScalar(r, TRUE)
    \o <<WindowMov("r5", "r2")>> \o VarWalk(r, 0, WindowMinOf(r.capacity, r.push)) \o emitExposeEntry(r)

VarSteps(r, n) == IF n = 0 THEN <<>> ELSE emitVarTailStep(r) \o VarSteps(r, n - 1)

emitStaticStackEntryAddress(r) ==
    emitEntryBaseScalar(r, FALSE)
    \o (CASE r.varTail -> VarSteps(r, r.index)
          [] ~r.varTail /\ r.index > 0 -> <<AddImm("r3", r.index * r.elem)>>
          [] OTHER -> <<>>)
    \o emitExposeEntry(r)

emitStackEntryAddress(r) ==
    CASE r.index # -1 -> emitStaticStackEntryAddress(r)
      [] r.index = -1 /\ r.varTail -> emitDynamicVarTailStackAddress(r)
      [] OTHER -> emitDynamicStackAddressCounted(r)

(***************************************************************************)
(* The read and its value.                                                 *)
(***************************************************************************)
WindowRefuse == WindowIns("refuse", "-", "-", 0, 0)
WindowHostTo(d, bytes) == WindowIns("hostto", d, "-", 0, bytes)

emitSplitSliceLoad(r, off) ==
    CASE r.place = "option" -> <<WindowRefuse>>
      [] needsEntryAddress(r) -> emitStackEntryAddress(r)
                                 \o <<LoadMem("r2", "r5", off + 8, 1), LoadMem("r3", "r5", off, 8)>>
      [] OTHER -> emitAuxGating(r) \o emitFieldLoadTo("r2", r, off + 8, 1) \o emitFieldLoad(r, off, 8)

\* The load of the window w of the reference r.
LoadWindow(r, w) ==
    CASE w[2] = sliceSplitWindow -> emitSplitSliceLoad(r, w[1])
      [] w[2] \notin {1, 2, 4, 8, sliceSplitWindow} -> <<WindowRefuse>>
      [] w[2] \in {1, 2, 4, 8} /\ r.place = "option" -> emitDynamicAuxByteLoad(w[1], w[2])
      [] w[2] \in {1, 2, 4, 8} /\ needsEntryAddress(r) ->
           emitStackEntryAddress(r) \o <<LoadMem("r3", "r5", w[1], w[2])>>
      [] OTHER -> emitAuxGating(r) \o emitFieldLoad(r, w[1], w[2])

windowEmitScalarFieldLoad(r) == LoadWindow(splitBareField(r), scalarFieldWindow(splitBareField(r)))

\* A mask over the immediate's 31 bits goes through R5.
emitSliceShiftMask(r, loadBytes) ==
    LET a == slicePostAdjust(r, loadBytes)
    IN  (IF a[1] > 0 THEN <<WindowIns("rsh", "r3", "-", a[1], 0)>> ELSE <<>>)
        \o (CASE a[2] \in 1..31 -> <<WindowIns("andi", "r3", "-", a[2], 0)>>
              [] a[2] \in 32..63 -> <<WindowIns("mask", "r5", "-", a[2], 0), WindowIns("and", "r3", "r5", 0, 0)>>
              [] OTHER -> <<>>)

windowEmitFieldValue(r0, bytes) ==
    LET r == splitBareField(r0)
        s == sliceBits(r)[1] % 8
    IN  IF sliceSplitsLoad(r)
        THEN <<WindowHostTo("r3", 8), WindowIns("lsh", "r3", "-", s, 0), WindowIns("rsh", "r2", "-", 8 - s, 0),
               WindowIns("or", "r3", "r2", 0, 0)>>
             \o (IF SliceLen(r) < 64 THEN <<WindowIns("rsh", "r3", "-", 64 - SliceLen(r), 0)>> ELSE <<>>)
        ELSE (IF bytes > 1 THEN <<WindowHostTo("r3", bytes)>> ELSE <<>>) \o emitSliceShiftMask(r, bytes)

windowGenArithFieldLoad(r) == windowEmitScalarFieldLoad(r) \o windowEmitFieldValue(r, scalarFieldWindow(splitBareField(r))[2])

(***************************************************************************)
(* Execution on symbolic bits.  Bit b of byte a is 8 * a + b; the bits of  *)
(* the written-back byte are WriteBackBit(0) to WriteBackBit(7).           *)
(***************************************************************************)
Zero == -1
WriteBackBit(b) == 8 * ScratchBufSize + b
Zeros(n) == [i \in 1..n |-> Zero]

RECURSIVE EntryStart(_, _, _)
EntryStart(r, p, k) ==
    IF k = 0 THEN Layer + r.off
    ELSE EntryStart(r, p, k - 1) + r.elem + (IF r.varTail THEN p.tails[k] * r.scale - r.least ELSE 0)

\* The bytes the code computes with.
WindowByte(r, p, a) ==
    CASE a = Layer + IdxOff -> p.idx
      [] a = Layer + CntOff -> p.cnt
      [] a = Layer + FlagOff -> p.flag
      [] OTHER -> p.tails[CHOOSE k \in 1..Len(p.tails) : a = EntryStart(r, p, k - 1) + LenFieldByteOff]
IsControl(r, p, a) ==
    \/ a \in Layer..(Layer + FlagOff)
    \/ /\ r.place = "stack" /\ r.varTail
       /\ \E k \in 1..Len(p.tails) : a = EntryStart(r, p, k - 1) + LenFieldByteOff

LittleEndian(a, n) == Zeros(64 - 8 * n) \o [i \in 1..(8 * n) |-> 8 * (a + n - 1 - ((i - 1) \div 8)) + ((i - 1) % 8)]
Swapped(v, n) ==
    Zeros(64 - 8 * n) \o [i \in 1..(8 * n) |-> v[64 - 8 * n + 8 * (n - 1 - ((i - 1) \div 8)) + ((i - 1) % 8) + 1]]
LowBits(v, w) == Zeros(64 - w) \o SubSeq(v, 65 - w, 64)

SlotValue(p, slot) ==
    CASE slot = "layer" -> Layer [] slot = "option" -> p.opt [] slot = "pushed" -> p.pushed
      [] slot = "writeBack" -> Zeros(56) \o [i \in 1..8 |-> WriteBackBit(i - 1)]

WindowTaken(op, a, b) ==
    CASE op = "JEQ" -> a = b [] op = "JNE" -> a # b [] op = "JGE" -> a >= b
      [] op = "JGT" -> a > b [] op = "JLT" -> a < b

\* A comparison with the packet end proves the bytes before the pointer.
WindowStepIns(i, r, p, m) ==
    LET next == [m EXCEPT !.pc = @ + 1]
        v    == m.r[i.d]
        set(x) == [next EXCEPT !.r[i.d] = x]
        goto == IF i.k = WindowToFail THEN [m EXCEPT !.out = "absent"] ELSE [m EXCEPT !.pc = @ + 1 + i.k]
    IN  CASE i.op = "slot" -> set(SlotValue(p, i.s))
          [] i.op = "mov" -> set(m.r[i.s])
          [] i.op = "movi" -> set(i.n)
          [] i.op = "add" -> set(v + m.r[i.s])
          [] i.op = "addi" -> set(v + i.n)
          [] i.op = "muli" -> set(v * i.n)
          [] i.op = "ldx" -> LET a == m.r[i.s] + i.n
                             IN  IF a + i.k > m.proved THEN [m EXCEPT !.out = "unproved"]
                                 ELSE set(IF i.k = 1 /\ IsControl(r, p, a) THEN WindowByte(r, p, a)
                                          ELSE LittleEndian(a, i.k))
          [] i.op = "hostto" -> set(Swapped(v, i.k))
          [] i.op = "rsh" -> set(Zeros(i.n) \o SubSeq(v, 1, 64 - i.n))
          [] i.op = "lsh" -> set(SubSeq(v, i.n + 1, 64) \o Zeros(i.n))
          [] i.op = "or" -> set([b \in 1..64 |-> IF v[b] = Zero THEN m.r[i.s][b] ELSE v[b]])
          [] i.op = "mask" -> set(i.n)
          [] i.op = "and" -> set(LowBits(v, m.r[i.s]))
          \* A 32-bit immediate mask is sign-extended.
          [] i.op = "andi" -> set(IF i.n = 32 THEN v ELSE LowBits(v, i.n))
          [] OTHER -> LET b == IF i.s = "imm" THEN i.n ELSE m.r[i.s]
                      IN  IF WindowTaken(i.op, v, b) THEN goto
                          ELSE IF i.s = "r1" /\ v > m.proved THEN [next EXCEPT !.proved = v]
                          ELSE next

RECURSIVE WindowExec(_, _, _, _)
WindowExec(insns, r, p, m) ==
    CASE m.out # "running" -> m
      [] m.out = "running" /\ m.pc > Len(insns) -> [m EXCEPT !.out = "read"]
      [] OTHER -> WindowExec(insns, r, p, WindowStepIns(insns[m.pc], r, p, m))

WindowMachine(p) ==
    [pc |-> 1, out |-> "running", proved |-> 0,
     r |-> [x \in {"r0", "r1", "r2", "r3", "r4", "r5"} |->
              CASE x = "r1" -> p.len [] x = "r4" -> Layer [] OTHER -> 0]]

(***************************************************************************)
WindowInit ==
    /\ windowRef \in WindowRefs
    /\ windowPkt \in PacketsOf(windowRef)
    /\ windowCode = <<>>
    /\ windowOut = "none"
    /\ windowValue = 0

Generate ==
    /\ windowCode = <<>>
    /\ windowCode' = windowGenArithFieldLoad(windowRef)
    /\ UNCHANGED <<windowRef, windowPkt, windowOut, windowValue>>

IsRefused == WindowRefuse \in {windowCode[i] : i \in DOMAIN windowCode}

Read ==
    /\ windowCode # <<>>
    /\ windowOut = "none"
    /\ ~IsRefused
    /\ LET m == WindowExec(windowCode, windowRef, windowPkt, WindowMachine(windowPkt))
       IN  /\ windowOut' = m.out
           /\ windowValue' = IF m.out = "read" THEN m.r["r3"] ELSE 0
    /\ UNCHANGED <<windowRef, windowPkt, windowCode>>

WindowNext == Generate \/ Read \/ ((windowOut # "none" \/ IsRefused) /\ UNCHANGED windowVars)
WindowSpec == WindowInit /\ [][WindowNext]_windowVars

(***************************************************************************)
(* Properties                                                              *)
(***************************************************************************)
Index == IF windowRef.index = -1 THEN windowPkt.idx ELSE windowRef.index
WindowCount ==
    CASE windowRef.bound = "slot" -> windowPkt.pushed [] windowRef.bound = "hdr" -> windowPkt.cnt + 1 [] OTHER -> windowRef.capacity

\* The field is there: its flag is set, its option was found, its entry is one
\* of those the packet carries.
WindowPresent ==
    /\ windowRef.gated => windowPkt.flag # 0
    /\ windowRef.place = "option" => windowPkt.opt # -1
    /\ (windowRef.place = "stack" /\ windowRef.index = -1) =>
          Index < windowRef.capacity /\ Index < WindowCount /\ (windowRef.varTail => Index < windowRef.push)

Start ==
    CASE windowRef.place = "primary" -> Layer
      [] windowRef.place = "aux" -> Layer + windowRef.off
      [] windowRef.place = "option" -> windowPkt.opt + (IF windowRef.index > -1 THEN windowRef.off + windowRef.index * windowRef.elem ELSE 0)
      [] windowRef.place = "stack" -> EntryStart(windowRef, windowPkt, Index)

\* The bits asked for, as a 64-bit number.
Wanted ==
    LET first == 8 * Start + windowRef.bitOff + (IF Sliced(windowRef) THEN windowRef.lo ELSE 0)
        width == IF Sliced(windowRef) THEN SliceLen(windowRef) ELSE windowRef.width
        overlaid == windowRef.writeBack /\ windowRef.bitOff = 8 * WriteBackOff
        bit(n) == IF overlaid THEN WriteBackBit(n - 8 * (Layer + WriteBackOff)) ELSE n
    IN  Zeros(64 - width) \o [i \in 1..width |-> bit(first + i - 1)]

\* A read that goes through (emitScalarFieldLoad, emitFieldValue) finds the
\* field present and leaves exactly its bits, of the entry the index names.
ReadsTheField == windowOut = "read" => WindowPresent /\ windowValue = Wanted

\* A field whose bytes are all in the packet is read: the rounded window of a
\* byte-aligned field at least that wide stays inside it (sliceWindowStart).
WholeFieldIsRead ==
    LET bytes == windowRef.width \div 8
        wide  == ~Sliced(windowRef) \/ bytes >= nextLDXSize(SliceCover(windowRef))
    IN  (windowOut = "absent" /\ WindowPresent) =>
          ~(ByteClean(windowRef) /\ wide /\ Start + (windowRef.bitOff \div 8) + bytes <= windowPkt.len)
            \/ (windowRef.place = "stack" /\ Start + windowRef.elem > windowPkt.len)

\* Every load is preceded by a comparison that proves its bytes inside the
\* packet (auxFieldWindow: the walk proved only the entry's bytes).
LoadsAreProved == windowOut # "unproved"
=============================================================================
