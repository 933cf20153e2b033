------------------------------ MODULE SetKeys ------------------------------
(* The key a BPF program looks up in a match set, built on its stack either    *)
(* from packet fields (`x in @s`: SlotFor allots a buffer, the filter stores    *)
(* the fields in it) or from function arguments (`@s`: emitSetFilters), against *)
(* the key `set add` writes for the same values (BuildKey). A number is the     *)
(* sequence of its bytes, lowest first; the host is little-endian.              *)
EXTENDS SetLayout

CONSTANTS
    Schemas,          \* key schemas a set may have
    PktFields,        \* [width, room]: bytes of a packet field, and header bytes after it
    MaxPreds          \* bound: `in @set` predicates of one filter

ASSUME KeysAssumption == MaxPreds \in Nat

VARIABLES
    defs,             \* set -> its opened definition
    keysPkt,              \* DSL field name -> packet field, for the names the filter has mentioned
    slots,            \* pktSetSlots: base per set (0: not allocated) and the cursor
    keysOut,              \* the extractions emitted so far
    phase,            \* "compile", "refused", "ran", "args"
    stack,            \* offset from R10 -> byte after the filter ran
    keysRead              \* what was read: [field name -> bytes] or [set, values]

keysVars == <<defs, keysPkt, slots, keysOut, phase, stack, keysRead>>

Sets == {"s", "t"}
Names == {"x", "y"}
Junk == -1
pktSetKeyTop == -24
pktSetKeyFloor == -40
KunaiStackTop == -56
setKeyBase == -120

Zeros(n) == [i \in 1 .. n |-> 0]
FieldNames(def) == {def.Fields[i].name : i \in 1 .. Len(def.Fields)}
FieldOf(def, name) == CHOOSE f \in {def.Fields[i] : i \in 1 .. Len(def.Fields)} : f.name = name

\* A store of the bytes b at offset off.
Store(mem, off, b) ==
    [o \in DOMAIN mem |-> IF o \in off .. off + Len(b) - 1 THEN b[o - off + 1] ELSE mem[o]]

\* `set add`: zero padding, numbers in native order, addresses as they are.
BuildKey(def, val) ==
    [o \in 0 .. def.KeySize - 1 |->
        IF \E n \in FieldNames(def) : o \in Bytes(FieldOf(def, n))
        THEN LET f == FieldOf(def, CHOOSE n \in FieldNames(def) : o \in Bytes(FieldOf(def, n)))
             IN val[f.name][o - f.off + 1]
        ELSE 0]

-----------------------------------------------------------------------------
(* Packet fields *)

keyAlign(def) == Largest({1} \cup {fieldAlign(def.Fields[i]) : i \in 1 .. Len(def.Fields)})

\* The slot of one key field; the set's buffer is allotted downward on first use.
SlotFor(s, name) ==
    LET def == defs[s]
        f == IF def.IsScalar THEN def.Fields[1] ELSE FieldOf(def, name)
        base == IF slots.base[s] # 0 THEN slots.base[s]
                ELSE AlignDown(slots.cursor - def.KeySize, keyAlign(def))
    IN IF (def.IsScalar \/ name \in FieldNames(def)) /\ base >= pktSetKeyFloor
       THEN [ok |-> TRUE, base |-> base, off |-> base + f.off, size |-> f.size, field |-> f.name]
       ELSE [ok |-> FALSE]

nextLDXSize(n) == CHOOSE w \in {1, 2, 4, 8, 16} : w >= n /\ \A v \in {1, 2, 4, 8, 16} : v >= n => w <= v

\* Mutant: no byte swap for a field of a load's own size.
EmittedUnswapped(wire, width) ==
    LET window == nextLDXSize(width)
        loaded == wire \o [i \in 1 .. window - width |-> 1]
    IN IF width \in {1, 2, 4, 8, 16} THEN wire
       ELSE SubSeq(Reverse(loaded), window - width + 1, window) \o Zeros(window - width)

\* What the emitted code stores: 16 bytes are copied; the others are loaded with the
\* smallest covering load, swapped to a number, shifted right by what follows the field.
Emitted(wire, width) ==
    LET window == nextLDXSize(width)
        loaded == wire \o [i \in 1 .. window - width |-> 1]
    IN IF width = 16 THEN wire
       ELSE SubSeq(Reverse(loaded), window - width + 1, window) \o Zeros(window - width)

KeysInit ==
    /\ defs \in [Sets -> {describe(Created(k, <<>>)) : k \in Schemas}]
    /\ keysPkt = [n \in {} |-> 0]
    /\ slots = [base |-> [s \in Sets |-> 0], cursor |-> pktSetKeyTop]
    /\ keysOut = <<>> /\ phase = "compile" /\ keysRead = <<>>
    /\ stack = [o \in pktSetKeyFloor .. pktSetKeyTop - 1 |-> Junk]

\* One `name in @s`: refused, or an extraction. A base allotted by a refused predicate
\* no longer matters: the load is refused with it.
emitInSetPredicate(s, name) ==
    \E field \in IF name \in DOMAIN keysPkt THEN {keysPkt[name]} ELSE PktFields :
        LET slot == SlotFor(s, name)
            bytes == nextLDXSize(field.width)
        IN /\ phase = "compile" /\ Len(keysOut) < MaxPreds
           /\ IF /\ slot.ok /\ slot.off > KunaiStackTop
                 /\ \A i \in 1 .. Len(keysOut) : ~(keysOut[i].set = s /\ keysOut[i].off = slot.off)
                 /\ bytes - field.width <= field.room
                 /\ bytes = slot.size
              THEN /\ keysOut' = Append(keysOut, [set |-> s, name |-> name, field |-> slot.field,
                                                  off |-> slot.off, size |-> slot.size])
                   /\ slots' = IF slots.base[s] # 0 THEN slots
                               ELSE [base |-> [slots.base EXCEPT ![s] = slot.base], cursor |-> slot.base]
                   /\ UNCHANGED phase
              ELSE phase' = "refused" /\ UNCHANGED <<keysOut, slots>>
           /\ keysPkt' = [n \in DOMAIN keysPkt \cup {name} |-> IF n = name THEN field ELSE keysPkt[n]]
           /\ UNCHANGED <<defs, stack, keysRead>>

referencedSets == {keysOut[i].set : i \in 1 .. Len(keysOut)}

\* The upper dword always, the lower one when a buffer reaches it.
emitPktSetKeyZeroing(mem) ==
    LET lowest == -Largest({-slots.base[s] : s \in referencedSets})
        upper == Store(mem, pktSetKeyFloor + 8, Zeros(8))
    IN IF lowest < pktSetKeyFloor + 8 THEN Store(upper, pktSetKeyFloor, Zeros(8)) ELSE upper

\* A field's bytes on the wire: all zero, or one at either end.
Wires(w) == {[i \in 1 .. w |-> IF i = k THEN 1 ELSE 0] : k \in {0, 1, w}}

\* The program runs on a packet: zeroing, then the filter's stores in order.
RunFilter ==
    /\ phase = "compile" /\ keysOut # <<>>
    /\ \E wire \in {w \in [DOMAIN keysPkt -> UNION {Wires(keysPkt[n].width) : n \in DOMAIN keysPkt}] :
                        \A n \in DOMAIN keysPkt : w[n] \in Wires(keysPkt[n].width)} :
        /\ keysRead' = wire
        /\ stack' = FoldLeft(LAMBDA mem, e : Store(mem, e.off, Emitted(wire[e.name], keysPkt[e.name].width)),
                             emitPktSetKeyZeroing(stack), keysOut)
    /\ phase' = "ran"
    /\ UNCHANGED <<defs, keysPkt, slots, keysOut>>

-----------------------------------------------------------------------------
(* Function arguments *)

Params == [size : {1, 4, 8}, signed : BOOLEAN, top : {0, 255}]

\* The argument in a register: its bytes, extended to eight by sign or by zeros.
emitArgLoad(p) ==
    [i \in 1 .. 8 |-> IF i < p.size THEN 1 ELSE IF i = p.size THEN p.top
                      ELSE IF p.signed THEN p.top ELSE 0]

\* The width of a store for a field of n bytes: DWord for all but 1, 2 and 4.
asmSizeFor(n) == IF n \in {1, 2, 4} THEN n ELSE 8

\* Some byte of the key belongs to no field.
keyHasGaps(def) ==
    \/ \E i \in 1 .. Len(def.Fields) :
        def.Fields[i].off # FoldLeft(LAMBDA n, f : n + f.size, 0, SubSeq(def.Fields, 1, i - 1))
    \/ def.KeySize # FoldLeft(LAMBDA n, f : n + f.size, 0, def.Fields)

\* Every field takes an argument no wider than itself.
ResolveSetFilters(def) ==
    {b \in [FieldNames(def) -> Params] : \A n \in FieldNames(def) : b[n].size <= FieldOf(def, n).size}

\* `@s` on a target whose arguments bind to the fields: zeroing when the key has gaps,
\* then one store per field.
emitSetFilters(s) ==
    LET def == defs[s]
        window == [o \in setKeyBase .. setKeyBase + MaxKeySize - 1 |-> Junk]
        zeroed == IF keyHasGaps(def)
                  THEN Store(window, setKeyBase, Zeros(AlignUp(def.KeySize, 8))) ELSE window
    IN /\ phase = "compile" /\ keysOut = <<>>
       /\ \E b \in ResolveSetFilters(def) :
            /\ stack' = FoldLeft(LAMBDA mem, f : Store(mem, setKeyBase + f.off,
                                        SubSeq(emitArgLoad(b[f.name]), 1, asmSizeFor(f.size))),
                                 zeroed, def.Fields)
            /\ keysRead' = [set |-> s, val |-> [n \in FieldNames(def) |->
                                SubSeq(emitArgLoad(b[n]) \o Zeros(8), 1, FieldOf(def, n).size)]]
       /\ phase' = "args"
       /\ UNCHANGED <<defs, keysPkt, slots, keysOut>>

KeysNext ==
    \/ \E s \in Sets, n \in Names : emitInSetPredicate(s, n)
    \/ RunFilter
    \/ \E s \in Sets : emitSetFilters(s)

KeysSpec == KeysInit /\ [][KeysNext]_keysVars

-----------------------------------------------------------------------------
(* Properties *)

Buffer(s) == slots.base[s] .. slots.base[s] + defs[s].KeySize - 1
Extracted(s) == {keysOut[i].field : i \in {j \in 1 .. Len(keysOut) : keysOut[j].set = s}}

\* SlotFor, whatever the order of the predicates: the sets' key buffers are disjoint and
\* inside [-40, -24), and every store of the filter is aligned to its width.
SlotsSound ==
    /\ \A s \in referencedSets : Buffer(s) \subseteq pktSetKeyFloor .. pktSetKeyTop - 1
    /\ \A s, t \in referencedSets : s # t => Buffer(s) \cap Buffer(t) = {}
    /\ \A i \in 1 .. Len(keysOut) : keysOut[i].off % (IF keysOut[i].size = 16 THEN 8 ELSE keysOut[i].size) = 0

\* emitInSetPredicate and BuildKey agree: when a filter extracts every field of a set's
\* key, the bytes looked up are those `set add` writes for the packet's values, whatever
\* was on the stack and whatever the other set's stores did.
PktKeyAgrees ==
    phase = "ran" =>
        \A s \in referencedSets : Extracted(s) = FieldNames(defs[s]) =>
            LET src(f) == keysOut[CHOOSE i \in 1 .. Len(keysOut) : keysOut[i].set = s /\ keysOut[i].field = f].name
                number(f) == IF FieldOf(defs[s], f).isBytes THEN keysRead[src(f)]
                             ELSE SubSeq(Reverse(keysRead[src(f)]) \o Zeros(16), 1, FieldOf(defs[s], f).size)
            IN [o \in 0 .. defs[s].KeySize - 1 |-> stack[slots.base[s] + o]]
                = BuildKey(defs[s], [f \in FieldNames(defs[s]) |-> number(f)])

ArgKey == [o \in 0 .. defs[keysRead.set].KeySize - 1 |-> stack[setKeyBase + o]]

\* The bytes of an address field past the one store of eight (a known difference, see
\* ArgKeyWritten).
Unstored(def) ==
    UNION {Bytes(def.Fields[i]) \ (def.Fields[i].off .. def.Fields[i].off + 7) : i \in 1 .. Len(def.Fields)}

\* emitSetFilters and BuildKey agree: the bytes looked up are those `set add` writes for
\* the arguments' values, padding and the fields next to an address included, but for the
\* bytes of the address no store reaches.
ArgKeyAgrees ==
    phase = "args" =>
        \A o \in DOMAIN ArgKey \ Unstored(defs[keysRead.set]) :
            ArgKey[o] = BuildKey(defs[keysRead.set], keysRead.val)[o]

\* "Gapless keys ... have every byte overwritten by the field stores below": no byte looked
\* up is left as it was on the stack (emitSetFilters).
ArgKeyWritten == phase = "args" => \A o \in DOMAIN ArgKey : ArgKey[o] # Junk

\* "Partial keys are rejected": a filter that runs extracts every field of the key of each
\* set it looks up (Set.SlotFor).
PartialKeysRejected == phase = "ran" => \A s \in referencedSets : Extracted(s) = FieldNames(defs[s])

\* A filter looks up the key `set add` writes, from the packet or from the arguments, in
\* buffers of its own.
KeysSound == SlotsSound /\ PktKeyAgrees /\ ArgKeyAgrees
=============================================================================
