----------------------------- MODULE SetLayout -----------------------------
(* Key and value layouts of match sets (internal/setmap): parsing a schema,   *)
(* laying its fields out, describing them in the map's BTF and reading them    *)
(* back.                                                                       *)
EXTENDS Integers, Sequences, FiniteSets, SequencesExt

CONSTANT MaxKeySize             \* 64 in the code

ASSUME SchemaAssumption == MaxKeySize \in Nat

Rejected == [rejected |-> TRUE]

reserved == {"tag", "max-bytes", "max_bytes", "state"}
DefaultValueSchema == <<[name |-> "tag", type |-> "u32"], [name |-> "state", type |-> "u8"],
                        [name |-> "max_bytes", type |-> "u64"]>>

-----------------------------------------------------------------------------
(* Parsing and layout *)

types == {"u8", "u16", "u32", "u64", "ipv6"}
typeKind(t) ==
    CASE t = "u8" -> 1 [] t = "u16" -> 2 [] t = "u32" -> 4 [] t = "u64" -> 8 [] t = "ipv6" -> 16

\* The fields of a schema; <<>> for one that is refused.
ParseSchema(s) ==
    LET ok == /\ \A i \in 1 .. Len(s) : s[i].name # "" /\ s[i].type \in types
              /\ \A i, j \in 1 .. Len(s) : i # j => s[i].name # s[j].name
    IN IF ok THEN [i \in 1 .. Len(s) |->
                      [name |-> s[i].name, size |-> typeKind(s[i].type),
                       isBytes |-> s[i].type = "ipv6"]]
       ELSE <<>>

fieldAlign(f) == IF f.isBytes THEN 8 ELSE f.size
AlignUp(n, a) == ((n + a - 1) \div a) * a
AlignDown(n, a) == (n \div a) * a
Largest(S) == CHOOSE x \in S : \A y \in S : y <= x

\* Natural alignment, and the size padded to the widest one.
layout(fields) ==
    LET place(acc, f) ==
            LET off == AlignUp(acc.cur, fieldAlign(f)) IN
            [out |-> Append(acc.out, [name |-> f.name, off |-> off, size |-> f.size,
                                      isBytes |-> f.isBytes]),
             cur |-> off + f.size]
        all == FoldLeft(place, [out |-> <<>>, cur |-> 0], fields)
        align == Largest({1} \cup {fieldAlign(fields[i]) : i \in 1 .. Len(fields)})
    IN [fields |-> all.out, size |-> AlignUp(all.cur, align)]

validValueFieldSize(n) == n \in {1, 2, 4, 8}

\* The extended value: tag first, then state (u8) and max_bytes (u64) at most once.
validateValueFields(fs) ==
    /\ fs # <<>> /\ fs[1].name = "tag" /\ fs[1].off = 0 /\ validValueFieldSize(fs[1].size)
    /\ \A i \in 2 .. Len(fs) :
        /\ \/ fs[i].name = "state" /\ fs[i].size = 1
           \/ fs[i].name = "max_bytes" /\ fs[i].size = 8
        /\ \A j \in 1 .. i - 1 : fs[j].name # fs[i].name

-----------------------------------------------------------------------------
(* set create *)

\* One scalar that fills the type keeps its name through a typedef.
synthesizeType(l) ==
    IF Len(l.fields) = 1 /\ l.fields[1].off = 0 /\ l.fields[1].size = l.size
    THEN [kind |-> "scalar", members |-> l.fields, size |-> l.size]
    ELSE [kind |-> "struct", members |-> l.fields, size |-> l.size]

\* The map, or Rejected.
Created(keySchema, valueSchema) ==
    LET key == ParseSchema(keySchema)
        value == ParseSchema(IF valueSchema = <<>> THEN DefaultValueSchema ELSE valueSchema)
        kl == layout(key)
        vl == layout(value)
        legacy == Len(value) = 1 /\ ~value[1].isBytes /\ validValueFieldSize(vl.size)
    IN IF /\ key # <<>> /\ kl.size <= MaxKeySize
          /\ \A i \in 1 .. Len(key) : key[i].name \notin reserved
          /\ value # <<>> /\ (legacy \/ validateValueFields(vl.fields))
       THEN [rejected |-> FALSE, key |-> synthesizeType(kl), value |-> synthesizeType(vl)]
       ELSE Rejected

-----------------------------------------------------------------------------
(* Opening a map: the schema from the BTF *)

\* Integers of 1, 2, 4 or 8 bytes, and arrays of 16 bytes.
resolveFieldType(f) == IF f.isBytes THEN f.size = 16 ELSE validValueFieldSize(f.size)

\* Mutant: a scalar value keeps its own name.
resolveValueSchemaNamed(v) ==
    IF \A i \in 1 .. Len(v.members) : resolveFieldType(v.members[i]) /\ ~v.members[i].isBytes
    THEN v.members ELSE <<>>

\* The value's fields, <<>> when it is refused: a scalar is the tag whatever its name.
resolveValueSchema(v) ==
    IF v.kind = "scalar"
    THEN IF ~v.members[1].isBytes /\ validValueFieldSize(v.members[1].size)
         THEN <<[v.members[1] EXCEPT !.name = "tag"]>> ELSE <<>>
    ELSE IF /\ \A i \in 1 .. Len(v.members) :
                   /\ resolveFieldType(v.members[i]) /\ ~v.members[i].isBytes
                   /\ v.members[i].off + v.members[i].size <= v.size
            /\ validateValueFields(v.members)
         THEN v.members ELSE <<>>

describe(m) ==
    LET vals == resolveValueSchema(m.value)
        ok(f) == /\ resolveFieldType(f)
                 /\ m.key.kind = "struct" => f.off % fieldAlign(f) = 0 /\ f.off + f.size <= m.key.size
    IN IF /\ m.key.size <= MaxKeySize /\ vals # <<>>
          /\ \A i \in 1 .. Len(m.key.members) : ok(m.key.members[i])
       THEN [rejected |-> FALSE, KeySize |-> m.key.size, Fields |-> m.key.members,
             IsScalar |-> m.key.kind = "scalar", ValFields |-> vals]
       ELSE Rejected

Bytes(f) == f.off .. f.off + f.size - 1
=============================================================================
