----------------------------- MODULE SetSchema -----------------------------
(* `set create` describes a layout in the map's BTF; every later user opens the *)
(* pinned map and reads the layout back from it.                                *)
EXTENDS SetLayout

CONSTANTS KeySchemas, ValueSchemas   \* sequences of [name, type]; name "" is a malformed entry

VARIABLES
    input,            \* the schemas given to set create
    map,              \* the created map
    schemaDef               \* the definition its BTF is read back as

schemaVars == <<input, map, schemaDef>>

NotYet == [rejected |-> FALSE]

SchemaInit ==
    /\ input \in [key : KeySchemas, value : ValueSchemas]
    /\ map = NotYet /\ schemaDef = NotYet

Create ==
    /\ map = NotYet
    /\ map' = Created(input.key, input.value)
    /\ UNCHANGED <<input, schemaDef>>

Open ==
    /\ map # NotYet /\ map # Rejected /\ schemaDef = NotYet
    /\ schemaDef' = describe(map)
    /\ UNCHANGED <<input, map>>

SchemaNext == Create \/ Open
SchemaSpec == SchemaInit /\ [][SchemaNext]_schemaVars

-----------------------------------------------------------------------------
(* Properties *)

\* layout: the fields of a created map do not overlap, each lies where its stores are
\* aligned, and the size is the smallest that holds them and repeats their alignment.
LayoutSound ==
    map \notin {NotYet, Rejected} =>
        \A t \in {map.key, map.value} :
            LET fs == t.members IN
            /\ \A i, j \in 1 .. Len(fs) : i < j => Bytes(fs[i]) \cap Bytes(fs[j]) = {}
            /\ \A i \in 1 .. Len(fs) : fs[i].off % fieldAlign(fs[i]) = 0 /\ t.size % fieldAlign(fs[i]) = 0
            /\ LET last == fs[Len(fs)] IN
               t.size - (last.off + last.size) \in 0 .. Largest({fieldAlign(fs[i]) : i \in 1 .. Len(fs)}) - 1

\* Create and Open agree: whatever set create accepts can be opened, with the names,
\* places and kinds of the key fields it was created with, and a value that starts with
\* the tag and keeps the other fields.
RoundTrip ==
    schemaDef # NotYet =>
              /\ schemaDef # Rejected
              /\ schemaDef.Fields = layout(ParseSchema(input.key)).fields
              /\ LET vs == layout(ParseSchema(IF input.value = <<>> THEN DefaultValueSchema
                                              ELSE input.value)).fields IN
                 /\ Len(schemaDef.ValFields) = Len(vs) /\ schemaDef.ValFields[1].name = "tag"
                 /\ \A i \in 1 .. Len(vs) : /\ Bytes(schemaDef.ValFields[i]) = Bytes(vs[i])
                                            /\ i > 1 => schemaDef.ValFields[i].name = vs[i].name

\* The layout of a set is sound, and the one later commands read back.
SchemaSound == LayoutSound /\ RoundTrip
=============================================================================
