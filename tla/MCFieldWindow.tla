--------------------------- MODULE MCFieldWindow ---------------------------
(***************************************************************************)
(* FieldWindow on a 24-byte header at byte 3, whose first four bytes are   *)
(* the ones the code computes with, followed by an auxiliary header, an    *)
(* option or a stack of up to three entries, with or without a payload.    *)
(***************************************************************************)
EXTENDS FieldWindow

Ref0 ==
    [place |-> "primary", anchor |-> "abs", bitOff |-> 32, width |-> 8, lo |-> -1, hi |-> -1,
     gated |-> FALSE, elem |-> 0, off |-> 0, index |-> -1, varTail |-> FALSE, scale |-> 1, least |-> 0,
     capacity |-> 0, push |-> 0, bound |-> "none", writeBack |-> FALSE]
Anchors == {"r4", "slot", "abs"}
Geometry(R, offs, widths) == {[r EXCEPT !.bitOff = o, !.width = w] : r \in R, o \in offs, w \in widths}
Slices(R, los, lens) ==
    {[r EXCEPT !.lo = x[1], !.hi = x[1] + x[2]] : r \in R, x \in los \X lens}
WindowValid(R) == {r \in R : r.hi <= r.width}
Anchored(R) == {[r EXCEPT !.anchor = a] : r \in R, a \in Anchors}

PWidths == {1, 3, 7, 8, 9, 16, 17, 20, 24, 31, 32, 33, 48, 57, 60, 63, 64, 65, 128}
Lens == {1, 4, 7, 8, 9, 16, 20, 31, 32, 33, 40, 57, 60, 63, 64}
Primary ==
    LET bare == Geometry(Anchored({Ref0}), 32..39, PWidths)
        tail == {[r EXCEPT !.bitOff = 8 * HeaderSize - r.width] : r \in Geometry({Ref0}, {0}, {8, 16, 24, 32, 48, 64, 128})}
    IN  UNION {bare, tail,
               WindowValid(Slices(Geometry({Ref0}, {32, 36, 39}, {16, 20, 32, 64, 128}), {0, 3, 5, 8, 60}, Lens)),
               WindowValid(Slices(tail, {0, 1, 4, 7, 12, 60, 92}, Lens)),
               {[r EXCEPT !.writeBack = TRUE] :
                  r \in Anchored(Geometry({Ref0}, {24}, {8})) \cup WindowValid(Slices(Geometry({Ref0}, {24, 32}, {8}), {0, 2}, {1, 4, 6, 8}))}}

AuxRef == [Ref0 EXCEPT !.place = "aux", !.off = HeaderSize, !.elem = 16]
AuxBits == {0, 1, 4, 8, 33}
AuxWidths == {8, 15, 16, 32, 64, 128}
InElem(R) == {r \in R : r.bitOff + r.width <= 8 * r.elem}
AuxFields(R) ==
    LET bare == InElem(Geometry(R, AuxBits, AuxWidths) \cup Geometry(R, {108}, {17}))
    IN  bare \cup WindowValid(Slices({r \in bare : r.width >= 15}, {0, 3, 8, 60}, {4, 9, 32, 63, 64}))
Aux == AuxFields({[AuxRef EXCEPT !.gated = TRUE, !.anchor = a] : a \in Anchors})
Option == AuxFields({[AuxRef EXCEPT !.place = "option", !.index = i, !.off = 2] : i \in {-1, 1}})

StackRef ==
    [AuxRef EXCEPT !.place = "stack", !.capacity = 3, !.push = 3]
\* How a stack is bounded matters only to an index read from the packet.
Fixed ==
    AuxFields({[StackRef EXCEPT !.bound = x[1], !.anchor = x[2]] :
                 x \in {<<"slot", "slot">>, <<"slot", "abs">>, <<"hdr", "abs">>, <<"none", "slot">>}}
              \cup {[StackRef EXCEPT !.index = i, !.anchor = a] : i \in {0, 2}, a \in {"slot", "abs"}}
              \cup {[StackRef EXCEPT !.index = i, !.anchor = "r4"] : i \in {-1, 1}})
\* Entries of 8 bytes and a tail, the field behind the length byte.
VarTail ==
    LET refs == {[StackRef EXCEPT !.elem = 8, !.index = i, !.anchor = a, !.varTail = TRUE, !.bound = "slot",
                                 !.scale = t[1], !.least = t[2], !.push = t[3]] :
                   i \in {-1, 0, 1, 2}, a \in {"slot", "abs"}, t \in {<<4, 0, 3>>, <<4, 8, 2>>}}
        bare == InElem(Geometry(refs, {16, 19, 32}, {13, 16, 32}))
    IN  bare \cup WindowValid(Slices(bare, {0, 2}, {8, 11}))

\* An ipv6.exts entry: two bytes and a 48-bit field that ends it, sliced to 40 bits.
OddRefs ==
    {[StackRef EXCEPT !.elem = 8, !.index = 1, !.varTail = TRUE, !.bound = "slot", !.scale = 8,
                      !.bitOff = 16, !.width = 48, !.lo = 0, !.hi = 40]}

MCRefs == UNION {Primary, Aux, Option, Fixed, VarTail, OddRefs}

Pkt(len, idx, cnt, flag, pushed, tails, opt) ==
    [len |-> len, idx |-> idx, cnt |-> cnt, flag |-> flag, pushed |-> pushed, tails |-> tails, opt |-> opt]
WindowBody == Layer + HeaderSize
WindowTails(r) == IF r.least > 0 THEN {<<2, 4, 2>>} ELSE {<<0, 0, 0>>, <<1, 0, 2>>, <<2, 1, 0>>}
MCPacketsOf(r) ==
    CASE r.place = "primary" -> {Pkt(WindowBody + e, 0, 0, 0, 0, <<>>, -1) : e \in {0, 3}}
      [] r.place = "aux" -> {Pkt(WindowBody + r.elem * f, 0, 0, f, 0, <<>>, -1) : f \in {0, 1}}
      [] r.place = "option" -> {Pkt(WindowBody + 4 + 2 * r.elem, 0, 0, 0, 0, <<>>, o) : o \in {-1, WindowBody}}
                               \cup {Pkt(WindowBody + r.elem, 0, 0, 0, 0, <<>>, WindowBody)}
      [] r.place = "stack" ->
           LET pushes == (IF r.index = -1 THEN 0 ELSE r.index + 1)..WindowMinOf(3, r.push)
               plain(n, i) == Pkt(EntryStart(r, [tails |-> <<0, 0, 0>>], n), i, n - 1, 0, n, <<0, 0, 0>>, -1)
               vars1(n, i, t) == Pkt(EntryStart(r, [tails |-> t], n), i, 0, 0, n, t, -1)
               idx == IF r.index = -1 THEN 0..3 ELSE {0}
           IN  IF r.varTail THEN {[vars1(n, i, t) EXCEPT !.len = @ + e] : n \in pushes, i \in idx, t \in WindowTails(r), e \in {0, 32}}
               ELSE {plain(n, i) : n \in pushes \ {0}, i \in idx}
                    \cup {[plain(n, i) EXCEPT !.len = @ + e] : n \in pushes \ {0}, i \in idx, e \in {-5, 32}}
=============================================================================
