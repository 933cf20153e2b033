-------------------------- MODULE MCFilterLanguage --------------------------
(***************************************************************************)
(* For TLC, one at a time: the parsers of a where expression (WhereParser) *)
(* and of a filter (FilterParser), the chain of layers a filter compiles   *)
(* to (KunaiChain), the layout of a set (SetSchema) and the keys a filter  *)
(* builds for it (SetKeys).                                                *)
(***************************************************************************)
EXTENDS WhereParser, FilterParser, KunaiChain, SetSchema, SetKeys

-----------------------------------------------------------------------------
(* Every short expression, and longer ones over fewer kinds of token. *)

AllTokens == {"or", "and", "not", "==", "<", "+", "-", "*", "(", ")", "any", "action", "in", "f", "i", "l", "b"}
MCFamilies == {<<AllTokens, 4>>,
               <<{"not", "==", "+", "f", "b"}, 6>>,
               <<{"or", "and", "(", ")", "f"}, 7>>,
               <<{"+", "-", "*", "(", ")", "f"}, 5>>,
               <<{"not", "==", "(", ")", "b"}, 6>>}

-----------------------------------------------------------------------------
(* Filters of layers and quantifiers, of predicates, and of captures. *)

FilterMCFamilies == {<<{"id", "(", ")", "|", "/", "?", "{", "}", ",", "1", "2"}, 8>>,
                     <<{"id", "valid", "[", "]", ".", ",", "==", "in", "1", "v"}, 8>>,
                     <<{"id", "XDP", "[", "]", ".", ":", "@", "in", "has", "1", "2"}, 7>>,
                     <<{"id", "absolute", "capture", "all", "headers", "where", "b", "+", ".", ",", "1"}, 8>>}

-----------------------------------------------------------------------------
(***************************************************************************)
(* KunaiChain over a cut of the protocol vocabulary that has every kind of *)
(* edge: field dispatch, no-check, self-validation, self edges with and    *)
(* without an end signal, variable-length headers with and without a       *)
(* parser machine, a write-back slot.                                      *)
(***************************************************************************)

\* The parents a protocol declares an edge under, in the order declared.
ParentsOf ==
    [eth |-> <<"mpls">>, vlan |-> <<"eth", "vlan", "qinq">>, qinq |-> <<"eth">>,
     mpls |-> <<"eth", "vlan", "qinq", "gre", "mpls">>,
     ipv4 |-> <<"eth", "vlan", "qinq", "gre", "ipv4", "srv6">>,
     ipv6 |-> <<"eth", "vlan", "qinq", "gre", "ipv6">>,
     srv6 |-> <<"ipv6">>, gre |-> <<"ipv4", "ipv6">>, udp |-> <<"ipv4", "ipv6", "srv6">>]

\* The field of a parent that names the next header, and its place; under
\* mpls nothing is checked.
NextField ==
    [eth |-> <<"ethertype", 0>>, vlan |-> <<"ethertype", 0>>, qinq |-> <<"ethertype", 0>>,
     gre |-> <<"protocol_type", 1>>, ipv4 |-> <<"protocol", 1>>,
     ipv6 |-> <<"next_header", 1>>, srv6 |-> <<"next_header", 0>>]

FieldEdge(parent, at, value) ==
    [parent |-> parent, type |-> "field", field |-> at[1], off |-> at[2], vals |-> {value}]

Edges(parents, value) ==
    [k \in DOMAIN parents |->
        IF parents[k] = "mpls" THEN [NilConst EXCEPT !.parent = "mpls", !.type = "nocheck"]
        ELSE FieldEdge(parents[k], NextField[parents[k]], value)]

WordOf(n) == IF n = "ipv4" THEN "ip4" ELSE IF n = "ipv6" THEN "ip6" ELSE n

MCWords == {"vlan", "qinq", "mpls", "ip4", "ip4o", "ip6", "udp", "gre", "ext", "srv6", "end"}

MCVocab ==
    [n \in {"eth", "vlan", "qinq", "mpls", "ipv4", "ipv6", "srv6", "gre", "udp"} |->
        [hs |-> IF n \in {"ipv4", "ipv6", "gre"} THEN 2 ELSE 1,
         machine |-> n \in {"ipv4", "ipv6", "srv6"},
         var |-> n \in {"ipv4", "ipv6", "srv6", "gre"},
         wb |-> IF n = "ipv6" THEN 1 ELSE -1,
         end |-> IF n = "mpls" THEN "end" ELSE "",
         req |-> CASE n = "ipv4" -> {"ip4", "ip4o"} [] n = "ipv6" -> {"ip6"} [] OTHER -> {},
         extra |-> CASE n = "ipv4" -> {"ip4o"} [] n = "gre" -> {"ext"} [] n = "srv6" -> MCWords [] OTHER -> {},
         depth |-> 3,
         consts |-> Edges(ParentsOf[n], WordOf(n))]]

----------------------------------------------------------------------------

L(p) == [p |-> p, alt |-> <<>>, q |-> "one", lo |-> 1, hi |-> 1, pred |-> MCWords,
         disp |-> NoDispatch, slot |-> FALSE, id |-> 0]
Opt(p) == [L(p) EXCEPT !.q = "opt"]
Star(p) == [L(p) EXCEPT !.q = "star"]
Plus(p) == [L(p) EXCEPT !.q = "plus"]
Times(p, lo, hi) == [L(p) EXCEPT !.q = "range", !.lo = lo, !.hi = hi]
Alt(ms) == [L("") EXCEPT !.alt = ms]
Only(l, ws) == [l EXCEPT !.pred = ws]

Chain(ws, layers) == [layers |-> layers, read |-> <<>>, words |-> ws]

\* Sequences of layer lists: one layer each, and every a followed by every b.
Each(ls) == [n \in DOMAIN ls |-> <<ls[n]>>]
Then(as, bs) == [n \in 1..(Len(as) * Len(bs)) |->
                    as[((n - 1) \div Len(bs)) + 1] \o bs[((n - 1) % Len(bs)) + 1]]
Filters(ws, lists) == [n \in DOMAIN lists |-> Chain(ws, lists[n])]
Where(lists, id, m, w) == [n \in DOMAIN lists |-> [lists[n] EXCEPT !.read = <<id, m, w>>]]

TagWords == {"vlan", "qinq", "mpls", "ip4", "ip6"}
StackWords == {"mpls", "ip4", "ip6", "end"}
TunnelWords == {"ip4", "ip4o", "ip6", "udp", "gre", "ext"}

Eth == <<<<L("eth")>>>>
V4orV6 == Alt(<<L("ipv4"), L("ipv6")>>)

\* Outer tags, then an IP header found in several ways.
Tags == Each(<<Opt("vlan"), Star("vlan"), Times("vlan", 0, 2), Times("vlan", 1, 2), Times("vlan", 2, -1),
               Times("vlan", 0, 0), Only(Opt("vlan"), {"ip4", "vlan"}), Opt("qinq"), Times("qinq", 0, 0)>>)
Nets == Each(<<L("ipv4"), Opt("ipv4"), V4orV6, Star("mpls")>>)
TagChains == Filters(TagWords,
    Then(Then(Eth, Tags), Nets)
    \o Then(Then(Then(Eth, Each(<<Opt("qinq"), Star("vlan"), Times("vlan", 0, 0)>>)),
                 Each(<<Opt("vlan"), Star("vlan"), L("vlan")>>)), Each(<<L("ipv4"), Opt("ipv6"), V4orV6>>))
    \o Then(Then(Eth, Each(<<Alt(<<L("vlan"), L("qinq"), L("vlan")>>)>>)), Each(<<L("ipv4"), Opt("vlan"), V4orV6>>)))

\* Label stacks: no-check self edges, the end signal, self-validation.
Stacks == Each(<<Plus("mpls"), Star("mpls"), Opt("mpls"), Times("mpls", 1, 2), Times("mpls", 2, 2),
                 Times("mpls", 2, 3), Times("mpls", 1, 1), L("mpls"), Only(Plus("mpls"), {"end", "mpls"})>>)
StackChains == Filters(StackWords,
    Then(Then(Eth, Stacks), Each(<<L("ipv4"), Opt("ipv4"), L("eth"), L("mpls")>>))
    \o Then(Then(Then(Eth, Stacks), Each(<<Opt("ipv4"), Opt("mpls"), Star("mpls")>>)),
            Each(<<L("ipv6"), Opt("ipv6"), L("eth")>>)))

\* Tunnels: variable-length parents, write-back slots, matched members.
Outers == Each(<<L("ipv4"), L("ipv6")>>)
Inners == Each(<<Opt("ipv4"), Opt("ipv6"), Times("ipv6", 0, 2), Times("ipv4", 1, 2), Plus("ipv6"), L("gre"), Opt("gre"),
                 Alt(<<L("gre"), L("ipv6")>>)>>)
TunnelChains == Filters(TunnelWords,
    Then(Then(Outers, Inners), Each(<<L("udp"), Opt("udp"), Alt(<<L("udp"), L("gre")>>), L("ipv4")>>))
    \o Then(<<<<L("eth"), V4orV6>>>>, Each(<<L("udp"), Opt("ipv6"), Alt(<<L("udp"), L("gre")>>), L("gre")>>)))
GreChains == Filters(StackWords \cup {"ext"},
    Then(Then(Each(<<L("gre")>>), Each(<<Star("mpls"), Opt("ipv4"), Opt("mpls")>>)),
         Each(<<L("ipv4"), L("ipv6"), Opt("ipv6")>>)))

\* A where atom on a layer whose offset, or presence, is only known at run time.
TaggedIP == Filters(TagWords, Then(Then(Eth, Tags), Each(<<L("ipv4")>>)))
TaggedAlt == Filters(TagWords \cup {"udp"},
                Then(Then(Eth, Each(<<Opt("vlan"), Star("mpls")>>)), <<<<V4orV6, L("udp")>>>>))
UnevenAlt == Filters({"ip4", "ip4o", "vlan"}, <<<<L("eth"), Alt(<<L("ipv4"), L("vlan")>>), L("ipv4")>>>>)
Nested == Filters({"ip6", "ext", "udp"}, Then(Then(<<<<L("eth"), L("ipv6")>>>>, Each(<<Opt("ipv6"), Times("ipv6", 0, 2)>>)),
                                              Each(<<L("udp")>>)))
ReadChains ==
    Where(TaggedIP, 2, 0, "ip4") \o Where(TaggedIP, 3, 0, "ip4")
    \o Where(TaggedAlt, 3, 1, "ip4") \o Where(TaggedAlt, 3, 2, "ip6")
    \o Where(UnevenAlt, 3, 0, "ip4o") \o Where(Nested, 3, 0, "ip6") \o Where(Nested, 4, 0, "udp")

\* Longer than a bpf_loop may walk; groups in groups, flattened unless they carry a
\* quantifier; members that name the next protocol in fields of one name.
VlanOrQinq == Alt(<<L("vlan"), L("qinq")>>)
MaybeVlan == [VlanOrQinq EXCEPT !.q = "opt"]
OddChains ==
    Filters(TagWords,
        <<<<L("eth"), Times("vlan", 1, 4), L("ipv4")>>, <<L("eth"), Times("vlan", 1, 3), L("ipv4")>>,
          <<L("eth"), Alt(<<VlanOrQinq, L("ipv4")>>), L("ipv4")>>, <<L("eth"), Alt(<<MaybeVlan, L("ipv4")>>)>>,
          <<L("eth"), Alt(<<MaybeVlan, L("ipv4")>>), L("ipv6")>>>>)
    \o Filters({"ip6", "srv6", "udp"}, <<<<L("ipv6"), Alt(<<L("ipv6"), L("srv6")>>), L("udp")>>>>)

MCChains == TagChains \o StackChains \o TunnelChains \o GreChains \o ReadChains \o OddChains

-----------------------------------------------------------------------------
(* Every key schema of at most three fields and value schema of at most three. *)

SchemasOver(names, kinds, n) == BoundedSeq([name : names, type : kinds], n)

KeysOfThree == SchemasOver({"x", "y"}, types, 2) \cup SchemasOver({"", "x", "tag"}, {"u8", "bad"}, 2)
               \cup [1 .. 3 -> [name : {"x"}, type : {"u8", "u32"}]]
               \cup {<<[name |-> "x", type |-> a], [name |-> "y", type |-> b], [name |-> "z", type |-> c]>> :
                        a \in types, b \in types, c \in types}
ValuesOfThree == {<<>>} \cup SchemasOver({"tag", "state", "z"}, {"u8", "u32", "ipv6"}, 1)
                 \cup SchemasOver({"tag", "state", "max_bytes"}, {"u8", "u64"}, 2)
                 \cup {<<[name |-> "tag", type |-> a], [name |-> "max_bytes", type |-> "u64"],
                         [name |-> "state", type |-> "u8"]>> : a \in types}

-----------------------------------------------------------------------------
(* Two sets with scalar or two-field keys, and packet fields of every kind. *)

Kinds == {"u8", "u32", "u64", "ipv6"}
OneOrTwo == {<<[name |-> "x", type |-> a]>> : a \in Kinds}
            \cup {<<[name |-> "x", type |-> a], [name |-> "y", type |-> b]>> : a \in Kinds, b \in Kinds}
Fields == [width : {1, 4, 8, 16}, room : {0}] \cup [width : {3, 6}, room : {2}]
          \cup [width : {3}, room : {0}]

-----------------------------------------------------------------------------
VARIABLE part      \* the component that runs; the others rest

IdleWhere == whereFamily = <<{}, 0>> /\ whereToks = <<>> /\ whereOut = Bad
IdleFilter == filterFamily = <<{}, 0>> /\ filterToks = <<>> /\ filterOut = parseFilter(<<>>)
IdleChain == chain = 1 /\ status = "refused" /\ chainPkt = <<>> /\ code = "none" /\ ref = NoVerdict
IdleSchema == input = <<>> /\ map = Rejected /\ schemaDef = NotYet
IdleKeys ==
    /\ defs = [s \in Sets |-> NotYet] /\ keysPkt = [n \in {} |-> 0]
    /\ slots = [base |-> [s \in Sets |-> 0], cursor |-> pktSetKeyTop]
    /\ keysOut = <<>> /\ phase = "refused" /\ keysRead = <<>> /\ stack = <<>>

Init ==
    \/ part = "where" /\ WhereInit /\ IdleFilter /\ IdleChain /\ IdleSchema /\ IdleKeys
    \/ part = "filter" /\ IdleWhere /\ FilterInit /\ IdleChain /\ IdleSchema /\ IdleKeys
    \/ part = "chain" /\ IdleWhere /\ IdleFilter /\ ChainInit /\ IdleSchema /\ IdleKeys
    \/ part = "schema" /\ IdleWhere /\ IdleFilter /\ IdleChain /\ SchemaInit /\ IdleKeys
    \/ part = "keys" /\ IdleWhere /\ IdleFilter /\ IdleChain /\ IdleSchema /\ KeysInit

Next ==
    /\ \/ part = "where" /\ WhereNext /\ UNCHANGED <<filterVars, chainVars, schemaVars, keysVars>>
       \/ part = "filter" /\ FilterNext /\ UNCHANGED <<whereVars, chainVars, schemaVars, keysVars>>
       \/ part = "chain" /\ ChainNext /\ UNCHANGED <<whereVars, filterVars, schemaVars, keysVars>>
       \/ part = "schema" /\ SchemaNext /\ UNCHANGED <<whereVars, filterVars, chainVars, keysVars>>
       \/ part = "keys" /\ KeysNext /\ UNCHANGED <<whereVars, filterVars, chainVars, schemaVars>>
    /\ UNCHANGED part

Spec == Init /\ [][Next]_<<part, whereVars, filterVars, chainVars, schemaVars, keysVars>>

-----------------------------------------------------------------------------
\* The hand-written parsers of the filter language accept their grammars and build their
\* trees: parseExpr and its callees for a where expression, parseFilter and its callees
\* for a filter, which also reports no error early.
ParsesTheGrammar == WhereParsesTheGrammar /\ FilterParsesTheGrammar /\ NoEarlyError
=============================================================================
