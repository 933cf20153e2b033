---------------------------- MODULE MCTagFinalize ----------------------------
(* TagFinalize for TLC: tags are 1, 2; limits are counted in records. *)
EXTENDS TagFinalize, TLC

CONSTANTS s1, s2

TagOne(K) == [k \in K |-> 1]
TagOneOrTwo == [k \in 1 .. 2 |-> k]
Capture(shards, tagOf, cap, exit, ops) ==
    [shards |-> shards, tagOf |-> tagOf, limit |-> [t \in Tags |-> IF t = 1 THEN cap ELSE 0],
     exitWhenCapped |-> exit, ops |-> ops]

\* Two shards and one tag, whose cap the second record reaches; one shard and two tags.
SafeSetups ==
    {Capture({s1, s2}, TagOne({1}), 2, TRUE, 1),
     Capture({s1}, TagOneOrTwo, 0, FALSE, 2), Capture({s2}, TagOneOrTwo, 0, FALSE, 2)}
\* One shard, one capped tag with two entries.
LiveSetups == {Capture({s1}, TagOne({1, 2}), 1, TRUE, 2)}

ShardSymmetry == Permutations({s1, s2})

=============================================================================
