------------------------------ MODULE SetStore ------------------------------
(* What a match set promises to its users (internal/setmap): a map from keys  *)
(* to entries on which add, del and a state change are single steps.  SetMap  *)
(* implements it while commands do not overlap.                               *)
EXTENDS Integers

CONSTANTS
    Keys, Tags,       \* tag 0 is the tag of unmatched traffic
    MaxBytes          \* byte caps, 0 = uncapped

Active == 0
Capped == 1
Finalized == 2

Entries == [tag : Tags, state : {Active, Capped, Finalized}, max : MaxBytes]
None == [tag |-> 0, state |-> Active, max |-> -1]
Omitted == -1         \* max-bytes= not given

VARIABLE store

Init == store \in [Keys -> {None} \cup {e \in Entries : e.state = Active}]

\* The value an add writes over old: within one tag the state is kept, and the cap
\* unless a new one is given; a new tag starts active.
AddedOver(old, t, mb) ==
    LET same == old # None /\ old.tag = t
    IN [tag |-> t,
        state |-> IF same THEN old.state ELSE Active,
        max |-> IF mb # Omitted THEN mb ELSE IF same THEN old.max ELSE 0]

Add(k, t, mb) ==
    /\ ~(mb > 0 /\ t = 0)
    /\ store' = [store EXCEPT ![k] = AddedOver(store[k], t, mb)]

Del(k) ==
    /\ store[k] # None
    /\ store' = [store EXCEPT ![k] = None]

SetState(k, st) ==
    /\ store[k] # None
    /\ store' = [store EXCEPT ![k].state = st]

Next ==
    \E k \in Keys :
        \/ \E t \in Tags, mb \in MaxBytes \cup {Omitted} : Add(k, t, mb)
        \/ Del(k)
        \/ \E st \in {Capped, Finalized} : SetState(k, st)

Spec == Init /\ [][Next]_store
=============================================================================
