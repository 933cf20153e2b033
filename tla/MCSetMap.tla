------------------------------ MODULE MCSetMap ------------------------------
(* SetMap for TLC, twice: commands and tick that overlap, and a second map on *)
(* which they do not, with more tags and byte caps.                           *)
EXTENDS SetMap

CONSTANTS c1

VARIABLES
    alone,            \* the second map is used, and not the first
    amaps, apin, atmp, apc, aat, aarg, aval, ait, acmds, acapped, aactive, adirty

avars == <<amaps, apin, atmp, apc, aat, aarg, aval, ait, acmds, acapped, aactive, adirty>>

Alone ==
    INSTANCE SetMap WITH
        Tags <- {0, 1, 2}, MaxBytes <- {0, 1}, Cli <- {c1}, Serial <- TRUE, MaxCmds <- 3,
        maps <- amaps, pin <- apin, tmp <- atmp, pc <- apc, at <- aat, arg <- aarg,
        val <- aval, it <- ait, cmds <- acmds, capped <- acapped, active <- aactive,
        dirty <- adirty

\* A map nobody uses is empty.
Empty(m) == m = <<[cap |-> 1, ent |-> [k \in Keys |-> None]]>>

MCInit ==
    /\ alone \in BOOLEAN
    /\ Init /\ Alone!Init
    /\ IF alone THEN Empty(maps) ELSE Empty(amaps)

MCNext ==
    \/ ~alone /\ Next /\ UNCHANGED <<alone, avars>>
    \/ alone /\ Alone!Next /\ UNCHANGED <<alone, vars>>

MCSpec ==
    /\ MCInit /\ [][MCNext]_<<alone, vars, avars>>
    /\ Fairness

\* Commands that do not overlap have the effect of single steps on the entries at the
\* path (set add, set del, set resize and the tick's SetState).
SerialIsStore == Alone!StoreSpec

=============================================================================
