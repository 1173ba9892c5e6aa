--------------------------------- MODULE Batch ---------------------------------
(***************************************************************************)
(* What a batch over the fleet promises, without saying how: every item of *)
(* a run is worked on once, and at most Limit of them at a time.           *)
(***************************************************************************)
EXTENDS Naturals, FiniteSets

CONSTANTS
    Runs,   \* the batches
    Items,  \* what they may be started for
    Limit   \* how many of them are worked on at the same time

VARIABLES
    started,                     \* the runs that were started
    waiting, running, finished   \* sets of pairs of a run and an item

vars == <<started, waiting, running, finished>>

Init == started = {} /\ waiting = {} /\ running = {} /\ finished = {}

ItemsOf(r) == {p \in running : p[1] = r}

\* A run is started for some of the items.
Start(r) ==
    /\ r \notin started /\ started' = started \union {r}
    /\ waiting \subseteq waiting' /\ waiting' \ waiting \subseteq {r} \X Items
    /\ UNCHANGED <<running, finished>>

Begin(p) ==
    /\ waiting' = waiting \ {p}
    /\ running' = running \union {p}
    /\ Cardinality(ItemsOf(p[1])) < Limit
    /\ UNCHANGED <<started, finished>>

End(p) ==
    /\ running' = running \ {p}
    /\ finished' = finished \union {p}
    /\ UNCHANGED <<started, waiting>>

Next ==
    \/ \E r \in Runs : Start(r)
    \/ \E p \in waiting : Begin(p)
    \/ \E p \in running : End(p)

Spec == Init /\ [][Next]_vars
================================================================================
