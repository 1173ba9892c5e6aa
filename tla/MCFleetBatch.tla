----------------------------- MODULE MCFleetBatch -----------------------------
(***************************************************************************)
(* Worlds for model checking FleetBatch.                                   *)
(***************************************************************************)
EXTENDS FleetBatch

World(kinds, faults) ==
    [kind |-> [r \in Runs |-> IF r \in DOMAIN kinds THEN kinds[r] ELSE "none"], env |-> faults]

MCWorlds ==
    {World(<<"update", "update", "update">>, {}), World(<<"update", "update">>, {"quick"}),
     World(<<"recheck">>, {"leaves"}), World(<<"recheck", "recheck">>, {}),
     World(<<"upgrade", "recheck">>, {}), World(<<"upgrade", "upgrade">>, {}),
     World(<<"recheck", "upgrade">>, {}), World(<<"upgrade">>, {"changes"})}
================================================================================
