------------------------------- MODULE MCUfwRules -------------------------------
(* Instances of UfwRules for TLC. *)
EXTENDS UfwRules

CONSTANTS q1

Rule(i, a, s) == [id |-> i, act |-> a, sel |-> s]

\* Two ways in, and a rule that denies NetFleet.
MCMgmt == Rule(0, "allow", "path")
MCRules == {MCMgmt, Rule(1, "allow", "path"), Rule(2, "deny", "path")}

\* The operations that install rules; and those that switch rules off and on again, with
\* moves to the end of the list and with crashes.
Toggles == {"delete", "move", "disable", "enable", "on", "off"}
MCWorlds == {[kinds |-> AllKinds \ {"disable", "enable"}, env |-> {"crash"}],
             [kinds |-> Toggles, env |-> {"to_end"}],
             [kinds |-> Toggles, env |-> {"crash"}]}

================================================================================
