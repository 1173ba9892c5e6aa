----------------------------- MODULE DeadManSwitch -----------------------------
(***************************************************************************)
(* What a lockout guard promises, without connections, rows, operators or  *)
(* clocks: a change is tried under a switch that ticks and holds the       *)
(* ruleset of before, and is then kept or undone.  A switch is armed and   *)
(* released only while NetFleet is let in; one that ticks undoes its       *)
(* change with nobody let in.                                              *)
(***************************************************************************)
EXTENDS Functions

CONSTANTS
    Switches,   \* one for every change
    Commands,   \* pairs of the switch of a change and one of its commands
    Admitting   \* the rulesets, sets of commands, that let NetFleet in

VARIABLES
    rules,      \* the ruleset in force
    ticking,    \* the switches that will undo their change by themselves
    held        \* the ruleset of before, for every switch that still holds it

vars == <<rules, ticking, held>>

Holding == DOMAIN held
LetIn == rules \in Admitting
Dropped(s) == Restrict(held, Holding \ {s})

Init == rules = {} /\ ticking = {} /\ held = [s \in {} |-> {}]

\* The ruleset is saved, and the switch starts ticking or fails to.
Arm(s) ==
    /\ LetIn
    /\ s \notin Holding
    /\ held' = [t \in Holding \cup {s} |-> IF t = s THEN rules ELSE held[t]]
    /\ ticking' \in {ticking, ticking \cup {s}}
    /\ UNCHANGED rules

\* A command takes effect only under the switch of its own change.
Try(s) ==
    /\ s \in ticking \cap Holding
    /\ \E c \in Commands : c[1] = s /\ rules' = rules \cup {c}
    /\ UNCHANGED <<ticking, held>>

\* The switch stops, and what it holds may be thrown away.
Release(s) ==
    /\ LetIn
    /\ ticking' = ticking \ {s}
    /\ held' \in {held, Dropped(s)}
    /\ UNCHANGED rules

\* Locked out, only a switch that ticks undoes its change.
Undo(s) ==
    /\ s \in Holding
    /\ \/ LetIn /\ UNCHANGED ticking
       \/ s \in ticking /\ ticking' = ticking \ {s}
    /\ rules' = held[s]
    /\ held' = Dropped(s)

\* A switch that holds nothing any more stops by itself.
Lapse(s) ==
    /\ s \in ticking \ Holding
    /\ ticking' = ticking \ {s}
    /\ UNCHANGED <<rules, held>>

Next == \E s \in Switches : Arm(s) \/ Try(s) \/ Release(s) \/ Undo(s) \/ Lapse(s)

Spec == Init /\ [][Next]_vars

\* What it is for: whatever is held leads back in, and whoever is not let in will be by
\* a switch that ticks.
WayBack ==
    /\ \A s \in Holding : held[s] \in Admitting
    /\ LetIn \/ ticking \cap Holding # {}
================================================================================
