-------------------------------- MODULE UfwRules --------------------------------
(***************************************************************************)
(* The ufw operations of services/ufw.py on one host: the safety check that*)
(* refuses a change which would cut NetFleet off, the projections it judges*)
(* (drivers/linux.py), what the driver then really does to the ruleset, and*)
(* the rules NetFleet keeps switched off in its database.                  *)
(*                                                                         *)
(* A ruleset is a sequence of rules, first match wins.  A rule is abstract:*)
(* act is what it does, and sel how its selectors relate to NetFleet's own *)
(* TCP connection:                                                         *)
(*   "path"   they match it, and the check sees that                       *)
(*   "udp"    the port is the management port but the protocol is udp: the *)
(*            check, which drops the protocol, takes it for a match        *)
(*   "named"  they match it through a host name, which the check cannot see*)
(*   "other"  they do not match it                                         *)
(* The guard of module ChangeGuard appears here by its effect: a change    *)
(* after which the host cannot be reached is undone and reported reverted. *)
(***************************************************************************)
EXTENDS Naturals, Sequences, SequencesExt, FiniteSets

CONSTANTS
    Rules,     \* every rule an operator may ask for, the management rule too
    MgmtRule,  \* the rule enable_preflight suggests
    Requests,  \* API requests served at a time
    MaxPos,    \* bound on the positions an operator names
    Policies,  \* default incoming policies the host may have
    Worlds     \* what a behaviour has: kinds, the operations offered, and env, what the
               \* surroundings may do:
               \*   "overlap"   requests for the host run at the same time
               \*   "crash"     the API process dies between two steps
               \*   "rejects"   ufw rejects the management rule
               \*   "to_end"    a move names the last position, or one past it

None == 0
Positions == 1 .. MaxPos
Actions == {"allow", "deny"}
Selectors == {"path", "udp", "named", "other"}
AllKinds == {"add", "delete", "edit", "move", "disable", "enable", "on", "on_allow", "off"}

ASSUME RulesAssumption ==
    /\ IsFiniteSet(Rules)
    /\ Rules \subseteq [id : Nat, act : Actions, sel : Selectors]
    /\ MgmtRule \in Rules
    /\ MgmtRule.act = "allow" /\ MgmtRule.sel = "path"
ASSUME BoundsAssumption ==
    /\ MaxPos \in Nat
    /\ Policies \subseteq {"allow", "deny", "reject"}
    /\ Worlds \subseteq [kinds : SUBSET AllKinds,
                        env : SUBSET {"overlap", "crash", "rejects", "to_end"}]

VARIABLES
    world,   \* an element of Worlds, the same throughout a behaviour
    rules,   \* the configured ruleset
    active,  \* the firewall is switched on
    policy,  \* its default incoming policy
    off,     \* rules with a row in ufw_disabled_rules
    slot,    \* the position stored in that row
    phase,   \* where each request is
    job,     \* what it was asked to do
    result   \* what it answered

vars == <<rules, active, policy, off, slot, phase, job, result>>
allVars == <<world, vars>>

env == world.env

\* No rule is installed twice.
Rulesets == SetToAllKPermutations(Rules)

Jobs == [kind : AllKinds, rule : Rules, new : Rules, pos : {None} \cup Positions, force : BOOLEAN]
NoJob == [kind |-> "off", rule |-> MgmtRule, new |-> MgmtRule, pos |-> None, force |-> FALSE]

--------------------------------------------------------------------------------
(* What the check believes and what the host does *)

\* _ufw_rule_matches_path: direction, port and source; the protocol is dropped.
RuleMatchesPath(r) == r.sel \in {"path", "udp"}
SeenAsMatching == {r \in Rules : RuleMatchesPath(r)}

\* The kernel's view of the same connection.
HostMatches(r) == r.sel \in {"path", "named"}
ReallyMatching == {r \in Rules : HostMatches(r)}

\* The index of the first rule that is in S, 0 when there is none.
FirstIn(rs, S) == SelectInSeq(rs, LAMBDA r : r \in S)

\* ufw_path_verdict: the action of the first matching rule, or "default".
PathVerdict(rs, matching) ==
    LET i == FirstIn(rs, matching)
    IN  IF i = 0 THEN "default" ELSE rs[i].act

\* ufw_would_lock_out: an explicit deny, or falling through to a default of deny.
WouldLockOut(rs) ==
    LET verdict == PathVerdict(rs, SeenAsMatching)
    IN  verdict = "deny" \/ (verdict = "default" /\ policy = "deny")

\* Whether a new connection of NetFleet gets through a ruleset in force.
Admits(rs, on) ==
    LET verdict == PathVerdict(rs, ReallyMatching)
    IN  ~on \/ verdict = "allow" \/ (verdict = "default" /\ policy = "allow")

--------------------------------------------------------------------------------
(* The projections *)

\* The rule with the specification of r is left out; no rule is installed twice.
Deleted(rs, r) == IF Contains(rs, r) THEN RemoveAt(rs, FirstIn(rs, {r})) ELSE rs

\* rules[:index] + [rule] + rules[index:] with index clamped to the list.
Inserted(rs, r, pos) ==
    IF pos = None \/ pos > Len(rs) THEN Append(rs, r) ELSE InsertAt(rs, pos, r)

\* With no position an edit is judged at the slot of the rule it replaces.
Replaced(rs, old, new, pos) ==
    LET original == FirstIn(rs, {old})
    IN  Inserted(Deleted(rs, old), new, IF pos = None THEN original ELSE pos)

Moved(rs, r, pos) ==
    IF Contains(rs, r) THEN Inserted(Deleted(rs, r), r, pos) ELSE rs

\* The ruleset the check judges; None of the other operations has one.
Projection(j) ==
    CASE j.kind \in {"delete", "disable"} -> Deleted(rules, j.rule)
      [] j.kind = "edit"                  -> Replaced(rules, j.rule, j.new, j.pos)
      [] j.kind = "move"                  -> Moved(rules, j.rule, j.pos)
      [] j.kind = "enable"                -> Inserted(rules, j.rule, slot[j.rule])

--------------------------------------------------------------------------------
(* The driver: each operation yields the ruleset and switch it leaves, and    *)
(* whether it raised.                                                        *)

Done(rs, on) == [rules |-> rs, active |-> on, raised |-> FALSE]
Raised(rs, on) == [rules |-> rs, active |-> on, raised |-> TRUE]

\* `ufw insert N` is an error unless there are N rules to begin with; that is looked at
\* before whether the rule exists, which is skipped with status 0.
UfwRefuses(rs, pos) == pos # None /\ pos > Len(rs)

UfwAdds(rs, r, pos) == IF Contains(rs, r) THEN rs ELSE Inserted(rs, r, pos)

UfwRuleAdd(j) ==
    IF UfwRefuses(rules, j.pos) THEN Raised(rules, active)
    ELSE Done(UfwAdds(rules, j.new, j.pos), active)

\* By specification, so a rule that is not there is not an error.
UfwRuleDelete(j) == Done(Deleted(rules, j.rule), active)

\* Mutant of UfwRuleReplace: no check that the insert was not skipped.
UfwRuleReplaceUnchecked(j) ==
    IF UfwRefuses(rules, j.pos) THEN Raised(rules, active)
    ELSE Done(Deleted(UfwAdds(rules, j.new, j.pos), j.rule), active)

\* Insert the replacement, check that the count grew, remove the original.
UfwRuleReplace(j) ==
    IF UfwRefuses(rules, j.pos) \/ Contains(rules, j.new) THEN Raised(rules, active)
    ELSE Done(Deleted(UfwAdds(rules, j.new, j.pos), j.rule), active)

\* Mutant of UfwRuleMove: the result of the insert is not looked at.
UfwRuleMoveUnchecked(j) ==
    LET rest == Deleted(rules, j.rule)
    IN  IF UfwRefuses(rest, j.pos) THEN Done(rest, active)
        ELSE Done(UfwAdds(rest, j.rule, j.pos), active)

\* Delete, then insert, in one batch that does not stop at an error.  A move to the last
\* position deletes the rule, and ufw refuses to put it back where no rule is any more.
UfwRuleMove(j) ==
    LET rest == Deleted(rules, j.rule)
    IN  IF UfwRefuses(rest, j.pos) THEN Raised(rest, active)
        ELSE Done(UfwAdds(rest, j.rule, j.pos), active)

\* The stored position is clamped to one past what exists, where ufw refuses it.
Landed(r) == IF slot[r] = None \/ slot[r] > Len(rules) THEN Len(rules) + 1 ELSE slot[r]

UfwRuleRestore(j) ==
    IF UfwRefuses(rules, Landed(j.rule)) THEN Raised(rules, active)
    ELSE Done(UfwAdds(rules, j.rule, Landed(j.rule)), active)

\* The management rule goes in first; both commands run whatever the first does.
UfwEnable(j) ==
    IF j.kind = "on" THEN {Done(rules, TRUE)}
    ELSE {Done(UfwAdds(rules, MgmtRule, None), TRUE)}
         \cup (IF "rejects" \in env THEN {Raised(rules, TRUE)} ELSE {})

UfwDisable == Done(rules, FALSE)

Outcomes(j) ==
    CASE j.kind = "add"                    -> {UfwRuleAdd(j)}
      [] j.kind \in {"delete", "disable"}  -> {UfwRuleDelete(j)}
      [] j.kind = "edit"                   -> {UfwRuleReplace(j)}
      [] j.kind = "move"                   -> {UfwRuleMove(j)}
      [] j.kind = "enable"                 -> {UfwRuleRestore(j)}
      [] j.kind \in {"on", "on_allow"}     -> UfwEnable(j)
      [] j.kind = "off"                    -> {UfwDisable}

--------------------------------------------------------------------------------
(* The requests *)

\* NetFleet manages the host, so it can reach it to begin with.
Init ==
    /\ world \in Worlds
    /\ rules \in Rulesets
    /\ active \in BOOLEAN
    /\ policy \in Policies
    /\ Admits(rules, active)
    /\ off = {}
    /\ slot = [r \in Rules |-> None]
    /\ phase = [q \in Requests |-> "idle"]
    /\ job = [q \in Requests |-> NoJob]
    /\ result = [q \in Requests |-> "none"]

\* Mutant of ChangeIsSafe: judges the ruleset in force, not the projected one.
ChangeIsSafeNow(j) == ~active \/ ~WouldLockOut(rules)

\* _assert_change_is_safe: nothing is judged on a firewall that is off, nor on a
\* ruleset that already reads as locked out.
ChangeIsSafe(j) == ~active \/ WouldLockOut(rules) \/ ~WouldLockOut(Projection(j))

\* enable_preflight: a rule that permits the path, in a ruleset that does not cut it.
Covered ==
    /\ \E i \in DOMAIN rules : rules[i].act = "allow" /\ RuleMatchesPath(rules[i])
    /\ ~WouldLockOut(rules)

\* What each operation accepts before it goes to the guard.  The rules of a
\* firewall that is off have no positions, so they cannot be moved.
Accepts(j) ==
    CASE j.kind \in {"add", "off", "on_allow"} -> TRUE
      [] j.kind \in {"delete", "edit"} -> j.force \/ ChangeIsSafe(j)
      [] j.kind = "disable" -> Contains(rules, j.rule) /\ (j.force \/ ChangeIsSafe(j))
      [] j.kind = "move"    -> Contains(rules, j.rule) /\ active /\ (j.force \/ ChangeIsSafe(j))
      [] j.kind = "enable"  -> j.rule \in off /\ (j.force \/ ChangeIsSafe(j))
      [] j.kind = "on"      -> j.force \/ Covered

\* What a request keeps of the status it read: disable_rule the position of the
\* rule, and on_allow whether the preflight has a rule to suggest.
PositionOf(r) == IF active THEN FirstIn(rules, {r}) ELSE None

Effective(j) ==
    CASE j.kind = "on_allow" /\ Covered -> [j EXCEPT !.kind = "on"]
      [] j.kind = "disable"             -> [j EXCEPT !.pos = PositionOf(j.rule)]
      [] OTHER                          -> j

\* Fields an operation does not use are fixed, and a move names a position.
WellFormed(j) ==
    /\ j.kind \in {"add", "edit"} \/ j.new = MgmtRule
    /\ j.kind \notin {"add", "on", "on_allow", "off"} \/ j.rule = MgmtRule
    /\ j.kind \in {"add", "edit", "move"} \/ j.pos = None
    /\ j.kind # "move" \/ j.pos # None
    /\ j.kind # "edit" \/ j.rule # j.new
    /\ j.kind \notin {"add", "off", "on_allow"} \/ ~j.force

Offers == {j \in Jobs : WellFormed(j)}

\* The request reads the status, checks the change and goes on to the guard.  One that
\* is refused has changed nothing.
Submit(q, j) ==
    /\ j.kind \in world.kinds
    /\ phase[q] = "idle"
    /\ "to_end" \in env \/ j.kind # "move" \/ j.pos < Len(rules)
    /\ "overlap" \in env \/ \A p \in Requests : phase[p] = "idle"
    /\ Accepts(j)
    /\ phase' = [phase EXCEPT ![q] = "checked"]
    /\ job' = [job EXCEPT ![q] = Effective(j)]
    /\ result' = [result EXCEPT ![q] = "none"]
    /\ UNCHANGED <<rules, active, policy, off, slot>>

Answer(q, how) ==
    /\ phase' = [phase EXCEPT ![q] = "idle"]
    /\ job' = [job EXCEPT ![q] = NoJob]
    /\ result' = [result EXCEPT ![q] = how]

\* run_guarded around the driver call.  A host that does not answer afterwards is
\* restored by its timer; an operation that raised leaves behind what it did.
Apply(q) ==
    /\ phase[q] = "checked"
    /\ \E o \in Outcomes(job[q]) :
       \/ /\ ~Admits(o.rules, o.active)
          /\ Answer(q, "reverted")
          /\ UNCHANGED <<rules, active>>
       \/ /\ Admits(o.rules, o.active)
          /\ rules' = o.rules /\ active' = o.active
          /\ IF job[q].kind \in {"disable", "enable"} /\ ~o.raised
               THEN phase' = [phase EXCEPT ![q] = "applied"] /\ UNCHANGED <<job, result>>
               ELSE Answer(q, IF o.raised THEN "error" ELSE "ok")
    /\ UNCHANGED <<policy, off, slot>>

\* Mutant of Finish: enable_rule leaves the row.
FinishKeepsRow(q) ==
    /\ phase[q] = "applied"
    /\ IF job[q].kind = "disable"
         THEN /\ off' = off \cup {job[q].rule}
              /\ slot' = [slot EXCEPT ![job[q].rule] = job[q].pos]
         ELSE UNCHANGED <<off, slot>>
    /\ Answer(q, "ok")
    /\ UNCHANGED <<rules, active, policy>>

\* After the guard: disable_rule inserts its row (a second row of the rule breaks
\* the unique constraint), enable_rule deletes it.
Finish(q) ==
    /\ phase[q] = "applied"
    /\ LET r == job[q].rule IN
       \/ /\ job[q].kind = "disable" /\ r \notin off
          /\ off' = off \cup {r}
          /\ slot' = [slot EXCEPT ![r] = job[q].pos]
          /\ Answer(q, "ok")
       \/ /\ job[q].kind = "disable" /\ r \in off
          /\ UNCHANGED <<off, slot>>
          /\ Answer(q, "error")
       \/ /\ job[q].kind = "enable"
          /\ off' = off \ {r}
          /\ slot' = [slot EXCEPT ![r] = None]
          /\ Answer(q, "ok")
    /\ UNCHANGED <<rules, active, policy>>

\* The API process dies; requests are lost between their steps.
Crash ==
    /\ "crash" \in env
    /\ \E q \in Requests : phase[q] # "idle"
    /\ phase' = [q \in Requests |-> "idle"]
    /\ job' = [q \in Requests |-> NoJob]
    /\ result' = [q \in Requests |-> "none"]
    /\ UNCHANGED <<rules, active, policy, off, slot>>

Step ==
    \/ \E q \in Requests, j \in Offers : Submit(q, j)
    \/ \E q \in Requests : Apply(q) \/ Finish(q)
    \/ Crash

Next == Step /\ UNCHANGED world

Spec == Init /\ [][Next]_allVars

--------------------------------------------------------------------------------
(* Properties *)

\* The type invariant: no rule is installed twice.
TypeOK ==
    /\ world \in Worlds
    /\ rules \in Rulesets
    /\ active \in BOOLEAN
    /\ policy \in Policies
    /\ off \subseteq Rules
    /\ slot \in [Rules -> {None} \cup (1 .. Cardinality(Rules))]
    /\ phase \in [Requests -> {"idle", "checked", "applied"}]
    /\ job \in [Requests -> [kind : AllKinds, rule : Rules, new : Rules, pos : Nat, force : BOOLEAN]]
    /\ result \in [Requests -> {"none", "reverted", "error", "ok"}]

\* The environment of this behaviour does none of kinds.
Without(kinds) == env \cap kinds = {}

\* A rule that denies NetFleet is installed, or is the one an edit brings in.
DenyInvolved(j) ==
    \E r \in ToSet(rules) \cup {j.new} : r.act = "deny" /\ HostMatches(r)

\* A change that the check let through is not undone by the guard.  It holds where the
\* check and the host agree on which rules match and what the default does, requests
\* follow each other, ufw takes the management rule and a move stays above the end,
\* except that an edit, or switching on with the management rule, is placed elsewhere
\* than it was judged when a rule that denies NetFleet is about.
SafeChangesStay ==
    [][\A q \in Requests :
         /\ Without({"overlap", "rejects", "to_end"})
         /\ policy # "reject"
         /\ SeenAsMatching = ReallyMatching
         /\ phase[q] = "checked" /\ result'[q] = "reverted"
         => \/ job[q].force
            \/ job[q].kind = "add"
            \/ job[q].kind \in {"edit", "on_allow"} /\ DenyInvolved(job[q])]_vars

\* q's request to move or edit an installed rule is answered in this step, and the number
\* of installed rules is the same as before: whether it worked, failed or was undone.
CountIsKeptFor(q) ==
    /\ phase[q] = "checked" /\ phase'[q] = "idle" /\ result'[q] # "none"
    /\ job[q].kind \in {"move", "edit"}
    /\ Contains(rules, job[q].rule)
    => Len(rules') = Len(rules)

\* A move reorders and an edit replaces: no rule is lost and none is left behind, for
\* every position of an edit, and for those of a move that have a rule below them.
MoveAndEditKeepCount ==
    [][Without({"overlap", "to_end"}) => \A q \in Requests : CountIsKeptFor(q)]_vars

\* The rules that somebody still knows of: the host, the list of those that are switched
\* off, or a request that has yet to write that list.
Known == ToSet(rules) \cup off \cup {job[q].rule : q \in {p \in Requests : phase[p] = "applied"}}

\* Step by step a rule that nobody deletes or replaces stays known, wherever it is moved
\* to and however often it is switched off and on.  The one that ufw refuses to put back
\* where it was moved is gone, and whoever moved it is told of an error.
LossIsTold ==
    [][Without({"overlap", "crash"}) =>
         \A r \in Known \ Known' :
           \E q \in Requests :
             /\ phase[q] = "checked" /\ job[q].rule = r
             /\ job[q].kind \in {"delete", "edit"} \/ result'[q] = "error"]_vars

\* disable_rule and enable_rule agree with the host: a rule listed as switched off is
\* not being enforced, where no other operation installs rules and no step is lost.
OffIsNotEnforced ==
    /\ Without({"overlap", "crash"})
    /\ world.kinds \cap {"add", "edit", "on_allow"} = {}
    => \A r \in off : Contains(rules, r) =>
         \E q \in Requests : phase[q] = "applied" /\ job[q].kind = "enable" /\ job[q].rule = r

================================================================================
