------------------------------ MODULE ChangeGuard ------------------------------
(***************************************************************************)
(* The firewall lockout guard of one Linux host: run_guarded, confirm,     *)
(* rollback and expire_stale_guards of services/change_guard.py, together  *)
(* with the host half in drivers/linux.py (ufw_guard_arm, ufw_guard_cancel,*)
(* ufw_guard_restore and the restore script a systemd timer runs).         *)
(*                                                                         *)
(* A guard g is one call of run_guarded.  Its change is a batch of Steps   *)
(* ufw commands; the ruleset of the host is the set of commands that are   *)
(* in force, and Admitting says which rulesets let NetFleet's management   *)
(* connection in (a delete that cuts the path followed by an insert that   *)
(* reopens it is a two-command batch whose first half is not admitting).   *)
(* An SSH connection that is already open survives a ruleset change; a new *)
(* one needs an admitting ruleset.                                         *)
(*                                                                         *)
(* The API runs in several worker processes (the image starts uvicorn with *)
(* --workers 2).  A request lives and dies with the worker that serves it; *)
(* a worker that starts sweeps the rows of all of them.                    *)
(*                                                                         *)
(* env is the set of things the surroundings may do in a behaviour.  The   *)
(* code takes no precaution against any of them; a property names the ones *)
(* that it needs not to happen:                                            *)
(*   "overlap"      two guarded changes of the host run at the same time   *)
(*   "stacked"      a change starts while an older guard's timer is ticking*)
(*   "slow"         the window elapses while run_guarded is still working  *)
(*   "early"        an operator acts on a guard whose run is in flight     *)
(*   "rivals"       two operators act on the same guard at the same time   *)
(*   "partial"      a batch fails after some of its commands took effect   *)
(*   "late"         a command takes effect after its connection was lost   *)
(*   "cancel_fails" the batch that cancels the timer fails, at any command *)
(*   "arm_reply"    the timer is armed but the reply of the arming is lost *)
(*   "restore_reply" a snapshot is restored but the reply is lost          *)
(*   "crash"        a worker process of the API dies and is started again  *)
(***************************************************************************)
EXTENDS Naturals

CONSTANTS
    Guards,     \* calls of run_guarded
    Operators,  \* requests that confirm or roll back, one at a time each
    Steps,      \* commands of a change
    Admitting,  \* rulesets that let NetFleet in
    Workers,    \* processes of the API
    WorkerOf,   \* the one that serves a guard or an operator
    Envs        \* environments that are looked at

EnvKinds == {"overlap", "stacked", "slow", "early", "rivals", "partial", "late",
             "cancel_fails", "arm_reply", "restore_reply", "crash"}

\* The commands of all guarded changes; a ruleset is a set of them.
Edits == Guards \X (1 .. Steps)

SomeGuard == CHOOSE g \in Guards : TRUE

ASSUME GuardsAssumption == Guards # {}
ASSUME StepsAssumption == Steps \in Nat \ {0}
ASSUME AdmittingAssumption == Admitting \subseteq SUBSET Edits /\ {} \in Admitting
ASSUME WorkersAssumption == WorkerOf \in [Guards \cup Operators -> Workers]
ASSUME EnvAssumption == Envs \subseteq SUBSET EnvKinds

VARIABLES
    env,       \* what the surroundings may do, the same throughout a behaviour
    supported, \* the host has systemd-run
    rules,     \* the ruleset in force
    late,      \* commands still running on the host after their connection died
    timer,     \* the systemd timer of each guard
    kept,      \* guards whose snapshot directory is on the host
    snap,      \* the ruleset each snapshot holds
    due,       \* guards whose window has elapsed (expires_at < now)
    row,       \* the state column of device_change_guards
    pc,        \* where each run_guarded is
    cmd,       \* the next command of its batch
    up,        \* the workers that are running
    op,        \* what each operator's request is doing
    sel        \* the guard it is about

host == <<supported, rules, late, timer, kept, snap>>
vars == <<host, due, row, pc, cmd, up, op, sel>>
allVars == <<env, vars>>

\* ChangeGuardState, and no row yet.
RowStates == {"none", "armed", "confirmed", "rolled_back", "expired"}
Resolved == {"confirmed", "rolled_back", "expired"}
TimerStates == {"none", "armed", "stopped", "fired"}

\* The awaits of run_guarded between which other requests run.
Working == {"arming", "recording", "connecting", "running", "failing", "disarming",
            "probing", "confirming"}
InFlight == Working \cup {"restoring", "stopping", "closing", "settling"}
Phases == InFlight \cup {"idle", "done"}
OpPhases == {"idle", "confirm", "settle", "rollback", "stop", "close"}

Reachable == rules \in Admitting

Init ==
    /\ env \in Envs
    /\ supported \in BOOLEAN
    /\ rules = {}
    /\ late = {}
    /\ timer = [g \in Guards |-> "none"]
    /\ kept = {}
    /\ snap = [g \in Guards |-> {}]
    /\ due = {}
    /\ row = [g \in Guards |-> "none"]
    /\ pc = [g \in Guards |-> "idle"]
    /\ cmd = [g \in Guards |-> 1]
    /\ up = Workers
    /\ op = [o \in Operators |-> "idle"]
    /\ sel = [o \in Operators |-> SomeGuard]

Goto(g, phase) == pc' = [pc EXCEPT ![g] = phase]

--------------------------------------------------------------------------------
(* The host half: what one driver call does to the host. *)

\* ufw_guard_cancel succeeds: systemctl stop found the timer.  That is all it checks:
\* the rm of the directory, two commands later, may have failed.
CancelOk(g) ==
    /\ Reachable
    /\ timer[g] = "armed"
    /\ timer' = [timer EXCEPT ![g] = "stopped"]
    /\ \/ kept' = kept \ {g}
       \/ "cancel_fails" \in env /\ UNCHANGED kept
    /\ UNCHANGED <<supported, rules, late, snap>>

\* ufw_guard_cancel raises: the host is not reached; or the timer unit is gone,
\* in which case the batch still removes the directory; or the connection is lost
\* after the stop, before or after the rm.
CancelRaises(g) ==
    \/ /\ ~Reachable \/ "cancel_fails" \in env
       /\ UNCHANGED host
    \/ /\ Reachable
       /\ timer[g] # "armed"
       /\ kept' = kept \ {g}
       /\ UNCHANGED <<supported, rules, late, timer, snap>>
    \/ /\ "cancel_fails" \in env
       /\ CancelOk(g)

\* Mutant of RestoreScript: the directory stays, so that the timer restores again.
RestoreScriptLeavesFiles(g) ==
    /\ g \in kept
    /\ rules' = snap[g]
    /\ UNCHANGED kept

\* restore.sh: the snapshot becomes the ruleset and its directory is removed.
RestoreScript(g) ==
    /\ g \in kept
    /\ rules' = snap[g]
    /\ kept' = kept \ {g}

\* The first half of ufw_guard_restore, over a new connection.
RestoreOk(g) ==
    /\ Reachable
    /\ RestoreScript(g)
    /\ UNCHANGED <<supported, late, timer, snap>>

\* It raises: no connection, no script, or the reply of a run script is lost.
RestoreRaises(g) ==
    \/ UNCHANGED host
    \/ "restore_reply" \in env /\ RestoreOk(g)

--------------------------------------------------------------------------------
(* run_guarded *)

MayBegin(g) ==
    \A h \in Guards \ {g} :
        /\ "overlap" \in env \/ pc[h] \notin InFlight
        /\ "stacked" \in env \/ timer[h] # "armed"

\* guard_supported answered on a working connection; the arming batch connects.
Begin(g) ==
    /\ WorkerOf[g] \in up
    /\ supported
    /\ pc[g] = "idle"
    /\ MayBegin(g)
    /\ Reachable
    /\ Goto(g, "arming")
    /\ UNCHANGED <<host, due, row, cmd, up, op, sel>>

\* GuardUnavailable: no systemd-run, so the change is refused.
Refuse(g) ==
    /\ WorkerOf[g] \in up
    /\ ~supported
    /\ pc[g] = "idle"
    /\ Goto(g, "done")
    /\ UNCHANGED <<host, due, row, cmd, up, op, sel>>

\* The snapshot files are copied, then the timer is scheduled.
ArmOnHost(g) ==
    /\ timer' = [timer EXCEPT ![g] = "armed"]
    /\ kept' = kept \cup {g}
    /\ snap' = [snap EXCEPT ![g] = rules]
    /\ UNCHANGED <<supported, rules, late>>

\* ufw_guard_arm: snapshot the ruleset, then schedule the restore script.
Arm(g) ==
    /\ pc[g] = "arming"
    /\ ArmOnHost(g)
    /\ Goto(g, "recording")
    /\ UNCHANGED <<due, row, cmd, up, op, sel>>

\* Mutant of ArmRaises: the result of systemd-run is not checked.
ArmUnchecked(g) ==
    /\ pc[g] = "arming"
    /\ kept' = kept \cup {g}
    /\ snap' = [snap EXCEPT ![g] = rules]
    /\ Goto(g, "recording")
    /\ UNCHANGED <<supported, rules, late, timer, due, row, cmd, up, op, sel>>

\* ufw_guard_arm raises: systemd-run failed after the snapshot was taken, or
\* its reply was lost and the timer ticks with no row that names it.
ArmRaises(g) ==
    /\ pc[g] = "arming"
    /\ \/ /\ kept' = kept \cup {g}
          /\ snap' = [snap EXCEPT ![g] = rules]
          /\ UNCHANGED <<supported, rules, late, timer>>
       \/ /\ "arm_reply" \in env
          /\ ArmOnHost(g)
    /\ Goto(g, "done")
    /\ UNCHANGED <<due, row, cmd, up, op, sel>>

\* The row is committed before the change is applied.
Record(g) ==
    /\ pc[g] = "recording"
    /\ row' = [row EXCEPT ![g] = "armed"]
    /\ Goto(g, "connecting")
    /\ UNCHANGED <<host, due, cmd, up, op, sel>>

\* apply(creds) opens its connection.  When it cannot, nothing was applied.
Connect(g) ==
    /\ pc[g] = "connecting"
    /\ \/ Reachable /\ Goto(g, "running")
       \/ Goto(g, "disarming")
    /\ UNCHANGED <<host, due, row, cmd, up, op, sel>>

\* The batch goes on to its next command, whatever became of this one; after the last
\* one apply has succeeded, or its checks of the results raise.
NextCommand(g, phase, end) ==
    IF cmd[g] = Steps
      THEN Goto(g, end) /\ UNCHANGED cmd
      ELSE cmd' = [cmd EXCEPT ![g] = @ + 1] /\ Goto(g, phase)

\* One command of the batch takes effect.
RunCommand(g) ==
    /\ \/ pc[g] = "running" /\ NextCommand(g, "running", "probing")
       \/ pc[g] = "failing" /\ NextCommand(g, "failing", "disarming")
    /\ rules' = rules \cup {<<g, cmd[g]>>}
    /\ UNCHANGED <<supported, late, timer, kept, snap, due, row, up, op, sel>>

\* The host rejects a command of a batch: run_many runs the rest of it all the same.
RejectCommand(g) ==
    /\ "partial" \in env
    /\ pc[g] \in {"running", "failing"}
    /\ NextCommand(g, "failing", "disarming")
    /\ UNCHANGED <<host, due, row, up, op, sel>>

\* apply raises at once: the connection is lost, or a change of several batches stops
\* at the one that failed.  No command took effect before; or (partial) some did, the
\* last one with its reply lost perhaps; or (late) one is still running on the host.
ApplyRaises(g) ==
    /\ pc[g] \in {"running", "failing"}
    /\ cmd[g] = 1 \/ "partial" \in env
    /\ \/ UNCHANGED <<rules, late>>
       \/ "partial" \in env /\ rules' = rules \cup {<<g, cmd[g]>>} /\ UNCHANGED late
       \/ "late" \in env /\ late' = late \cup {<<g, cmd[g]>>} /\ UNCHANGED rules
    /\ Goto(g, "disarming")
    /\ UNCHANGED <<supported, timer, kept, snap, due, row, cmd, up, op, sel>>

\* The exception path: _best_effort_cancel, then the row.
Disarm(g) ==
    /\ pc[g] = "disarming"
    /\ CancelOk(g) \/ CancelRaises(g)
    /\ Goto(g, "closing")
    /\ UNCHANGED <<due, row, cmd, up, op, sel>>

\* _reachable opens a new connection; it may also fail on a reachable host.
Probe(g) ==
    /\ pc[g] = "probing"
    /\ \/ Reachable /\ Goto(g, "confirming")
       \/ Goto(g, "restoring")
    /\ UNCHANGED <<host, due, row, cmd, up, op, sel>>

\* Mutant of ConfirmOwn: the row is confirmed and the timer is left running.
ConfirmWithoutCancel(g) ==
    /\ pc[g] = "confirming"
    /\ Goto(g, "settling")
    /\ UNCHANGED <<host, due, row, cmd, up, op, sel>>

\* The host answered: _best_effort_cancel, whose failure is only logged.
ConfirmOwn(g) ==
    /\ pc[g] = "confirming"
    /\ CancelOk(g) \/ CancelRaises(g)
    /\ Goto(g, "settling")
    /\ UNCHANGED <<due, row, cmd, up, op, sel>>

\* Mutant of RestoreOwn: the guard is disarmed instead of restored.
DisarmInsteadOfRestoring(g) ==
    /\ pc[g] = "restoring"
    /\ \/ CancelOk(g) /\ Goto(g, "closing")
       \/ CancelRaises(g) /\ Goto(g, "done")
    /\ UNCHANGED <<due, row, cmd, up, op, sel>>

\* The host did not answer: ufw_guard_restore; when it raises the row stays armed.
RestoreOwn(g) ==
    /\ pc[g] = "restoring"
    /\ \/ RestoreOk(g) /\ Goto(g, "stopping")
       \/ RestoreRaises(g) /\ Goto(g, "done")
    /\ UNCHANGED <<due, row, cmd, up, op, sel>>

\* ufw_guard_restore ends with ufw_guard_cancel.
StopOwn(g) ==
    /\ pc[g] = "stopping"
    /\ \/ CancelOk(g) /\ Goto(g, "closing")
       \/ CancelRaises(g) /\ Goto(g, "done")
    /\ UNCHANGED <<due, row, cmd, up, op, sel>>

\* Mutant of ResolveOwn: every run that ends is recorded as confirmed.
ResolveAsConfirmed(g) ==
    /\ pc[g] \in {"closing", "settling"}
    /\ row' = [row EXCEPT ![g] = "confirmed"]
    /\ Goto(g, "done")
    /\ UNCHANGED <<host, due, cmd, up, op, sel>>

\* _resolve writes the state whatever the row says by now.
ResolveOwn(g) ==
    /\ pc[g] \in {"closing", "settling"}
    /\ row' = [row EXCEPT ![g] = IF pc[g] = "settling" THEN "confirmed"
                                                       ELSE "rolled_back"]
    /\ Goto(g, "done")
    /\ UNCHANGED <<host, due, cmd, up, op, sel>>

RunGuarded(g) ==
    \/ Begin(g) \/ Refuse(g) \/ Arm(g) \/ ArmRaises(g) \/ Record(g) \/ Connect(g)
    \/ RunCommand(g) \/ RejectCommand(g) \/ ApplyRaises(g) \/ Disarm(g) \/ Probe(g)
    \/ ConfirmOwn(g) \/ RestoreOwn(g) \/ StopOwn(g) \/ ResolveOwn(g)

--------------------------------------------------------------------------------
(* confirm and rollback, called by an operator *)

OpGoto(o, phase) == op' = [op EXCEPT ![o] = phase]

MayOperate(g) ==
    /\ "early" \in env \/ pc[g] = "done"
    /\ "rivals" \in env \/ \A p \in Operators : op[p] # "idle" => sel[p] # g

\* Mutant of OpenGuard: the state of the guard is not looked at.
OpenAnyGuard(o, g) ==
    /\ WorkerOf[o] \in up
    /\ op[o] = "idle"
    /\ row[g] # "none"
    /\ MayOperate(g)
    /\ sel' = [sel EXCEPT ![o] = g]
    /\ \E what \in {"confirm", "rollback"} : OpGoto(o, what)
    /\ UNCHANGED <<host, due, row, pc, cmd, up>>

\* _get_armed: only an armed guard can be confirmed or rolled back.
OpenGuard(o, g) ==
    /\ WorkerOf[o] \in up
    /\ op[o] = "idle"
    /\ row[g] = "armed"
    /\ MayOperate(g)
    /\ sel' = [sel EXCEPT ![o] = g]
    /\ \E what \in {"confirm", "rollback"} : OpGoto(o, what)
    /\ UNCHANGED <<host, due, row, pc, cmd, up>>

\* confirm cancels the timer; when that raises the row stays armed.
OpConfirm(o) ==
    /\ op[o] = "confirm"
    /\ \/ CancelOk(sel[o]) /\ OpGoto(o, "settle")
       \/ CancelRaises(sel[o]) /\ OpGoto(o, "idle")
    /\ UNCHANGED <<due, row, pc, cmd, up, sel>>

\* rollback runs ufw_guard_restore: the script, then the cancel.
OpRollback(o) ==
    /\ op[o] = "rollback"
    /\ \/ RestoreOk(sel[o]) /\ OpGoto(o, "stop")
       \/ RestoreRaises(sel[o]) /\ OpGoto(o, "idle")
    /\ UNCHANGED <<due, row, pc, cmd, up, sel>>

OpStop(o) ==
    /\ op[o] = "stop"
    /\ \/ CancelOk(sel[o]) /\ OpGoto(o, "close")
       \/ CancelRaises(sel[o]) /\ OpGoto(o, "idle")
    /\ UNCHANGED <<due, row, pc, cmd, up, sel>>

OpResolve(o) ==
    /\ op[o] \in {"settle", "close"}
    /\ row' = [row EXCEPT ![sel[o]] = IF op[o] = "settle" THEN "confirmed"
                                                          ELSE "rolled_back"]
    /\ OpGoto(o, "idle")
    /\ UNCHANGED <<host, due, pc, cmd, up, sel>>

Operate(o) ==
    \/ \E g \in Guards : OpenGuard(o, g)
    \/ OpConfirm(o) \/ OpRollback(o) \/ OpStop(o) \/ OpResolve(o)

--------------------------------------------------------------------------------
(* Time, the host acting by itself, and the workers of the API *)

\* expires_at passes.  armed_at is read before the timer starts, so the row's
\* deadline is never later than the timer's.
WindowElapses(g) ==
    /\ g \notin due
    /\ pc[g] # "idle"
    /\ "slow" \in env \/ pc[g] \notin Working
    /\ due' = due \cup {g}
    /\ UNCHANGED <<host, row, pc, cmd, up, op, sel>>

\* Mutant of TimerFires: NetFleet runs the restore, and not the host by itself.
TimerNeedsApi(g) ==
    /\ up # {}
    /\ timer[g] = "armed"
    /\ g \in due
    /\ timer' = [timer EXCEPT ![g] = "fired"]
    /\ \/ RestoreScript(g)
       \/ g \notin kept /\ UNCHANGED <<rules, kept>>
    /\ UNCHANGED <<supported, late, snap, due, row, pc, cmd, up, op, sel>>

\* The systemd timer runs the script; without its directory that does nothing.
TimerFires(g) ==
    /\ timer[g] = "armed"
    /\ g \in due
    /\ timer' = [timer EXCEPT ![g] = "fired"]
    /\ \/ RestoreScript(g)
       \/ g \notin kept /\ UNCHANGED <<rules, kept>>
    /\ UNCHANGED <<supported, late, snap, due, row, pc, cmd, up, op, sel>>

\* A command whose connection was lost takes effect after all.
LateEffect(e) ==
    /\ e \in late
    /\ rules' = rules \cup {e}
    /\ late' = late \ {e}
    /\ UNCHANGED <<supported, timer, kept, snap, due, row, pc, cmd, up, op, sel>>

\* A worker dies with every request it was serving.
Crash(w) ==
    /\ "crash" \in env
    /\ w \in up
    /\ up' = up \ {w}
    /\ pc' = [g \in Guards |-> IF pc[g] \in InFlight /\ WorkerOf[g] = w THEN "done" ELSE pc[g]]
    /\ op' = [o \in Operators |-> IF WorkerOf[o] = w THEN "idle" ELSE op[o]]
    /\ UNCHANGED <<host, due, row, cmd, sel>>

\* expire_stale_guards, one UPDATE of all the rows that are still armed and overdue.
ExpireStaleGuards ==
    row' = [g \in Guards |-> IF row[g] = "armed" /\ g \in due
                             THEN "expired" ELSE row[g]]

\* The lifespan of a worker begins with the sweep; the requests that the other workers
\* are serving go on.
Restart(w) ==
    /\ w \notin up
    /\ up' = up \cup {w}
    /\ ExpireStaleGuards
    /\ UNCHANGED <<host, due, pc, cmd, op, sel>>

Step ==
    \/ \E g \in Guards : RunGuarded(g) \/ WindowElapses(g) \/ TimerFires(g)
    \/ \E o \in Operators : Operate(o)
    \/ \E e \in Edits : LateEffect(e)
    \/ \E w \in Workers : Crash(w) \/ Restart(w)

Next == Step /\ UNCHANGED env

\* Every SSH command has a timeout, so a run that is in flight goes on or fails;
\* the clock advances and systemd runs a timer that has elapsed.  Nothing obliges
\* anybody to ask for a change, an operator to act, or a worker to be restarted.
Fairness ==
    \A g \in Guards :
        /\ WF_vars(pc[g] \in InFlight /\ RunGuarded(g))
        /\ WF_vars(WindowElapses(g))
        /\ WF_vars(TimerFires(g))

Spec == Init /\ [][Next]_allVars /\ Fairness

--------------------------------------------------------------------------------
(* Properties *)

\* The type invariant of the host, the rows and the requests.
TypeOK ==
    /\ supported \in BOOLEAN
    /\ rules \subseteq Edits
    /\ late \subseteq Edits
    /\ timer \in [Guards -> TimerStates]
    /\ kept \subseteq Guards
    /\ snap \in [Guards -> SUBSET Edits]
    /\ due \subseteq Guards
    /\ row \in [Guards -> RowStates]
    /\ pc \in [Guards -> Phases]
    /\ cmd \in [Guards -> 1 .. Steps]
    /\ up \subseteq Workers
    /\ op \in [Operators -> OpPhases]
    /\ sel \in [Operators -> Guards]

\* The environment of this behaviour does none of kinds.
Without(kinds) == env \cap kinds = {}

\* What the guard needs of its surroundings: changes of one host do not overlap, the
\* window outlasts the run, operators wait for it to end, and a command does not take
\* effect after its connection was lost.  Batches and cancels may fail half-way, replies
\* may be lost, timers may pile up, operators may disagree, workers may crash.
Sheltered == Without({"overlap", "slow", "early", "late"})

\* A guard whose timer will bring back an admitting ruleset by itself.
Covers(g) == timer[g] = "armed" /\ g \in kept /\ snap[g] \in Admitting

\* The promise of run_guarded: when NetFleet is locked out of the host, a timer
\* on the host is still going to restore a ruleset that lets it back in.
LockoutIsCovered == ~Reachable => \E g \in Guards : Covers(g)

\* It is kept wherever the guard has what it needs of its surroundings.
NeverStranded == Sheltered => LockoutIsCovered

\* As long as changes do not overlap, no timer that ufw_guard_arm scheduled brings
\* back a ruleset that locks NetFleet out: the snapshot was not taken in the middle
\* of another change.
NoTimerLocksOut ==
    Sheltered => \A g \in Guards : timer[g] = "armed" /\ g \in kept => snap[g] \in Admitting

\* A switch ticks while its timer is armed, and holds the snapshot that is on the host.
Ticking == {g \in Guards : timer[g] = "armed"}
Held == [g \in kept |-> snap[g]]

Switch == INSTANCE DeadManSwitch
          WITH Switches <- Guards, Commands <- Edits, ticking <- Ticking, held <- Held

\* run_guarded, confirm, rollback and the restore script are a dead man's switch: a
\* command takes effect only while the timer of its own change ticks and holds the
\* ruleset of before; a timer is armed and stopped only while NetFleet is let in; and
\* everything else that happens to the ruleset is that a snapshot, which nothing
\* overwrites meanwhile, is put back, once, by somebody who is let in or by its timer.
GuardIsSwitch ==
    /\ Sheltered => Switch!Init
    /\ [][Sheltered => Switch!Next]_(Switch!vars)

\* The dead-man timer works: a lockout ends without anybody reaching the host.
LockoutEnds == (Sheltered /\ ~Reachable) ~> Reachable

\* The comment of ChangeGuardState.CONFIRMED: the host-side timer is cancelled,
\* or its script is gone, so that it restores nothing, unless the cancel failed.
ConfirmedMeansDisarmed ==
    Sheltered /\ Without({"cancel_fails"}) =>
        \A g \in Guards : row[g] = "confirmed" => timer[g] # "armed" \/ g \notin kept

\* The commands of g's change are in force.
InForce(g) == {g} \X (1 .. Steps) \subseteq rules

\* A change that is recorded as confirmed is in force.
ConfirmedIsInForce == \A g \in Guards : row[g] = "confirmed" => InForce(g)

\* A change recorded as confirmed stays in force: when guards are not stacked, no
\* restore of the same or of another guard takes one of its commands back.  (After a
\* crash, or a restore whose reply was lost, an operator may confirm a change that is
\* not on the host, and so may one who confirms while another one rolls back.)
ConfirmedStaysInForce ==
    Sheltered /\ Without({"cancel_fails", "stacked", "arm_reply", "restore_reply",
                              "rivals", "crash"}) => ConfirmedIsInForce

\* Nothing of g's change is on the host, or its timer is about to take it off.
TakenBack(g) ==
    \/ rules \cap ({g} \X (1 .. Steps)) = {}
    \/ timer[g] = "armed" /\ g \in kept

\* A change that run_guarded or an operator recorded as rolled back leaves nothing
\* behind on the host for good.
RolledBackLeavesNothing ==
    \A g \in Guards : row[g] = "rolled_back" => TakenBack(g)

\* The same where a batch that fails has failed as a whole.
WholeBatchesRollBack ==
    Sheltered /\ Without({"partial", "stacked"}) => RolledBackLeavesNothing

\* A request that may have read the row of g as armed is still on its way.
InHands(g) ==
    \/ pc[g] \in InFlight
    \/ \E o \in Operators : op[o] # "idle" /\ sel[o] = g

\* What a step leaves alone: a confirmation, a rollback, an expiry that nobody is about.
ResolutionsStay ==
    \A g \in Guards :
        row[g] \in Resolved /\ (row[g] = "expired" => ~InHands(g)) => row'[g] = row[g]

\* _get_armed refuses a resolved guard, so a confirmation or a rollback is never
\* overwritten, by whichever request of whichever worker read the row before; and the
\* expiry that another worker's sweep wrote is, only by a request that was on its way.
ResolvedIsFinal == [][Without({"early"}) => ResolutionsStay]_vars

================================================================================
