--------------------------- MODULE ChangeGuardProofs ---------------------------
(***************************************************************************)
(* Theorems about ChangeGuard: for every set of guards and operators, every*)
(* length of the batches and every notion of which rulesets admit NetFleet.*)
(***************************************************************************)
EXTENDS ChangeGuard, TLAPS

\* A snapshot on the host admits NetFleet.
SnapshotsAdmit == \A g \in Guards : g \in kept => snap[g] \in Admitting

\* Runs do not overlap.
OneInFlight ==
    \A g, h \in Guards : pc[g] \in InFlight /\ pc[h] \in InFlight => g = h

\* While a run still works, its window has not elapsed; once it is past the
\* arming, its timer is armed; while it arms, the host is reachable.
RunsAreGuarded ==
    \A g \in Guards :
        /\ pc[g] \in Working \cup {"idle"} => g \notin due
        /\ pc[g] \in Working \ {"arming"} => timer[g] = "armed" /\ g \in kept
        /\ pc[g] = "arming" => Reachable

\* An operator's request is about a run that has ended.
OperatorsWait == \A o \in Operators : op[o] # "idle" => pc[sel[o]] = "done"

\* The inductive invariant of a sheltered guard.
GuardInv ==
    /\ TypeOK
    /\ late = {}
    /\ SnapshotsAdmit
    /\ OneInFlight
    /\ RunsAreGuarded
    /\ OperatorsWait
    /\ LockoutIsCovered

--------------------------------------------------------------------------------

LEMMA SomeGuardIsOne == SomeGuard \in Guards
BY GuardsAssumption DEF SomeGuard

LEMMA TypeOKInit == Init => TypeOK
BY SomeGuardIsOne, StepsAssumption
   DEF Init, TypeOK, Edits, TimerStates, RowStates, Phases, OpPhases

\* The type invariant of the guard, its host and its requests, in any environment.
THEOREM TypeCorrect == Spec => []TypeOK
<1> USE StepsAssumption, AdmittingAssumption
<1>1. Init => TypeOK
  BY TypeOKInit
<1>2. TypeOK /\ [Next]_allVars => TypeOK'
  <2> SUFFICES ASSUME TypeOK, [Next]_allVars PROVE TypeOK'
    OBVIOUS
  <2> USE DEF TypeOK, TimerStates, RowStates, Phases, InFlight, Working, OpPhases,
              Goto, OpGoto, host
  <2>1. ASSUME NEW g \in Guards, RunGuarded(g) PROVE TypeOK'
    <3>1. CASE Begin(g)
      BY <3>1 DEF Begin
    <3>2. CASE Refuse(g)
      BY <3>2 DEF Refuse
    <3>3. CASE Arm(g)
      BY <3>3 DEF Arm, ArmOnHost
    <3>4. CASE ArmRaises(g)
      BY <3>4 DEF ArmRaises, ArmOnHost
    <3>5. CASE Record(g)
      BY <3>5 DEF Record
    <3>6. CASE Connect(g)
      BY <3>6 DEF Connect
    <3>7. CASE RunCommand(g)
      BY <3>7 DEF RunCommand, NextCommand, Edits
    <3>15. CASE RejectCommand(g)
      BY <3>15 DEF RejectCommand, NextCommand
    <3>8. CASE ApplyRaises(g)
      BY <3>8 DEF ApplyRaises, Edits
    <3>9. CASE Disarm(g)
      BY <3>9 DEF Disarm, CancelOk, CancelRaises
    <3>10. CASE Probe(g)
      BY <3>10 DEF Probe
    <3>11. CASE ConfirmOwn(g)
      BY <3>11 DEF ConfirmOwn, CancelOk, CancelRaises
    <3>12. CASE RestoreOwn(g)
      BY <3>12 DEF RestoreOwn, RestoreOk, RestoreRaises, RestoreScript
    <3>13. CASE StopOwn(g)
      BY <3>13 DEF StopOwn, CancelOk, CancelRaises
    <3>14. CASE ResolveOwn(g)
      BY <3>14 DEF ResolveOwn
    <3> QED
      BY <2>1, <3>1, <3>2, <3>3, <3>4, <3>5, <3>6, <3>7, <3>8, <3>9, <3>10, <3>11,
         <3>12, <3>13, <3>14, <3>15 DEF RunGuarded
  <2>2. ASSUME NEW g \in Guards, WindowElapses(g) PROVE TypeOK'
    BY <2>2 DEF WindowElapses
  <2>3. ASSUME NEW g \in Guards, TimerFires(g) PROVE TypeOK'
    BY <2>3 DEF TimerFires, RestoreScript
  <2>4. ASSUME NEW o \in Operators, Operate(o) PROVE TypeOK'
    <3>1. ASSUME NEW g \in Guards, OpenGuard(o, g) PROVE TypeOK'
      BY <3>1 DEF OpenGuard, MayOperate
    <3>2. CASE OpConfirm(o)
      BY <3>2 DEF OpConfirm, CancelOk, CancelRaises
    <3>3. CASE OpRollback(o)
      BY <3>3 DEF OpRollback, RestoreOk, RestoreRaises, RestoreScript
    <3>4. CASE OpStop(o)
      BY <3>4 DEF OpStop, CancelOk, CancelRaises
    <3>5. CASE OpResolve(o)
      BY <3>5 DEF OpResolve
    <3> QED
      BY <2>4, <3>1, <3>2, <3>3, <3>4, <3>5 DEF Operate
  <2>5. ASSUME NEW e \in Edits, LateEffect(e) PROVE TypeOK'
    BY <2>5 DEF LateEffect
  <2>6. ASSUME NEW w \in Workers, Crash(w) PROVE TypeOK'
    BY <2>6 DEF Crash
  <2>7. ASSUME NEW w \in Workers, Restart(w) PROVE TypeOK'
    BY <2>7 DEF Restart, ExpireStaleGuards
  <2>8. CASE UNCHANGED allVars
    BY <2>8 DEF allVars, vars
  <2> QED
    BY <2>1, <2>2, <2>3, <2>4, <2>5, <2>6, <2>7, <2>8 DEF Next, Step
<1> QED
  BY <1>1, <1>2, PTL DEF Spec

--------------------------------------------------------------------------------

\* The environment of a behaviour does not change.
LEMMA ShelteredKept ==
  ASSUME [Next]_allVars
  PROVE  /\ env' = env
         /\ Sheltered' <=> Sheltered
         /\ \A kinds : Without(kinds)' <=> Without(kinds)
BY DEF Next, allVars, Sheltered, Without

LEMMA GuardInvInit == Init => GuardInv
BY TypeOKInit, AdmittingAssumption
   DEF Init, GuardInv, SnapshotsAdmit, OneInFlight, RunsAreGuarded, OperatorsWait,
       LockoutIsCovered, Reachable, InFlight, Working

\* One step of the specification keeps the inductive invariant.
LEMMA GuardInvStep ==
  ASSUME Sheltered, TypeOK', GuardInv, [Next]_allVars
  PROVE  GuardInv'
<1> USE AdmittingAssumption
<1> USE DEF GuardInv, SnapshotsAdmit, OneInFlight, RunsAreGuarded, OperatorsWait,
            LockoutIsCovered, Covers, Reachable, TypeOK, InFlight, Working, Goto, OpGoto,
            host, Sheltered, Without
<1>1. ASSUME NEW g \in Guards, RunGuarded(g) PROVE GuardInv'
  <2>1. CASE Begin(g)
    BY <2>1 DEF Begin, MayBegin
  <2>2. CASE Refuse(g)
    BY <2>2 DEF Refuse
  <2>3. CASE Arm(g)
    BY <2>3 DEF Arm, ArmOnHost
  <2>4. CASE ArmRaises(g)
    BY <2>4 DEF ArmRaises, ArmOnHost
  <2>5. CASE Record(g)
    BY <2>5 DEF Record
  <2>6. CASE Connect(g)
    BY <2>6 DEF Connect
  <2>7. CASE RunCommand(g)
    BY <2>7 DEF RunCommand, NextCommand, Edits
  <2>15. CASE RejectCommand(g)
    BY <2>15 DEF RejectCommand, NextCommand
  <2>8. CASE ApplyRaises(g)
    BY <2>8 DEF ApplyRaises
  <2>9. CASE Disarm(g)
    BY <2>9 DEF Disarm, CancelOk, CancelRaises
  <2>10. CASE Probe(g)
    BY <2>10 DEF Probe
  <2>11. CASE ConfirmOwn(g)
    BY <2>11 DEF ConfirmOwn, CancelOk, CancelRaises
  <2>12. CASE RestoreOwn(g)
    BY <2>12 DEF RestoreOwn, RestoreOk, RestoreRaises, RestoreScript
  <2>13. CASE StopOwn(g)
    BY <2>13 DEF StopOwn, CancelOk, CancelRaises
  <2>14. CASE ResolveOwn(g)
    BY <2>14 DEF ResolveOwn
  <2> QED
    BY <1>1, <2>1, <2>2, <2>3, <2>4, <2>5, <2>6, <2>7, <2>8, <2>9, <2>10, <2>11, <2>12, <2>13, <2>14, <2>15 DEF RunGuarded
<1>2. ASSUME NEW g \in Guards, WindowElapses(g) PROVE GuardInv'
  BY <1>2 DEF WindowElapses
<1>3. ASSUME NEW g \in Guards, TimerFires(g) PROVE GuardInv'
  BY <1>3 DEF TimerFires, RestoreScript
<1>4. ASSUME NEW o \in Operators, Operate(o) PROVE GuardInv'
  <2>1. ASSUME NEW g \in Guards, OpenGuard(o, g) PROVE GuardInv'
    BY <2>1 DEF OpenGuard, MayOperate
  <2>2. CASE OpConfirm(o)
    BY <2>2 DEF OpConfirm, CancelOk, CancelRaises
  <2>3. CASE OpRollback(o)
    BY <2>3 DEF OpRollback, RestoreOk, RestoreRaises, RestoreScript
  <2>4. CASE OpStop(o)
    BY <2>4 DEF OpStop, CancelOk, CancelRaises
  <2>5. CASE OpResolve(o)
    BY <2>5 DEF OpResolve
  <2> QED
    BY <1>4, <2>1, <2>2, <2>3, <2>4, <2>5 DEF Operate
<1>5. ASSUME NEW e \in Edits, LateEffect(e) PROVE GuardInv'
  BY <1>5 DEF LateEffect
<1>6. ASSUME NEW w \in Workers, Crash(w) PROVE GuardInv'
  BY <1>6 DEF Crash
<1>7. ASSUME NEW w \in Workers, Restart(w) PROVE GuardInv'
  BY <1>7 DEF Restart
<1>8. CASE UNCHANGED allVars
  BY <1>8 DEF allVars, vars
<1> QED
  BY <1>1, <1>2, <1>3, <1>4, <1>5, <1>6, <1>7, <1>8 DEF Next, Step

\* In a sheltered environment NetFleet is never locked out of the host for good,
\* whatever fails half-way, is lost, or crashes.
THEOREM GuardNeverStrands == Spec => []NeverStranded
<1> DEFINE Inv == Sheltered => GuardInv
<1>1. Init => Inv
  BY GuardInvInit
<1>2. TypeOK' /\ Inv /\ [Next]_allVars => Inv'
  BY GuardInvStep, ShelteredKept
<1>3. Inv => NeverStranded
  BY DEF GuardInv, NeverStranded, LockoutIsCovered
<1> QED
  BY <1>1, <1>2, <1>3, TypeCorrect, PTL DEF Spec

--------------------------------------------------------------------------------

\* The row of a run that has armed and recorded its guard is armed until the run
\* resolves it, unless a worker that started meanwhile has swept it; before that there
\* is no row.
Open == {"armed", "expired"}

RowFollowsRun ==
    \A g \in Guards :
        /\ pc[g] \in {"idle", "arming", "recording"} => row[g] = "none"
        /\ pc[g] \in InFlight \ {"arming", "recording"} => row[g] \in Open

\* The right to resolve a guard belongs to the one request whose systemctl stop
\* found the timer; a guard whose timer an operator can still stop is neither confirmed
\* nor rolled back.
Resolving(o) == op[o] \in {"settle", "close"}

ResolverIsUnique ==
    /\ \A o \in Operators : Resolving(o) => /\ timer[sel[o]] = "stopped"
                                            /\ row[sel[o]] \in Open
    /\ \A o \in Operators : op[o] # "idle" /\ timer[sel[o]] = "armed" => row[sel[o]] \in Open
    /\ \A o, p \in Operators : Resolving(o) /\ Resolving(p) /\ sel[o] = sel[p] => o = p

FinalInv ==
    /\ TypeOK
    /\ RowFollowsRun
    /\ OperatorsWait
    /\ ResolverIsUnique

LEMMA FinalInvInit == Init => FinalInv
BY TypeOKInit
   DEF Init, FinalInv, RowFollowsRun, OperatorsWait, ResolverIsUnique, Resolving,
       Open, InFlight, Working

\* One step keeps FinalInv and overwrites no resolution.
LEMMA FinalInvStep ==
  ASSUME "early" \notin env, TypeOK', FinalInv, [Next]_allVars
  PROVE  /\ FinalInv'
         /\ ResolutionsStay
<1> DEFINE Goal == /\ FinalInv'
                   /\ ResolutionsStay
<1> USE DEF FinalInv, RowFollowsRun, OperatorsWait, ResolverIsUnique, Resolving,
            Open, InHands, ResolutionsStay, TypeOK, InFlight, Working, Resolved, Goto, OpGoto, host
<1>0. SUFFICES Goal
  OBVIOUS
<1>1. ASSUME NEW g \in Guards, RunGuarded(g) PROVE Goal
  <2>1. CASE Begin(g)
    BY <2>1 DEF Begin, MayBegin
  <2>2. CASE Refuse(g)
    BY <2>2 DEF Refuse
  <2>3. CASE Arm(g)
    BY <2>3 DEF Arm, ArmOnHost
  <2>4. CASE ArmRaises(g)
    BY <2>4 DEF ArmRaises, ArmOnHost
  <2>5. CASE Record(g)
    BY <2>5 DEF Record
  <2>6. CASE Connect(g)
    BY <2>6 DEF Connect
  <2>7. CASE RunCommand(g)
    BY <2>7 DEF RunCommand, NextCommand, Edits
  <2>15. CASE RejectCommand(g)
    BY <2>15 DEF RejectCommand, NextCommand
  <2>8. CASE ApplyRaises(g)
    BY <2>8 DEF ApplyRaises
  <2>9. CASE Disarm(g)
    BY <2>9 DEF Disarm, CancelOk, CancelRaises
  <2>10. CASE Probe(g)
    BY <2>10 DEF Probe
  <2>11. CASE ConfirmOwn(g)
    BY <2>11 DEF ConfirmOwn, CancelOk, CancelRaises
  <2>12. CASE RestoreOwn(g)
    BY <2>12 DEF RestoreOwn, RestoreOk, RestoreRaises, RestoreScript
  <2>13. CASE StopOwn(g)
    BY <2>13 DEF StopOwn, CancelOk, CancelRaises
  <2>14. CASE ResolveOwn(g)
    BY <2>14 DEF ResolveOwn
  <2> QED
    BY <1>1, <2>1, <2>2, <2>3, <2>4, <2>5, <2>6, <2>7,
       <2>8, <2>9, <2>10, <2>11, <2>12, <2>13, <2>14, <2>15 DEF RunGuarded
<1>2. ASSUME NEW g \in Guards, WindowElapses(g) PROVE Goal
  BY <1>2 DEF WindowElapses
<1>3. ASSUME NEW g \in Guards, TimerFires(g) PROVE Goal
  BY <1>3 DEF TimerFires, RestoreScript
<1>4. ASSUME NEW o \in Operators, Operate(o) PROVE Goal
  <2>1. ASSUME NEW g \in Guards, OpenGuard(o, g) PROVE Goal
    BY <2>1 DEF OpenGuard, MayOperate
  <2>2. CASE OpConfirm(o)
    BY <2>2 DEF OpConfirm, CancelOk, CancelRaises
  <2>3. CASE OpRollback(o)
    BY <2>3 DEF OpRollback, RestoreOk, RestoreRaises, RestoreScript
  <2>4. CASE OpStop(o)
    BY <2>4 DEF OpStop, CancelOk, CancelRaises
  <2>5. CASE OpResolve(o)
    BY <2>5 DEF OpResolve
  <2> QED
    BY <1>4, <2>1, <2>2, <2>3, <2>4, <2>5 DEF Operate
<1>5. ASSUME NEW e \in Edits, LateEffect(e) PROVE Goal
  BY <1>5 DEF LateEffect
<1>6. ASSUME NEW w \in Workers, Crash(w) PROVE Goal
  BY <1>6 DEF Crash
<1>7. ASSUME NEW w \in Workers, Restart(w) PROVE Goal
  BY <1>7 DEF Restart, ExpireStaleGuards
<1>8. CASE UNCHANGED allVars
  BY <1>8 DEF allVars, vars
<1> QED
  BY <1>1, <1>2, <1>3, <1>4, <1>5, <1>6, <1>7, <1>8 DEF Next, Step

\* As long as operators act on runs that have ended, a confirmation or a rollback is
\* never overwritten, however many operators confirm and roll back the same guard,
\* whichever workers serve them, start and sweep meanwhile, and whatever else goes
\* wrong; and the expiry that a sweep wrote is, only by a request already on its way.
THEOREM ResolutionIsFinal == Spec => ResolvedIsFinal
<1> DEFINE Inv == Without({"early"}) => FinalInv
<1>1. Init => Inv
  BY FinalInvInit
<1>2. TypeOK' /\ Inv /\ [Next]_allVars => Inv'
  BY FinalInvStep, ShelteredKept DEF Without
<1>3. TypeOK' /\ Inv /\ [Next]_allVars
      => [Without({"early"}) => ResolutionsStay]_vars
  BY FinalInvStep DEF Without
<1> QED
  BY <1>1, <1>2, <1>3, TypeCorrect, PTL DEF Spec, ResolvedIsFinal

--------------------------------------------------------------------------------

\* A guard that is being confirmed can be reached, and one that is confirmed, or
\* about to be recorded so, has no timer left that would change the ruleset.
Spent(g) == timer[g] # "armed" \/ g \notin kept

ConfirmInv ==
    /\ \A g \in Guards : pc[g] = "confirming" => Reachable
    /\ \A g \in Guards : pc[g] = "settling" \/ row[g] = "confirmed" => Spent(g)

LEMMA ConfirmInvStep ==
  ASSUME Sheltered, "cancel_fails" \notin env, TypeOK', GuardInv, FinalInv, ConfirmInv,
         [Next]_allVars
  PROVE  ConfirmInv'
<1> USE DEF GuardInv, FinalInv, RowFollowsRun, SnapshotsAdmit, OneInFlight, RunsAreGuarded,
            OperatorsWait, ResolverIsUnique, Resolving, Open, ConfirmInv, Spent, Reachable, TypeOK, InFlight,
            Working, Goto, OpGoto, host, Sheltered, Without
<1>1. ASSUME NEW g \in Guards, RunGuarded(g) PROVE ConfirmInv'
  <2>1. CASE Begin(g)
    BY <2>1 DEF Begin, MayBegin
  <2>2. CASE Refuse(g)
    BY <2>2 DEF Refuse
  <2>3. CASE Arm(g)
    BY <2>3 DEF Arm, ArmOnHost
  <2>4. CASE ArmRaises(g)
    BY <2>4 DEF ArmRaises, ArmOnHost
  <2>5. CASE Record(g)
    BY <2>5 DEF Record
  <2>6. CASE Connect(g)
    BY <2>6 DEF Connect
  <2>7. CASE RunCommand(g)
    BY <2>7 DEF RunCommand, NextCommand, Edits
  <2>15. CASE RejectCommand(g)
    BY <2>15 DEF RejectCommand, NextCommand
  <2>8. CASE ApplyRaises(g)
    BY <2>8 DEF ApplyRaises
  <2>9. CASE Disarm(g)
    BY <2>9 DEF Disarm, CancelOk, CancelRaises
  <2>10. CASE Probe(g)
    BY <2>10 DEF Probe
  <2>11. CASE ConfirmOwn(g)
    BY <2>11 DEF ConfirmOwn, CancelOk, CancelRaises
  <2>12. CASE RestoreOwn(g)
    BY <2>12 DEF RestoreOwn, RestoreOk, RestoreRaises, RestoreScript
  <2>13. CASE StopOwn(g)
    BY <2>13 DEF StopOwn, CancelOk, CancelRaises
  <2>14. CASE ResolveOwn(g)
    BY <2>14 DEF ResolveOwn
  <2> QED
    BY <1>1, <2>1, <2>2, <2>3, <2>4, <2>5, <2>6, <2>7,
       <2>8, <2>9, <2>10, <2>11, <2>12, <2>13, <2>14, <2>15 DEF RunGuarded
<1>2. ASSUME NEW g \in Guards, WindowElapses(g) PROVE ConfirmInv'
  BY <1>2 DEF WindowElapses
<1>3. ASSUME NEW g \in Guards, TimerFires(g) PROVE ConfirmInv'
  BY <1>3 DEF TimerFires, RestoreScript
<1>4. ASSUME NEW o \in Operators, Operate(o) PROVE ConfirmInv'
  <2>1. ASSUME NEW g \in Guards, OpenGuard(o, g) PROVE ConfirmInv'
    BY <2>1 DEF OpenGuard, MayOperate
  <2>2. CASE OpConfirm(o)
    BY <2>2 DEF OpConfirm, CancelOk, CancelRaises
  <2>3. CASE OpRollback(o)
    BY <2>3 DEF OpRollback, RestoreOk, RestoreRaises, RestoreScript
  <2>4. CASE OpStop(o)
    BY <2>4 DEF OpStop, CancelOk, CancelRaises
  <2>5. CASE OpResolve(o)
    BY <2>5 DEF OpResolve
  <2> QED
    BY <1>4, <2>1, <2>2, <2>3, <2>4, <2>5 DEF Operate
<1>5. ASSUME NEW e \in Edits, LateEffect(e) PROVE ConfirmInv'
  BY <1>5 DEF LateEffect
<1>6. ASSUME NEW w \in Workers, Crash(w) PROVE ConfirmInv'
  BY <1>6 DEF Crash
<1>7. ASSUME NEW w \in Workers, Restart(w) PROVE ConfirmInv'
  BY <1>7 DEF Restart, ExpireStaleGuards
<1>8. CASE UNCHANGED allVars
  BY <1>8 DEF allVars, vars
<1> QED
  BY <1>1, <1>2, <1>3, <1>4, <1>5, <1>6, <1>7, <1>8 DEF Next, Step

\* When, besides, the connection that cancels the timer does not fail, a change
\* recorded as confirmed has no live timer.
THEOREM ConfirmedIsDisarmed == Spec => []ConfirmedMeansDisarmed
<1> DEFINE Calm == Sheltered /\ Without({"cancel_fails"})
           Inv == Calm => GuardInv /\ FinalInv /\ ConfirmInv
<1>1. Init => Inv
  <2>1. Init => ConfirmInv
    BY DEF Init, ConfirmInv, Spent
  <2> QED
    BY <2>1, GuardInvInit, FinalInvInit
<1>2. TypeOK' /\ Inv /\ [Next]_allVars => Inv'
  <2> SUFFICES ASSUME TypeOK', Inv, [Next]_allVars, Calm'
               PROVE  GuardInv' /\ FinalInv' /\ ConfirmInv'
    OBVIOUS
  <2>1. Calm /\ "early" \notin env /\ "cancel_fails" \notin env
    BY ShelteredKept DEF Sheltered, Without
  <2> QED
    BY <2>1, GuardInvStep, FinalInvStep, ConfirmInvStep
<1>3. Inv => ConfirmedMeansDisarmed
  BY DEF ConfirmInv, ConfirmedMeansDisarmed, Spent
<1> QED
  BY <1>1, <1>2, <1>3, TypeCorrect, PTL DEF Spec

--------------------------------------------------------------------------------

\* The commands of a guarded change.
Change(g) == {g} \X (1 .. Steps)

\* When changes neither overlap nor stack, there is one timer, it belongs to the run in
\* flight if there is one, and a snapshot that a row names still has it, unless a cancel
\* failed half-way.
SingleInv ==
    /\ \A g, h \in Guards : pc[g] \in InFlight /\ timer[h] = "armed" => g = h
    /\ \A g, h \in Guards : timer[g] = "armed" /\ timer[h] = "armed" => g = h
    /\ \A g \in Guards : g \in kept /\ row[g] # "none" /\ timer[g] # "armed" =>
         "cancel_fails" \in env /\ pc[g] \in {"closing", "settling", "done"}
    /\ \A o \in Operators : op[o] # "idle" => row[sel[o]] # "none"

\* A change that was not applied, and one that was taken back.
Unapplied(g) ==
    \/ pc[g] \in {"idle", "arming", "recording", "connecting", "disarming"}
    \/ pc[g] = "running" /\ cmd[g] = 1

Undone(g) ==
    \/ pc[g] \in {"stopping", "closing"}
    \/ row[g] = "rolled_back"
    \/ \E o \in Operators : sel[o] = g /\ op[o] = "stop" /\ timer[g] = "armed"
    \/ \E o \in Operators : sel[o] = g /\ op[o] = "close"

\* A change that no snapshot may hold: it has not begun, it may still be taken back, or
\* it was.
Clean(g) == pc[g] \in {"idle", "arming"} \/ timer[g] = "armed" \/ Undone(g)

\* Where batches fail as a whole, neither is in the ruleset, nor in a snapshot that is
\* still on the host.
RollbackInv ==
    /\ \A g \in Guards : pc[g] # "failing"
    /\ \A g \in Guards : pc[g] \in {"idle", "arming", "recording", "connecting"} => cmd[g] = 1
    /\ \A g \in Guards : Unapplied(g) \/ Undone(g) => rules \cap Change(g) = {}
    /\ \A g \in Guards : g \in kept => snap[g] \cap Change(g) = {}
    /\ \A g, h \in Guards : h \in kept /\ Clean(g) => snap[h] \cap Change(g) = {}

\* A change that is confirmed or about to be.
Settled(g) ==
    \/ pc[g] = "settling" \/ row[g] = "confirmed"
    \/ \E o \in Operators : sel[o] = g /\ op[o] = "settle"

\* No worker is down, and an operator's request has its guard for itself.
OneOperator ==
    /\ up = Workers
    /\ \A o \in Operators : op[o] # "idle" => row[sel[o]] = "armed"
    /\ \A o, p \in Operators : op[o] # "idle" /\ op[p] # "idle" /\ sel[o] = sel[p] => o = p

\* A run has applied what its position says; it ends with its change applied, unless an
\* operator is taking it back; and what is settled is in the ruleset and in the snapshot
\* of the timer that may still fire.
AppliedInv ==
    /\ \A g \in Guards : pc[g] \in {"idle", "arming", "recording", "connecting"} => cmd[g] = 1
    /\ \A g \in Guards : pc[g] = "running" => \A i \in 1 .. Steps : i < cmd[g] => <<g, i>> \in rules
    /\ \A g \in Guards : pc[g] \in {"probing", "confirming"} => Change(g) \subseteq rules
    /\ \A g \in Guards : pc[g] = "restoring" /\ timer[g] = "armed" =>
         g \in kept /\ Change(g) \subseteq rules
    /\ \A g \in Guards : pc[g] = "stopping" /\ timer[g] = "armed" => Reachable
    /\ \A g \in Guards : pc[g] = "done" /\ row[g] = "armed" /\ timer[g] = "armed" =>
         \/ g \in kept /\ Change(g) \subseteq rules
         \/ \E o \in Operators : sel[o] = g /\ op[o] = "stop"
    /\ \A o \in Operators : op[o] = "stop" /\ timer[sel[o]] = "armed" => Reachable
    /\ \A g \in Guards : Settled(g) => g \notin kept /\ timer[g] # "armed" /\ Change(g) \subseteq rules
    /\ \A g, h \in Guards : Settled(g) /\ h \in kept /\ timer[h] = "armed" => Change(g) \subseteq snap[h]

\* A change that follows the others alone leaves one timer.
LEMMA SingleInvStep ==
  ASSUME Sheltered, "stacked" \notin env, TypeOK', GuardInv, FinalInv, SingleInv, [Next]_allVars
  PROVE  SingleInv'
<1> USE DEF GuardInv, FinalInv, RowFollowsRun, Open, OneInFlight, RunsAreGuarded, OperatorsWait,
            SingleInv, TypeOK, InFlight, Working, Goto, OpGoto, host, Sheltered, Without
<1>0. env' = env
  BY ShelteredKept
<1> USE <1>0
<1>1. ASSUME NEW g \in Guards, RunGuarded(g) PROVE SingleInv'
  <2>1. CASE Begin(g)
    BY <2>1 DEF Begin, MayBegin
  <2>2. CASE Refuse(g)
    BY <2>2 DEF Refuse
  <2>3. CASE Arm(g)
    BY <2>3 DEF Arm, ArmOnHost
  <2>4. CASE ArmRaises(g)
    BY <2>4 DEF ArmRaises, ArmOnHost
  <2>5. CASE Record(g)
    BY <2>5 DEF Record
  <2>6. CASE Connect(g)
    BY <2>6 DEF Connect
  <2>7. CASE RunCommand(g)
    BY <2>7 DEF RunCommand, NextCommand, Edits
  <2>15. CASE RejectCommand(g)
    BY <2>15 DEF RejectCommand, NextCommand
  <2>8. CASE ApplyRaises(g)
    BY <2>8 DEF ApplyRaises
  <2>9. CASE Disarm(g)
    BY <2>9 DEF Disarm, CancelOk, CancelRaises
  <2>10. CASE Probe(g)
    BY <2>10 DEF Probe
  <2>11. CASE ConfirmOwn(g)
    BY <2>11 DEF ConfirmOwn, CancelOk, CancelRaises
  <2>12. CASE RestoreOwn(g)
    BY <2>12 DEF RestoreOwn, RestoreOk, RestoreRaises, RestoreScript
  <2>13. CASE StopOwn(g)
    BY <2>13 DEF StopOwn, CancelOk, CancelRaises
  <2>14. CASE ResolveOwn(g)
    BY <2>14 DEF ResolveOwn
  <2> QED
    BY <1>1, <2>1, <2>2, <2>3, <2>4, <2>5, <2>6, <2>7,
       <2>8, <2>9, <2>10, <2>11, <2>12, <2>13, <2>14, <2>15 DEF RunGuarded
<1>2. ASSUME NEW g \in Guards, WindowElapses(g) PROVE SingleInv'
  BY <1>2 DEF WindowElapses
<1>3. ASSUME NEW g \in Guards, TimerFires(g) PROVE SingleInv'
  BY <1>3 DEF TimerFires, RestoreScript
<1>4. ASSUME NEW o \in Operators, Operate(o) PROVE SingleInv'
  <2>1. ASSUME NEW g \in Guards, OpenGuard(o, g) PROVE SingleInv'
    BY <2>1 DEF OpenGuard, MayOperate
  <2>2. CASE OpConfirm(o)
    BY <2>2 DEF OpConfirm, CancelOk, CancelRaises
  <2>3. CASE OpRollback(o)
    BY <2>3 DEF OpRollback, RestoreOk, RestoreRaises, RestoreScript
  <2>4. CASE OpStop(o)
    BY <2>4 DEF OpStop, CancelOk, CancelRaises
  <2>5. CASE OpResolve(o)
    BY <2>5 DEF OpResolve
  <2> QED
    BY <1>4, <2>1, <2>2, <2>3, <2>4, <2>5 DEF Operate
<1>5. ASSUME NEW e \in Edits, LateEffect(e) PROVE SingleInv'
  BY <1>5 DEF LateEffect
<1>6. ASSUME NEW w \in Workers, Crash(w) PROVE SingleInv'
  BY <1>6 DEF Crash
<1>7. ASSUME NEW w \in Workers, Restart(w) PROVE SingleInv'
  BY <1>7 DEF Restart, ExpireStaleGuards
<1>8. CASE UNCHANGED allVars
  BY <1>8 DEF allVars, vars
<1> QED
  BY <1>1, <1>2, <1>3, <1>4, <1>5, <1>6, <1>7, <1>8 DEF Next, Step

\* The commands of two changes differ.
LEMMA ChangesDiffer ==
  ASSUME NEW g \in Guards, NEW h \in Guards, NEW i
  PROVE  <<h, i>> \in Change(g) <=> h = g /\ i \in 1 .. Steps
BY DEF Change

\* A change that was not applied or was taken back stays off the host.
LEMMA RollbackInvStep ==
  ASSUME Sheltered, "stacked" \notin env, "partial" \notin env, TypeOK', GuardInv, FinalInv,
         SingleInv, RollbackInv, [Next]_allVars
  PROVE  RollbackInv'
<1> USE DEF GuardInv, FinalInv, RowFollowsRun, Open, OneInFlight, RunsAreGuarded, OperatorsWait,
            SingleInv, RollbackInv, Unapplied, Clean, Undone, TypeOK, InFlight, Working, Goto, OpGoto,
            host, Sheltered, Without
<1>1. ASSUME NEW g \in Guards, RunGuarded(g) PROVE RollbackInv'
  <2>1. CASE Begin(g)
    BY <2>1 DEF Begin, MayBegin
  <2>2. CASE Refuse(g)
    BY <2>2 DEF Refuse
  <2>3. CASE Arm(g)
    BY <2>3 DEF Arm, ArmOnHost
  <2>4. CASE ArmRaises(g)
    BY <2>4 DEF ArmRaises, ArmOnHost
  <2>5. CASE Record(g)
    BY <2>5 DEF Record
  <2>6. CASE Connect(g)
    BY <2>6 DEF Connect
  <2>7. CASE RunCommand(g)
    <3>1. /\ rules' = rules \cup {<<g, cmd[g]>>} /\ pc[g] = "running" /\ cmd[g] \in 1 .. Steps
          /\ pc'[g] \in {"running", "probing"} /\ (pc'[g] = "running" => cmd'[g] # 1)
          /\ \A h \in Guards : h # g => pc'[h] = pc[h] /\ cmd'[h] = cmd[h]
          /\ UNCHANGED <<timer, kept, snap, row, op, sel>>
      BY <2>7, StepsAssumption DEF RunCommand, NextCommand
    <3>2. ~Undone(g)' /\ ~Unapplied(g)'
      BY <3>1
    <3>3. ASSUME NEW h \in Guards, Unapplied(h)' \/ Undone(h)' PROVE rules' \cap Change(h) = {}
      <4>1. h # g
        BY <3>2, <3>3
      <4>2. Unapplied(h) \/ Undone(h)
        BY <3>1, <3>3, <4>1
      <4>3. <<g, cmd[g]>> \notin Change(h)
        BY <4>1, ChangesDiffer
      <4>4. rules \cap Change(h) = {}
        BY <4>2
      <4> QED BY ONLY <3>1, <4>3, <4>4
    <3>4. \A h \in Guards : pc'[h] = "idle" \/ Undone(h)' => pc[h] = "idle" \/ Undone(h)
      BY <3>1, <3>2
    <3> QED BY <3>1, <3>3, <3>4
  <2>15. CASE RejectCommand(g)
    BY <2>15 DEF RejectCommand, NextCommand
  <2>8. CASE ApplyRaises(g)
    BY <2>8 DEF ApplyRaises
  <2>9. CASE Disarm(g)
    BY <2>9 DEF Disarm, CancelOk, CancelRaises
  <2>10. CASE Probe(g)
    BY <2>10 DEF Probe
  <2>11. CASE ConfirmOwn(g)
    BY <2>11 DEF ConfirmOwn, CancelOk, CancelRaises
  <2>12. CASE RestoreOwn(g)
    BY <2>12 DEF RestoreOwn, RestoreOk, RestoreRaises, RestoreScript
  <2>13. CASE StopOwn(g)
    BY <2>13 DEF StopOwn, CancelOk, CancelRaises
  <2>14. CASE ResolveOwn(g)
    BY <2>14 DEF ResolveOwn
  <2> QED
    BY <1>1, <2>1, <2>2, <2>3, <2>4, <2>5, <2>6, <2>7,
       <2>8, <2>9, <2>10, <2>11, <2>12, <2>13, <2>14, <2>15 DEF RunGuarded
<1>2. ASSUME NEW g \in Guards, WindowElapses(g) PROVE RollbackInv'
  BY <1>2 DEF WindowElapses
<1>3. ASSUME NEW g \in Guards, TimerFires(g) PROVE RollbackInv'
  BY <1>3 DEF TimerFires, RestoreScript
<1>4. ASSUME NEW o \in Operators, Operate(o) PROVE RollbackInv'
  <2>1. ASSUME NEW g \in Guards, OpenGuard(o, g) PROVE RollbackInv'
    BY <2>1 DEF OpenGuard, MayOperate
  <2>2. CASE OpConfirm(o)
    BY <2>2 DEF OpConfirm, CancelOk, CancelRaises
  <2>3. CASE OpRollback(o)
    BY <2>3 DEF OpRollback, RestoreOk, RestoreRaises, RestoreScript
  <2>4. CASE OpStop(o)
    BY <2>4 DEF OpStop, CancelOk, CancelRaises
  <2>5. CASE OpResolve(o)
    BY <2>5 DEF OpResolve
  <2> QED
    BY <1>4, <2>1, <2>2, <2>3, <2>4, <2>5 DEF Operate
<1>5. ASSUME NEW e \in Edits, LateEffect(e) PROVE RollbackInv'
  BY <1>5 DEF LateEffect
<1>6. ASSUME NEW w \in Workers, Crash(w) PROVE RollbackInv'
  BY <1>6 DEF Crash
<1>7. ASSUME NEW w \in Workers, Restart(w) PROVE RollbackInv'
  BY <1>7 DEF Restart, ExpireStaleGuards
<1>8. CASE UNCHANGED allVars
  BY <1>8 DEF allVars, vars
<1> QED
  BY <1>1, <1>2, <1>3, <1>4, <1>5, <1>6, <1>7, <1>8 DEF Next, Step

\* A change that was applied stays in force until it is taken back.
LEMMA AppliedInvStep ==
  ASSUME Sheltered, Without({"cancel_fails", "stacked", "arm_reply", "restore_reply", "rivals", "crash"}),
         TypeOK', GuardInv, FinalInv, ConfirmInv,
         SingleInv, OneOperator, AppliedInv, [Next]_allVars
  PROVE  OneOperator' /\ AppliedInv'
<1>8. CASE UNCHANGED allVars
  <2>1. UNCHANGED <<env, rules, timer, snap, kept, row, pc, cmd, up, op, sel>>
    BY <1>8 DEF allVars, vars, host
  <2>2. OneOperator'
    BY ONLY OneOperator, <2>1 DEF OneOperator
  <2>3. AppliedInv'
    BY ONLY AppliedInv, <2>1 DEF AppliedInv, Settled, Reachable
  <2> QED
    BY <2>2, <2>3
<1> USE DEF GuardInv, FinalInv, RowFollowsRun, Open, OneInFlight, RunsAreGuarded, OperatorsWait,
            SingleInv, OneOperator, AppliedInv, Settled, TypeOK, InFlight, Working, Goto, OpGoto,
            host, Sheltered, Without, SnapshotsAdmit, ConfirmInv, Reachable
<1> DEFINE Goal == OneOperator' /\ AppliedInv'
<1>0. SUFFICES Goal
  OBVIOUS
<1>1. ASSUME NEW g \in Guards, RunGuarded(g) PROVE Goal
  <2>1. CASE Begin(g)
    BY <2>1 DEF Begin, MayBegin
  <2>2. CASE Refuse(g)
    BY <2>2 DEF Refuse
  <2>3. CASE Arm(g)
    BY <2>3 DEF Arm, ArmOnHost
  <2>4. CASE ArmRaises(g)
    BY <2>4 DEF ArmRaises, ArmOnHost
  <2>5. CASE Record(g)
    BY <2>5 DEF Record
  <2>6. CASE Connect(g)
    <3>1. /\ pc[g] = "connecting" /\ pc \in [Guards -> Phases]
          /\ \E phase \in {"running", "disarming"} : pc' = [pc EXCEPT ![g] = phase]
          /\ UNCHANGED <<rules, timer, kept, snap, row, cmd, op, sel, up>>
      BY <2>6 DEF Connect
    <3>2. cmd[g] = 1 /\ cmd'[g] = 1
      BY <3>1
    <3>3. /\ pc'[g] \in {"running", "disarming"}
          /\ \A h \in Guards : h # g => pc'[h] = pc[h]
      BY ONLY <3>1
    <3>4. OneOperator'
      BY ONLY OneOperator, <3>1 DEF OneOperator
    <3>5. AppliedInv'
      BY ONLY AppliedInv, <3>1, <3>2, <3>3, StepsAssumption DEF AppliedInv, Settled, Reachable
    <3> QED BY <3>4, <3>5
  <2>7. CASE RunCommand(g)
    <3>0. CASE pc[g] = "failing"
      <4>1. /\ rules' = rules \cup {<<g, cmd[g]>>}
            /\ \E phase \in {"failing", "disarming"} : pc' = [pc EXCEPT ![g] = phase]
            /\ \A h \in Guards : h # g => cmd'[h] = cmd[h]
            /\ UNCHANGED <<timer, kept, snap, row, op, sel, up>>
        BY <2>7, <3>0 DEF RunCommand, NextCommand
      <4>2. /\ \A o \in Operators : op[o] # "idle" => sel[o] # g
            /\ \A h \in Guards : timer[h] = "armed" \/ pc[h] \in InFlight => h = g
        BY <3>0
      <4> QED BY <3>0, <4>1, <4>2
    <3> SUFFICES ASSUME pc[g] = "running" PROVE Goal
      BY <2>7, <3>0 DEF RunCommand
    <3>1. /\ rules' = rules \cup {<<g, cmd[g]>>} /\ pc[g] = "running" /\ cmd[g] \in 1 .. Steps
          /\ \/ cmd[g] = Steps /\ pc' = [pc EXCEPT ![g] = "probing"] /\ cmd' = cmd
             \/ cmd[g] # Steps /\ cmd' = [cmd EXCEPT ![g] = cmd[g] + 1] /\ pc' = pc
          /\ UNCHANGED <<timer, kept, snap, row, op, sel, up>>
      BY <2>7 DEF RunCommand, NextCommand
    <3>2. /\ timer[g] = "armed"
          /\ \A o \in Operators : op[o] # "idle" => sel[o] # g
          /\ \A h \in Guards : timer[h] = "armed" \/ pc[h] \in InFlight => h = g
      BY <3>1
    <3>3. \A i \in 1 .. Steps : i < cmd[g] => <<g, i>> \in rules
      BY <3>1
    <3>4. CASE cmd[g] = Steps
      <4>1. \A i \in 1 .. Steps : <<g, i>> \in rules'
        BY ONLY <3>1, <3>3, <3>4, StepsAssumption
      <4>2. Change(g) \subseteq rules'
        BY <4>1 DEF Change
      <4>3. pc' = [pc EXCEPT ![g] = "probing"] /\ cmd' = cmd
        BY <3>1, <3>4
      <4> QED BY <3>1, <3>2, <4>2, <4>3
    <3>5. CASE cmd[g] # Steps
      <4>1. pc' = pc /\ cmd' = [cmd EXCEPT ![g] = cmd[g] + 1] /\ cmd'[g] = cmd[g] + 1
        BY <3>1, <3>5
      <4>2. \A i \in 1 .. Steps : i < cmd'[g] => <<g, i>> \in rules'
        BY ONLY <3>1, <3>3, <4>1, StepsAssumption
      <4>3. \A h \in Guards : h # g => cmd'[h] = cmd[h]
        <5>1. cmd \in [Guards -> 1 .. Steps]
          BY DEF TypeOK
        <5> QED BY ONLY <4>1, <5>1
      <4>4. rules \subseteq rules' /\ UNCHANGED <<pc, timer, kept, snap, row, op, sel, up>>
        BY <3>1, <4>1
      <4>5. OneOperator'
        BY ONLY OneOperator, <4>4 DEF OneOperator
      <4>6. \A h \in Guards : pc'[h] = "stopping" /\ timer'[h] = "armed" => Reachable'
        BY <3>1, <3>2, <4>4
      <4>7. \A o \in Operators : op'[o] = "stop" /\ timer'[sel'[o]] = "armed" => Reachable'
        BY <3>2, <4>4
      <4>8. AppliedInv'
        <5>1. pc[g] = "running"
          BY <3>1
        <5>2. \A h \in Guards : Settled(h)' <=> Settled(h)
          BY ONLY <4>4 DEF Settled
        <5>3. \A h \in Guards :
                pc'[h] \in {"idle", "arming", "recording", "connecting"} => cmd'[h] = 1
          BY ONLY AppliedInv, <4>3, <4>4, <5>1 DEF AppliedInv
        <5>4. \A h \in Guards : pc'[h] = "running" =>
                \A i \in 1 .. Steps : i < cmd'[h] => <<h, i>> \in rules'
          BY ONLY AppliedInv, <4>2, <4>3, <4>4 DEF AppliedInv
        <5> QED
          BY ONLY AppliedInv, <4>4, <4>6, <4>7, <5>2, <5>3, <5>4 DEF AppliedInv
      <4> QED BY <4>5, <4>8
    <3> QED BY <3>4, <3>5
  <2>15. CASE RejectCommand(g)
    <3>1. /\ pc[g] \in {"running", "failing"}
          /\ \E phase \in {"failing", "disarming"} : pc' = [pc EXCEPT ![g] = phase]
          /\ \A h \in Guards : h # g => cmd'[h] = cmd[h]
          /\ UNCHANGED <<rules, timer, kept, snap, row, op, sel, up>>
      BY <2>15 DEF RejectCommand, NextCommand
    <3>2. \A o \in Operators : op[o] # "idle" => sel[o] # g
      BY <3>1
    <3> QED BY <3>1, <3>2
  <2>8. CASE ApplyRaises(g)
    BY <2>8 DEF ApplyRaises
  <2>9. CASE Disarm(g)
    BY <2>9 DEF Disarm, CancelOk, CancelRaises
  <2>10. CASE Probe(g)
    BY <2>10 DEF Probe
  <2>11. CASE ConfirmOwn(g)
    BY <2>11 DEF ConfirmOwn, CancelOk, CancelRaises
  <2>12. CASE RestoreOwn(g)
    <3>1. /\ pc[g] = "restoring"
          /\ \/ RestoreOk(g) /\ pc' = [pc EXCEPT ![g] = "stopping"]
             \/ UNCHANGED host /\ pc' = [pc EXCEPT ![g] = "done"]
          /\ UNCHANGED <<row, cmd, up, op, sel>>
      BY <2>12 DEF RestoreOwn, RestoreRaises
    <3>2. CASE RestoreOk(g) /\ pc' = [pc EXCEPT ![g] = "stopping"]
      BY <3>1, <3>2 DEF RestoreOk, RestoreScript
    <3>3. CASE UNCHANGED host /\ pc' = [pc EXCEPT ![g] = "done"]
      BY <3>1, <3>3
    <3> QED BY <3>1, <3>2, <3>3
  <2>13. CASE StopOwn(g)
    <3>1. /\ pc[g] = "stopping"
          /\ \/ CancelOk(g) /\ pc' = [pc EXCEPT ![g] = "closing"]
             \/ CancelRaises(g) /\ pc' = [pc EXCEPT ![g] = "done"]
          /\ UNCHANGED <<row, cmd, up, op, sel>>
      BY <2>13 DEF StopOwn
    <3>2. CASE CancelOk(g) /\ pc' = [pc EXCEPT ![g] = "closing"]
      BY <3>1, <3>2 DEF CancelOk
    <3>3. CASE CancelRaises(g) /\ pc' = [pc EXCEPT ![g] = "done"]
      <4>1. timer' = timer /\ timer[g] # "armed" /\ kept' \in {kept, kept \ {g}} /\ UNCHANGED <<rules, snap>>
        BY <3>1, <3>3 DEF CancelRaises
      <4> QED BY <3>1, <3>3, <4>1
    <3> QED BY <3>1, <3>2, <3>3
  <2>14. CASE ResolveOwn(g)
    BY <2>14 DEF ResolveOwn
  <2> QED
    BY <1>1, <2>1, <2>2, <2>3, <2>4, <2>5, <2>6, <2>7,
       <2>8, <2>9, <2>10, <2>11, <2>12, <2>13, <2>14, <2>15 DEF RunGuarded
<1>2. ASSUME NEW g \in Guards, WindowElapses(g) PROVE Goal
  BY <1>2 DEF WindowElapses
<1>3. ASSUME NEW g \in Guards, TimerFires(g) PROVE Goal
  BY <1>3 DEF TimerFires, RestoreScript
<1>4. ASSUME NEW o \in Operators, Operate(o) PROVE Goal
  <2>1. ASSUME NEW g \in Guards, OpenGuard(o, g) PROVE Goal
    BY <2>1 DEF OpenGuard, MayOperate
  <2>2. CASE OpConfirm(o)
    BY <2>2 DEF OpConfirm, CancelOk, CancelRaises
  <2>3. CASE OpRollback(o)
    BY <2>3 DEF OpRollback, RestoreOk, RestoreRaises, RestoreScript
  <2>4. CASE OpStop(o)
    BY <2>4 DEF OpStop, CancelOk, CancelRaises
  <2>5. CASE OpResolve(o)
    BY <2>5 DEF OpResolve
  <2> QED
    BY <1>4, <2>1, <2>2, <2>3, <2>4, <2>5 DEF Operate
<1>5. ASSUME NEW e \in Edits, LateEffect(e) PROVE Goal
  BY <1>5 DEF LateEffect
<1>6. ASSUME NEW w \in Workers, Crash(w) PROVE Goal
  BY <1>6 DEF Crash
<1>7. ASSUME NEW w \in Workers, Restart(w) PROVE Goal
  BY <1>7 DEF Restart, ExpireStaleGuards
<1> QED
  BY <1>1, <1>2, <1>3, <1>4, <1>5, <1>6, <1>7, <1>8 DEF Next, Step

\* What every state satisfies, by what the surroundings leave out.
LEMMA GuardInvariance == Spec => [](Sheltered => GuardInv /\ FinalInv)
<1>1. Init => (Sheltered => GuardInv /\ FinalInv)
  BY GuardInvInit, FinalInvInit
<1>2. TypeOK' /\ (Sheltered => GuardInv /\ FinalInv) /\ [Next]_allVars
      => (Sheltered => GuardInv /\ FinalInv)'
  <2> SUFFICES ASSUME TypeOK', Sheltered => GuardInv /\ FinalInv, [Next]_allVars, Sheltered'
               PROVE  GuardInv' /\ FinalInv'
    OBVIOUS
  <2>1. Sheltered /\ "early" \notin env
    BY ShelteredKept DEF Sheltered, Without
  <2> QED BY <2>1, GuardInvStep, FinalInvStep
<1> QED BY <1>1, <1>2, TypeCorrect, PTL DEF Spec

LEMMA SingleInvariance == Spec => [](Sheltered /\ Without({"stacked"}) => SingleInv)
<1> DEFINE Alone == Sheltered /\ Without({"stacked"})
<1>1. Init => (Alone => SingleInv)
  BY DEF Init, SingleInv, InFlight, Working
<1>2. TypeOK' /\ (Sheltered => GuardInv /\ FinalInv) /\ (Alone => SingleInv) /\ [Next]_allVars
      => (Alone => SingleInv)'
  <2> SUFFICES ASSUME TypeOK', Sheltered => GuardInv /\ FinalInv, Alone => SingleInv, [Next]_allVars,
                      Alone'
               PROVE  SingleInv'
    OBVIOUS
  <2>1. Alone /\ "stacked" \notin env
    BY ShelteredKept DEF Without
  <2> QED BY <2>1, SingleInvStep
<1> QED BY <1>1, <1>2, GuardInvariance, TypeCorrect, PTL DEF Spec

\* As long as changes do not overlap, no timer brings back a ruleset that locks NetFleet
\* out: the snapshot of ufw_guard_arm was not taken in the middle of another change.
THEOREM TimersLetIn == Spec => []NoTimerLocksOut
<1>1. (Sheltered => GuardInv /\ FinalInv) => NoTimerLocksOut
  BY DEF GuardInv, SnapshotsAdmit, NoTimerLocksOut
<1> QED BY <1>1, GuardInvariance, PTL

\* Where batches fail as a whole and guards are not stacked, a change recorded as rolled
\* back has left nothing on the host, and no timer is going to bring any of it back.
THEOREM RollbackIsWhole == Spec => []WholeBatchesRollBack
<1> DEFINE Whole == Sheltered /\ Without({"partial", "stacked"})
           Inv == Whole => RollbackInv
           Before == /\ Sheltered => GuardInv /\ FinalInv
                     /\ Sheltered /\ Without({"stacked"}) => SingleInv
<1>1. Init => Inv
  BY DEF Init, RollbackInv, Unapplied, Clean, Undone
<1>2. TypeOK' /\ Before /\ Inv /\ [Next]_allVars => Inv'
  <2> SUFFICES ASSUME TypeOK', Before, Inv, [Next]_allVars, Whole' PROVE RollbackInv'
    OBVIOUS
  <2>1. Whole
    BY ShelteredKept
  <2>2. "stacked" \notin env /\ "partial" \notin env /\ Without({"stacked"})
    BY <2>1 DEF Without
  <2> QED BY <2>1, <2>2, RollbackInvStep
<1>3. Inv => WholeBatchesRollBack
  <2> SUFFICES ASSUME Whole, RollbackInv, NEW g \in Guards, row[g] = "rolled_back"
               PROVE  TakenBack(g)
    BY DEF WholeBatchesRollBack, RolledBackLeavesNothing
  <2>1. rules \cap Change(g) = {}
    BY DEF RollbackInv, Undone
  <2> QED BY <2>1 DEF TakenBack, Change
<1>4. Spec => []Before
  BY GuardInvariance, SingleInvariance, PTL
<1> QED BY <1>1, <1>2, <1>3, <1>4, TypeCorrect, PTL DEF Spec

\* A change recorded as confirmed stays in force, when guards are not stacked, cancels and
\* replies arrive, operators do not work against each other and the API does not crash.
THEOREM ConfirmedIsKept == Spec => []ConfirmedStaysInForce
<1> DEFINE Spared == {"cancel_fails", "stacked", "arm_reply", "restore_reply", "rivals", "crash"}
           Calm == Sheltered /\ Without(Spared)
           Inv == Calm => ConfirmInv /\ OneOperator /\ AppliedInv
           Before == /\ Sheltered => GuardInv /\ FinalInv
                     /\ Sheltered /\ Without({"stacked"}) => SingleInv
<1>1. Init => Inv
  <2>1. Init => ConfirmInv
    BY DEF Init, ConfirmInv, Spent
  <2>2. Init => OneOperator /\ AppliedInv
    BY DEF Init, OneOperator, AppliedInv, Settled
  <2> QED BY <2>1, <2>2
<1>2. TypeOK' /\ Before /\ Inv /\ [Next]_allVars => Inv'
  <2> SUFFICES ASSUME TypeOK', Before, Inv, [Next]_allVars, Calm'
               PROVE  ConfirmInv' /\ OneOperator' /\ AppliedInv'
    OBVIOUS
  <2>1. Calm
    BY ShelteredKept DEF Without
  <2>2. "cancel_fails" \notin env /\ Without({"stacked"})
    BY <2>1 DEF Without
  <2> QED BY <2>1, <2>2, ConfirmInvStep, AppliedInvStep
<1>3. Inv => ConfirmedStaysInForce
  <2> SUFFICES ASSUME Calm, AppliedInv, NEW g \in Guards, row[g] = "confirmed"
               PROVE  {g} \X (1 .. Steps) \subseteq rules
    BY DEF ConfirmedStaysInForce, ConfirmedIsInForce, InForce
  <2>1. Change(g) \subseteq rules
    BY DEF AppliedInv, Settled
  <2> QED BY <2>1 DEF Change
<1>4. Spec => []Before
  BY GuardInvariance, SingleInvariance, PTL
<1> QED BY <1>1, <1>2, <1>3, <1>4, TypeCorrect, PTL DEF Spec

--------------------------------------------------------------------------------
(* The guard implements DeadManSwitch *)

\* A run that has not armed its guard yet has neither a timer nor a directory.
FreshInv ==
    \A g \in Guards : pc[g] \in {"idle", "arming"} => timer[g] = "none" /\ g \notin kept

\* One step keeps it, in every environment.
LEMMA FreshInvStep ==
  ASSUME TypeOK, TypeOK', FreshInv, [Next]_allVars
  PROVE  FreshInv'
<1> USE DEF FreshInv, TypeOK, InFlight, Working, Goto, OpGoto, host
<1>1. ASSUME NEW g \in Guards, RunGuarded(g) PROVE FreshInv'
  <2>1. CASE Begin(g)
    BY <2>1 DEF Begin, MayBegin
  <2>2. CASE Refuse(g)
    BY <2>2 DEF Refuse
  <2>3. CASE Arm(g)
    BY <2>3 DEF Arm, ArmOnHost
  <2>4. CASE ArmRaises(g)
    BY <2>4 DEF ArmRaises, ArmOnHost
  <2>5. CASE Record(g)
    BY <2>5 DEF Record
  <2>6. CASE Connect(g)
    BY <2>6 DEF Connect
  <2>7. CASE RunCommand(g)
    BY <2>7 DEF RunCommand, NextCommand, Edits
  <2>15. CASE RejectCommand(g)
    BY <2>15 DEF RejectCommand, NextCommand
  <2>8. CASE ApplyRaises(g)
    BY <2>8 DEF ApplyRaises
  <2>9. CASE Disarm(g)
    BY <2>9 DEF Disarm, CancelOk, CancelRaises
  <2>10. CASE Probe(g)
    BY <2>10 DEF Probe
  <2>11. CASE ConfirmOwn(g)
    BY <2>11 DEF ConfirmOwn, CancelOk, CancelRaises
  <2>12. CASE RestoreOwn(g)
    BY <2>12 DEF RestoreOwn, RestoreOk, RestoreRaises, RestoreScript
  <2>13. CASE StopOwn(g)
    BY <2>13 DEF StopOwn, CancelOk, CancelRaises
  <2>14. CASE ResolveOwn(g)
    BY <2>14 DEF ResolveOwn
  <2> QED
    BY <1>1, <2>1, <2>2, <2>3, <2>4, <2>5, <2>6, <2>7, <2>8, <2>9, <2>10, <2>11, <2>12, <2>13, <2>14, <2>15 DEF RunGuarded
<1>2. ASSUME NEW g \in Guards, WindowElapses(g) PROVE FreshInv'
  BY <1>2 DEF WindowElapses
<1>3. ASSUME NEW g \in Guards, TimerFires(g) PROVE FreshInv'
  BY <1>3 DEF TimerFires, RestoreScript
<1>4. ASSUME NEW o \in Operators, Operate(o) PROVE FreshInv'
  <2>1. ASSUME NEW g \in Guards, OpenGuard(o, g) PROVE FreshInv'
    BY <2>1 DEF OpenGuard, MayOperate
  <2>2. CASE OpConfirm(o)
    BY <2>2 DEF OpConfirm, CancelOk, CancelRaises
  <2>3. CASE OpRollback(o)
    BY <2>3 DEF OpRollback, RestoreOk, RestoreRaises, RestoreScript
  <2>4. CASE OpStop(o)
    BY <2>4 DEF OpStop, CancelOk, CancelRaises
  <2>5. CASE OpResolve(o)
    BY <2>5 DEF OpResolve
  <2> QED
    BY <1>4, <2>1, <2>2, <2>3, <2>4, <2>5 DEF Operate
<1>5. ASSUME NEW e \in Edits, LateEffect(e) PROVE FreshInv'
  BY <1>5 DEF LateEffect
<1>6. ASSUME NEW w \in Workers, Crash(w) PROVE FreshInv'
  BY <1>6 DEF Crash
<1>7. ASSUME NEW w \in Workers, Restart(w) PROVE FreshInv'
  BY <1>7 DEF Restart, ExpireStaleGuards
<1>8. CASE UNCHANGED allVars
  BY <1>8 DEF allVars, vars
<1> QED
  BY <1>1, <1>2, <1>3, <1>4, <1>5, <1>6, <1>7, <1>8 DEF Next, Step

LEMMA FreshInvariance == Spec => []FreshInv
<1>1. Init => FreshInv
  BY DEF Init, FreshInv
<1> QED BY <1>1, FreshInvStep, TypeCorrect, PTL DEF Spec

\* What the switch sees of the host is in its timers, directories and snapshots.
LEMMA SameSwitch ==
  ASSUME UNCHANGED <<rules, timer, kept, snap>>
  PROVE  UNCHANGED <<rules, Ticking, Held>>
BY DEF Ticking, Held

\* A snapshot that is taken while NetFleet is let in arms a switch, or fails to.
LEMMA ArmingArms ==
  ASSUME TypeOK, NEW g \in Guards, Reachable, g \notin kept,
         kept' = kept \cup {g}, snap' = [snap EXCEPT ![g] = rules], rules' = rules,
         timer' = timer \/ timer' = [timer EXCEPT ![g] = "armed"]
  PROVE  Switch!Arm(g)
<1>1. Ticking' \in {Ticking, Ticking \cup {g}}
  BY DEF Ticking, TypeOK
<1>2. DOMAIN Held = kept
  BY DEF Held
<1>3. Held' = [t \in DOMAIN Held \cup {g} |-> IF t = g THEN rules ELSE Held[t]]
  BY <1>2 DEF Held, TypeOK
<1> QED BY <1>1, <1>2, <1>3 DEF Switch!Arm, Switch!LetIn, Switch!Holding, Reachable

\* A directory that goes is one that is not held any more.
LEMMA DirectoryGoes ==
  ASSUME NEW g \in Guards, kept' = kept \ {g}, snap' = snap
  PROVE  Held' = Switch!Dropped(g)
BY DEF Held, Switch!Dropped, Switch!Restrict, Switch!Holding

\* A cancel releases its switch, as far as it gets.
LEMMA CancelReleases ==
  ASSUME TypeOK, NEW g \in Guards, CancelOk(g) \/ CancelRaises(g)
  PROVE  Switch!Release(g) \/ UNCHANGED <<rules, Ticking, Held>>
<1>1. /\ rules' = rules /\ snap' = snap
      /\ \/ timer' = timer /\ kept' = kept
         \/ /\ Reachable
            /\ timer' = [timer EXCEPT ![g] = "stopped"] \/ (timer' = timer /\ timer[g] # "armed")
            /\ kept' = kept \/ kept' = kept \ {g}
  <2>1. CASE CancelOk(g)
    BY <2>1 DEF CancelOk
  <2>2. CASE UNCHANGED host
    BY <2>2 DEF host
  <2> QED BY <2>1, <2>2 DEF CancelRaises
<1>2. CASE timer' = timer /\ kept' = kept
  BY <1>1, <1>2, SameSwitch
<1>3. CASE /\ Reachable
           /\ timer' = [timer EXCEPT ![g] = "stopped"] \/ (timer' = timer /\ timer[g] # "armed")
           /\ kept' = kept \/ kept' = kept \ {g}
  <2>1. Ticking' = Ticking \ {g}
    BY <1>3 DEF Ticking, TypeOK
  <2>2. Held' \in {Held, Switch!Dropped(g)}
    BY <1>1, <1>3, DirectoryGoes DEF Held
  <2> QED BY <1>1, <1>3, <2>1, <2>2 DEF Switch!Release, Switch!LetIn, Reachable
<1> QED BY <1>1, <1>2, <1>3

\* The script undoes what was tried, run by somebody who is let in or by its timer.
LEMMA RestoringUndoes ==
  ASSUME TypeOK, NEW g \in Guards, RestoreScript(g), snap' = snap,
         \/ Reachable /\ timer' = timer
         \/ timer[g] = "armed" /\ timer' = [timer EXCEPT ![g] = "fired"]
  PROVE  Switch!Undo(g)
<1>1. \/ Reachable /\ Ticking' = Ticking
      \/ g \in Ticking /\ Ticking' = Ticking \ {g}
  BY DEF TypeOK, Ticking
<1>2. Held' = Switch!Dropped(g) /\ rules' = Held[g] /\ g \in DOMAIN Held
  BY DirectoryGoes DEF RestoreScript, Held
<1> QED BY <1>1, <1>2 DEF Switch!Undo, Switch!Holding, Switch!LetIn, Reachable

\* A command of g takes effect under the switch of g.
LEMMA CommandsAreTried ==
  ASSUME TypeOK, NEW g \in Guards, timer[g] = "armed", g \in kept,
         rules' = rules \cup {<<g, cmd[g]>>}, UNCHANGED <<timer, kept, snap>>
  PROVE  Switch!Try(g)
<1>1. <<g, cmd[g]>> \in Edits
  BY DEF TypeOK, Edits
<1>2. Held' = Held /\ Ticking' = Ticking /\ g \in Ticking /\ g \in DOMAIN Held
  BY DEF Held, Ticking
<1> QED BY <1>1, <1>2 DEF Switch!Try, Switch!Holding

\* Every step is one of the switch, or none.
LEMMA StepRefines ==
  ASSUME Sheltered, GuardInv, FreshInv, [Next]_allVars
  PROVE  Switch!Next \/ UNCHANGED <<rules, Ticking, Held>>
<1> DEFINE Goal == Switch!Next \/ UNCHANGED <<rules, Ticking, Held>>
<1>0. /\ TypeOK
      /\ \A g \in Guards : pc[g] = "arming" => Reachable /\ g \notin kept
      /\ \A g \in Guards : pc[g] \in {"running", "failing"} => timer[g] = "armed" /\ g \in kept
      /\ \A o \in Operators : sel[o] \in Guards
      /\ late = {} /\ "late" \notin env
  BY DEF GuardInv, FreshInv, TypeOK, RunsAreGuarded, Working, Sheltered, Without
<1>01. ASSUME UNCHANGED <<rules, timer, kept, snap>> PROVE Goal
  BY <1>01, SameSwitch
<1>02. ASSUME NEW g \in Guards, CancelOk(g) \/ CancelRaises(g) PROVE Goal
  BY <1>0, <1>02, CancelReleases DEF Switch!Next
<1>03. ASSUME NEW g \in Guards, RestoreOk(g) \/ RestoreRaises(g) PROVE  Goal
  <2>1. CASE RestoreOk(g)
    BY <1>0, <1>03, <2>1, RestoringUndoes DEF RestoreOk, Switch!Next
  <2> QED BY <1>01, <1>03, <2>1 DEF RestoreRaises, host
<1>1. ASSUME NEW g \in Guards, RunGuarded(g) PROVE Goal
  <2>1. CASE \/ Begin(g) \/ Refuse(g) \/ Record(g) \/ Connect(g) \/ RejectCommand(g)
             \/ Probe(g) \/ ResolveOwn(g)
    BY <1>01, <2>1 DEF Begin, Refuse, Record, Connect, RejectCommand, Probe, ResolveOwn, host
  <2>2. CASE Arm(g) \/ ArmRaises(g)
    BY <1>0, <2>2, ArmingArms DEF Arm, ArmRaises, ArmOnHost, Switch!Next
  <2>4. CASE RunCommand(g)
    BY <1>0, <2>4, CommandsAreTried DEF RunCommand, Switch!Next
  <2>5. CASE ApplyRaises(g)
    <3>1. CASE rules' = rules
      BY <1>01, <2>5, <3>1 DEF ApplyRaises
    <3>2. CASE rules' = rules \cup {<<g, cmd[g]>>}
      BY <1>0, <2>5, <3>2, CommandsAreTried DEF ApplyRaises, Switch!Next
    <3> QED BY <2>5, <3>1, <3>2 DEF ApplyRaises
  <2>6. CASE Disarm(g) \/ ConfirmOwn(g) \/ StopOwn(g)
    BY <1>02, <2>6 DEF Disarm, ConfirmOwn, StopOwn
  <2>7. CASE RestoreOwn(g)
    BY <1>0, <1>03, <2>7 DEF RestoreOwn
  <2> QED BY <1>1, <2>1, <2>2, <2>4, <2>5, <2>6, <2>7 DEF RunGuarded
<1>2. ASSUME NEW g \in Guards, WindowElapses(g) PROVE Goal
  BY <1>01, <1>2 DEF WindowElapses, host
<1>3. ASSUME NEW g \in Guards, TimerFires(g) PROVE Goal
  <2>1. CASE RestoreScript(g)
    BY <1>0, <1>3, <2>1, RestoringUndoes DEF TimerFires, Switch!Next
  <2>2. CASE g \notin kept /\ UNCHANGED <<rules, kept>>
    <3>1. g \in Ticking /\ Ticking' = Ticking \ {g}
      BY <1>0, <1>3 DEF TimerFires, Ticking, TypeOK
    <3>2. Held' = Held /\ g \notin DOMAIN Held
      BY <1>3, <2>2 DEF TimerFires, Held
    <3> QED BY <2>2, <3>1, <3>2 DEF Switch!Next, Switch!Lapse, Switch!Holding
  <2> QED BY <1>3, <2>1, <2>2 DEF TimerFires
<1>4. ASSUME NEW o \in Operators, Operate(o) PROVE Goal
  <2>1. ASSUME NEW g \in Guards, OpenGuard(o, g) PROVE Goal
    BY <1>01, <2>1 DEF OpenGuard, host
  <2>2. CASE OpConfirm(o) \/ OpStop(o)
    BY <1>0, <1>02, <2>2 DEF OpConfirm, OpStop
  <2>3. CASE OpRollback(o)
    BY <1>0, <1>03, <2>3 DEF OpRollback
  <2>4. CASE OpResolve(o)
    BY <1>01, <2>4 DEF OpResolve, host
  <2> QED BY <1>4, <2>1, <2>2, <2>3, <2>4 DEF Operate
<1>5. ASSUME NEW e \in Edits, LateEffect(e) PROVE Goal
  BY <1>0, <1>5 DEF LateEffect
<1>6. ASSUME NEW w \in Workers, Crash(w) \/ Restart(w) PROVE Goal
  BY <1>01, <1>6 DEF Crash, Restart, host
<1>7. CASE UNCHANGED allVars
  BY <1>01, <1>7 DEF allVars, vars, host
<1> QED
  BY <1>1, <1>2, <1>3, <1>4, <1>5, <1>6, <1>7 DEF Next, Step

\* In a sheltered environment run_guarded, confirm, rollback and the timers of the host
\* implement a dead man's switch, for any number of guards, operators and commands, any
\* set of admitting rulesets, and whatever fails half-way, is lost, or crashes.
THEOREM GuardImplementsSwitch == Spec => GuardIsSwitch
<1>1. Init => (Sheltered => Switch!Init)
  <2> SUFFICES ASSUME Init PROVE Switch!Init
    OBVIOUS
  <2>1. Ticking = {}
    BY DEF Init, Ticking
  <2>2. Held = [s \in {} |-> {}]
    BY DEF Init, Held
  <2> QED BY <2>1, <2>2 DEF Init, Switch!Init
<1>2. (Sheltered => GuardInv /\ FinalInv) /\ FreshInv /\ [Next]_allVars
      => [Sheltered => Switch!Next]_(Switch!vars)
  BY StepRefines DEF Switch!vars
<1> QED BY <1>1, <1>2, GuardInvariance, FreshInvariance, PTL DEF Spec, GuardIsSwitch

\* A behaviour of the guard that is sheltered is one of the switch.
COROLLARY ShelteredGuardIsSwitch == Spec /\ Sheltered => Switch!Spec
<1>1. Sheltered /\ [Next]_allVars => Sheltered'
  BY ShelteredKept
<1>2. Sheltered /\ [Sheltered => Switch!Next]_(Switch!vars) => [Switch!Next]_(Switch!vars)
  OBVIOUS
<1> QED BY <1>1, <1>2, GuardImplementsSwitch, PTL DEF Spec, GuardIsSwitch, Switch!Spec

\* What makes a dead man's switch safe is that it is one, and nothing else about the
\* guard: whatever is held leads back in, and somebody who is locked out has a switch that
\* ticks.
THEOREM SwitchLeadsBack == Switch!Spec => []Switch!WayBack
<1> USE DEF Switch!Holding, Switch!LetIn
<1>1. Switch!Init => Switch!WayBack
  BY AdmittingAssumption DEF Switch!Init, Switch!WayBack
<1>2. Switch!WayBack /\ [Switch!Next]_(Switch!vars) => Switch!WayBack'
  <2> SUFFICES ASSUME Switch!WayBack, [Switch!Next]_(Switch!vars) PROVE Switch!WayBack'
    OBVIOUS
  <2>1. ASSUME NEW s \in Guards, Switch!Arm(s) PROVE Switch!WayBack'
    BY <2>1 DEF Switch!Arm, Switch!WayBack
  <2>2. ASSUME NEW s \in Guards, Switch!Try(s) PROVE Switch!WayBack'
    BY <2>2 DEF Switch!Try, Switch!WayBack
  <2>3. ASSUME NEW s \in Guards, Switch!Release(s) PROVE Switch!WayBack'
    BY <2>3 DEF Switch!Release, Switch!Dropped, Switch!Restrict, Switch!WayBack
  <2>4. ASSUME NEW s \in Guards, Switch!Undo(s) PROVE Switch!WayBack'
    BY <2>4 DEF Switch!Undo, Switch!Dropped, Switch!Restrict, Switch!WayBack
  <2>5. ASSUME NEW s \in Guards, Switch!Lapse(s) PROVE Switch!WayBack'
    BY <2>5 DEF Switch!Lapse, Switch!WayBack
  <2>6. CASE UNCHANGED Switch!vars
    BY <2>6 DEF Switch!vars, Switch!WayBack
  <2> QED BY <2>1, <2>2, <2>3, <2>4, <2>5, <2>6 DEF Switch!Next
<1> QED BY <1>1, <1>2, PTL DEF Switch!Spec

================================================================================
