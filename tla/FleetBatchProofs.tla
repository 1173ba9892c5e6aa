--------------------------- MODULE FleetBatchProofs ---------------------------
(***************************************************************************)
(* For any number of runs, devices and workers: the variables of FleetBatch*)
(* keep their types, its runs are batches, only approved upgrades are      *)
(* installed, the page keeps the limit of one run, and the summary of a    *)
(* run is true.                                                            *)
(***************************************************************************)
EXTENDS FleetBatch, FiniteSetTheorems, TLAPS

\* A worker has an item exactly while it is in the function of the batch.
ItemWhileCalling == \A r \in Runs, w \in Workers :
    worker[r][w].item # 0 <=> worker[r][w].at \in Calling

\* Its item was taken from the list.
ItemTaken == \A r \in Runs, w \in Workers : worker[r][w].item < next[r]

\* No other worker of the run has the same.
ItemsDiffer == \A r \in Runs, v, w \in Workers :
    worker[r][w].item # 0 /\ worker[r][v].item = worker[r][w].item => v = w

PoolInv == TypeOK /\ ItemWhileCalling /\ ItemTaken /\ ItemsDiffer

\* A run that was not started has no devices, and workers have those of their run.
PlanInv == \A r \in Runs :
    /\ stage[r] = "idle" => plan[r] = {} /\ next[r] = 1
    /\ \A w \in Workers : worker[r][w].item # 0 => worker[r][w].item \in plan[r]

\* What a worker was told to be published still is, unless the device changed since.
AnswerHolds == \A r \in Runs, w \in Workers :
    worker[r][w].at \in {"checked", "triggering"}
      => worker[r][w].to = version[worker[r][w].item].to \/ <<r, worker[r][w].item>> \in raced

\* A worker upgrades to what was approved.
TriggersApproved == \A r \in Runs, w \in Workers :
    worker[r][w].at = "triggering" => worker[r][w].to = approved[r][worker[r][w].item].to

UpgradeInv == AnswerHolds /\ TriggersApproved /\ OnlyApprovedUpgrades

\* Workers have items while their run is going on.
OnlyRunsWork == \A r \in Runs, w \in Workers : worker[r][w].item # 0 => stage[r] = "running"

\* An operator who stays on the page and waits for the markers to go has one run of a
\* kind going on, and is not asked about an upgrade during one; the fleet page shows its
\* run until its timer has fired.
OneAtATime ==
    env \intersect {"quick", "leaves"} = {} =>
        /\ \A r \in Runs : stage[r] = "running" => r \in here
        /\ \A r, s \in Runs : stage[r] = "running" /\ stage[s] = "running"
                              /\ world.kind[r] = world.kind[s] => r = s
        /\ confirming => \A r \in Runs : Is(r, "upgrade") => stage[r] # "running"
        /\ \A r \in timer : stage[r] = "ended"
        /\ (\E q \in Runs : Is(q, "update")) =>
             \A r \in Runs : stage[r] = "running" \/ r \in timer => shown = r

\* The failures of a run.
Errors(r) == {d \in Devices : mark[r][d] = "error"}

\* The counter of a run agrees with its marks, and starts from none.
CountIsTrue(r) == failed[r] = Cardinality(Errors(r)) /\ (stage[r] = "idle" => failed[r] = 0)

\* A device that was taken has its outcome unless a worker is at it, and then it is
\* marked as running; a device that was not is queued.
MarksAreTrue(r) ==
    /\ \A d \in plan[r] : d < next[r] =>
         mark[r][d] \in Final \/ \E w \in Workers : worker[r][w].item = d
    /\ \A d \in plan[r] : d >= next[r] => mark[r][d] = "queued"
    /\ \A w \in Workers : worker[r][w].item # 0 => mark[r][worker[r][w].item] = "running"

\* A worker stops when nothing is left.
WorkersStopLast(r) ==
    /\ stage[r] = "running" => plan[r] # {}
    /\ \A w \in Workers :
         stage[r] = "running" /\ worker[r][w].at = "ended" /\ w <= Cardinality(plan[r])
           => Left(r) = {}
    /\ stage[r] = "ended" => Left(r) = {}

SummaryInv == \A r \in Runs : CountIsTrue(r) /\ MarksAreTrue(r) /\ WorkersStopLast(r)

--------------------------------------------------------------------------------

LEMMA PoolInit == Init => PoolInv
<1> SUFFICES ASSUME Init PROVE PoolInv
  OBVIOUS
<1>1. Looping \in WorkerType /\ Ended \in WorkerType /\ Ended.item = 0 /\ Ended.at \notin Calling
  BY SizeAssumption DEF WorkerType, Looping, Ended, Calling
<1>2. FirstVersion \in [Devices -> VersionType]
  BY SizeAssumption DEF FirstVersion, VersionType, Versions
<1>3. worker \in [Runs -> [Workers -> WorkerType]] /\ next \in [Runs -> 1 .. Size + 1]
  BY <1>1, SizeAssumption DEF Init
<1>4. TypeOK
  BY <1>2, <1>3, WorldsAssumption DEF Init, TypeOK
<1>5. \A r \in Runs, w \in Workers : worker[r][w] = Ended /\ next[r] = 1
  BY DEF Init
<1> QED BY <1>1, <1>4, <1>5 DEF PoolInv, ItemWhileCalling, ItemTaken, ItemsDiffer

\* The types of the variables that are not the pool's.
OtherTypes ==
    /\ world \in WorldType
    /\ stage \in [Runs -> {"idle", "running", "ended"}]
    /\ mark \in [Runs -> [Devices -> {"none", "queued", "running"} \union Final]]
    /\ failed \in [Runs -> Nat]
    /\ here \subseteq Runs /\ timer \subseteq Runs /\ shown \in Runs \union {0}
    /\ version \in [Devices -> VersionType]
    /\ list \in [Devices -> VersionType] /\ confirming \in BOOLEAN
    /\ ticked \in [Devices -> VersionType \union {Unticked}]
    /\ plan \in [Runs -> SUBSET Devices] /\ approved \in [Runs -> [Devices -> VersionType]]
    /\ raced \subseteq Runs \X Devices /\ surprises \subseteq Runs \X Devices

\* The pool with one worker changed.
LEMMA WorkerStep ==
  ASSUME PoolInv, OtherTypes', NEW r \in Runs, NEW w \in Workers, NEW rec \in WorkerType,
         worker' = [worker EXCEPT ![r][w] = rec],
         next' \in [Runs -> 1 .. Size + 1], \A s \in Runs : next[s] <= next'[s],
         rec.item # 0 <=> rec.at \in Calling, rec.item < next'[r],
         rec.item = 0 \/ rec.item = worker[r][w].item \/ rec.item >= next[r]
  PROVE  PoolInv'
<1> USE SizeAssumption DEF PoolInv
<1>1. /\ worker \in [Runs -> [Workers -> WorkerType]]
      /\ next \in [Runs -> 1 .. Size + 1]
  BY DEF TypeOK
<1>2. worker' \in [Runs -> [Workers -> WorkerType]]
  BY <1>1
<1>3. \A s \in Runs, v \in Workers :
         worker'[s][v] = IF s = r /\ v = w THEN rec ELSE worker[s][v]
  BY <1>1
<1>4. \A s \in Runs, v \in Workers : worker[s][v].item \in 0 .. Size
  BY <1>1 DEF WorkerType
<1>5. TypeOK'
  BY <1>2 DEF TypeOK, OtherTypes
<1>6. ItemWhileCalling'
  BY <1>3 DEF ItemWhileCalling
<1>7. ItemTaken'
  BY <1>1, <1>3, <1>4 DEF ItemTaken
<1>8. ItemsDiffer'
  <2> SUFFICES ASSUME NEW s \in Runs, NEW v \in Workers, NEW x \in Workers,
                      worker'[s][x].item # 0, worker'[s][v].item = worker'[s][x].item
               PROVE  v = x
    BY DEF ItemsDiffer
  <2>1. rec.item \in 0 .. Size
    BY DEF WorkerType
  <2>2. CASE s # r \/ (v # w /\ x # w)
    BY <1>3, <2>2 DEF ItemsDiffer
  <2>3. CASE s = r /\ x = w /\ v # w
    BY <1>1, <1>3, <1>4, <2>1, <2>3 DEF ItemsDiffer, ItemTaken
  <2>4. CASE s = r /\ v = w /\ x # w
    BY <1>1, <1>3, <1>4, <2>1, <2>4 DEF ItemsDiffer, ItemTaken
  <2> QED BY <2>2, <2>3, <2>4
<1> QED BY <1>5, <1>6, <1>7, <1>8

\* A step that leaves the pool alone.
LEMMA PoolKept == PoolInv /\ OtherTypes' /\ UNCHANGED pool => PoolInv'
BY DEF PoolInv, TypeOK, OtherTypes, ItemWhileCalling, ItemTaken, ItemsDiffer, pool

\* A worker in the function of the batch has a device, and a worker that is not
\* has none.
LEMMA ItemOfWorker ==
  ASSUME PoolInv, NEW r \in Runs, NEW w \in Workers
  PROVE  /\ worker[r][w] \in WorkerType
         /\ worker[r][w].at \in Calling => worker[r][w].item \in Devices
         /\ worker[r][w].at \notin Calling => worker[r][w].item = 0
         /\ worker[r][w].item < next[r] /\ next[r] \in 1 .. Size + 1
<1>1. worker[r][w] \in WorkerType /\ next[r] \in 1 .. Size + 1
  BY DEF PoolInv, TypeOK
<1>2. worker[r][w].item \in 0 .. Size
  BY <1>1 DEF WorkerType
<1> QED BY <1>1, <1>2, SizeAssumption DEF PoolInv, ItemWhileCalling, ItemTaken, Devices

\* The end of the function of the batch.
LEMMA SettleStep ==
  ASSUME PoolInv, NEW r \in Runs, NEW w \in Workers, worker[r][w].at \in Calling,
         NEW how \in Final, NEW failures \in {0, 1}, Settle(r, w, how, failures),
         UNCHANGED <<world, stage, next, here, timer, choice, order, raced>>,
         version' \in [Devices -> VersionType], surprises' \subseteq Runs \X Devices
  PROVE  PoolInv'
<1>1. worker[r][w].item \in Devices
  BY ItemOfWorker
<1>2. OtherTypes'
  <2>1. mark' \in [Runs -> [Devices -> {"none", "queued", "running"} \union Final]]
    BY <1>1 DEF Settle, PoolInv, TypeOK
  <2>2. failed' \in [Runs -> Nat]
    BY DEF Settle, PoolInv, TypeOK
  <2>3. shown' \in Runs \union {0}
    BY DEF Settle, Shows, PoolInv, TypeOK
  <2> QED BY <2>1, <2>2, <2>3 DEF OtherTypes, PoolInv, TypeOK, choice, order
<1>3. Looping \in WorkerType /\ Looping.item = 0 /\ Looping.at \notin Calling
  BY SizeAssumption DEF Looping, WorkerType, Calling
<1>4. next' \in [Runs -> 1 .. Size + 1] /\ \A s \in Runs : next[s] <= next'[s] /\ 0 < next'[s]
  BY SizeAssumption DEF PoolInv, TypeOK
<1> QED BY <1>2, <1>3, <1>4, WorkerStep DEF Settle

\* A worker that goes from one call to the next.
LEMMA AdvanceStep ==
  ASSUME PoolInv, NEW r \in Runs, NEW w \in Workers, worker[r][w].at \in Calling,
         NEW at \in Calling, worker' = [worker EXCEPT ![r][w].at = at],
         UNCHANGED <<world, stage, next, mark, failed, pageVars, version, choice, order, history>>
  PROVE  PoolInv'
<1> DEFINE rec == [worker[r][w] EXCEPT !.at = at]
<1>1. worker[r][w] \in WorkerType /\ worker[r][w].item \in Devices
  BY ItemOfWorker
<1>2. rec \in WorkerType /\ rec.item = worker[r][w].item /\ rec.at = at
  BY <1>1 DEF WorkerType
<1>3. worker' = [worker EXCEPT ![r][w] = rec]
  BY DEF PoolInv, TypeOK
<1>4. OtherTypes'
  BY DEF OtherTypes, PoolInv, TypeOK, pageVars, choice, order, history
<1>5. next' \in [Runs -> 1 .. Size + 1] /\ \A s \in Runs : next[s] <= next'[s]
  BY SizeAssumption DEF PoolInv, TypeOK
<1>6. rec.item # 0 /\ rec.item < next'[r]
  BY <1>1, <1>2, ItemOfWorker DEF Devices
<1> HIDE DEF rec
<1> QED BY <1>2, <1>3, <1>4, <1>5, <1>6, WorkerStep

\* One step per action.
LEMMA PoolStep == PoolInv /\ [Next]_allVars => PoolInv'
<1> SUFFICES ASSUME PoolInv, [Next]_allVars PROVE PoolInv'
  OBVIOUS
<1>0. OtherTypes
  BY DEF PoolInv, TypeOK, OtherTypes
<1>1. ASSUME NEW r \in Runs, Start(r) PROVE PoolInv'
  <2>1. OtherTypes'
    <3>1. Targets(r) \subseteq Devices
      BY DEF Targets, Effective
    <3>2. plan' \in [Runs -> SUBSET Devices] /\ approved' \in [Runs -> [Devices -> VersionType]]
      BY <1>0, <1>1, <3>1 DEF Start, OtherTypes
    <3>3. mark' \in [Runs -> [Devices -> {"none", "queued", "running"} \union Final]]
      BY <1>0, <1>1 DEF Start, OtherTypes
    <3>4. stage' \in [Runs -> {"idle", "running", "ended"}] /\ here' \subseteq Runs
          /\ shown' \in Runs \union {0} /\ confirming' \in BOOLEAN
      BY <1>0, <1>1 DEF Start, OtherTypes
    <3> QED BY <1>0, <1>1, <3>2, <3>3, <3>4 DEF Start, OtherTypes, history
  <2>2. worker' \in [Runs -> [Workers -> WorkerType]]
    <3>1. Looping \in WorkerType /\ Ended \in WorkerType
      BY SizeAssumption DEF Looping, Ended, WorkerType
    <3> QED BY <1>1, <3>1 DEF Start, PoolInv, TypeOK
  <2>3. \A s \in Runs, v \in Workers :
           \/ worker'[s][v] = worker[s][v]
           \/ worker'[s][v].item = 0 /\ worker'[s][v].at \notin Calling
    BY <1>1 DEF Start, PoolInv, TypeOK, Looping, Ended, Calling
  <2>4. next' = next /\ \A s \in Runs : next[s] \in 1 .. Size + 1
    BY <1>1 DEF Start, PoolInv, TypeOK
  <2>5. TypeOK'
    BY <2>1, <2>2, <1>1 DEF Start, PoolInv, TypeOK, OtherTypes
  <2> QED BY <2>3, <2>4, <2>5 DEF PoolInv, ItemWhileCalling, ItemTaken, ItemsDiffer
<1>a. Rereads => list' \in [Devices -> VersionType]
  BY <1>0 DEF Rereads, OtherTypes
<1>2. ASSUME NEW r \in Runs, TimerFires(r) PROVE PoolInv'
  BY <1>0, <1>2, PoolKept DEF TimerFires, OtherTypes, choice, order, history
<1>3. ASSUME NEW r \in Runs, Finish(r) PROVE PoolInv'
  <2>1. list' \in [Devices -> VersionType]
    BY <1>0, <1>3, <1>a DEF Finish, OtherTypes
  <2>2. ticked' \in [Devices -> VersionType \union {Unticked}]
    BY <1>0, <1>3 DEF Finish, OtherTypes
  <2> QED BY <1>0, <1>3, <2>1, <2>2, PoolKept DEF Finish, OtherTypes, order, history
<1>4. CASE Leave
  BY <1>0, <1>4, PoolKept DEF Leave, OtherTypes, order, history
<1>b. CASE Ask \/ Cancel
  BY <1>0, <1>b, PoolKept DEF Ask, Cancel, OtherTypes, pageVars, order, history
<1>c. CASE Refetch
  BY <1>0, <1>a, <1>c, PoolKept DEF Refetch, OtherTypes, pageVars, order, history
<1>d. ASSUME NEW d \in Devices, Toggle(d) PROVE PoolInv'
  <2>1. ticked' \in [Devices -> VersionType \union {Unticked}]
    BY <1>0, <1>d DEF Toggle, OtherTypes
  <2> QED BY <1>0, <1>d, <2>1, PoolKept DEF Toggle, OtherTypes, pageVars, order, history
<1>5. ASSUME NEW d \in Shared, Changes(d) PROVE PoolInv'
  <2>1. version' \in [Devices -> VersionType]
    <3>1. d \in Devices /\ version \in [Devices -> VersionType]
      BY <1>0, SharedAssumption DEF OtherTypes
    <3>2. version[d] \in [from : Versions, to : Versions]
      BY <3>1 DEF VersionType
    <3>3. CASE version' = [version EXCEPT ![d].from = version[d].to]
      BY <3>1, <3>2, <3>3 DEF VersionType
    <3>4. ASSUME NEW v \in Versions, version' = [version EXCEPT ![d].to = v]
          PROVE  version' \in [Devices -> VersionType]
      BY <3>1, <3>2, <3>4 DEF VersionType
    <3> QED BY <1>5, <3>3, <3>4 DEF Changes
  <2>2. raced' \subseteq Runs \X Devices
    BY <1>0, <1>5, SharedAssumption DEF Changes, OtherTypes
  <2> QED BY <1>0, <1>5, <2>1, <2>2, PoolKept DEF Changes, OtherTypes, pageVars, choice, order
<1>6. ASSUME NEW r \in Runs, NEW w \in Workers, Work(r, w) PROVE PoolInv'
  <2> USE DEF Calling, Final
  <2>1. CASE Take(r, w)
    <3>1. ASSUME NEW d \in Devices, IsNext(r, d),
                 worker' = [worker EXCEPT ![r][w] = [Looping EXCEPT !.at = FirstCall(r), !.item = d]],
                 next' = [next EXCEPT ![r] = d + 1],
                 mark' = [mark EXCEPT ![r][d] = "running"], Shows(r)
          PROVE  PoolInv'
      <4> DEFINE rec == [Looping EXCEPT !.at = FirstCall(r), !.item = d]
      <4>1. d >= next[r]
        BY <3>1 DEF IsNext, Left
      <4>2. rec \in WorkerType /\ rec.item = d /\ rec.at \in Calling
        <5>1. FirstCall(r) \in {"testing", "checking"}
          BY DEF FirstCall
        <5>2. Looping \in WorkerType
          BY SizeAssumption DEF Looping, WorkerType
        <5>3. d \in 0 .. Size
          BY SizeAssumption DEF Devices
        <5> QED BY <5>1, <5>2, <5>3 DEF WorkerType
      <4>3. OtherTypes'
        <5>1. mark' \in [Runs -> [Devices -> {"none", "queued", "running"} \union Final]]
          <6>1. mark \in [Runs -> [Devices -> {"none", "queued", "running"} \union Final]]
            BY <1>0 DEF OtherTypes
          <6> HIDE DEF rec
          <6> QED BY <3>1, <6>1
        <5>2. shown' \in Runs \union {0}
          BY <1>0, <3>1 DEF Shows, OtherTypes
        <5> QED BY <1>0, <2>1, <5>1, <5>2 DEF Take, OtherTypes, choice, order, history
      <4>4. worker' = [worker EXCEPT ![r][w] = rec]
        BY <3>1
      <4>5. next' \in [Runs -> 1 .. Size + 1] /\ \A s \in Runs : next[s] <= next'[s]
        BY <3>1, <4>1, SizeAssumption DEF PoolInv, TypeOK, Devices
      <4>6. rec.item # 0 /\ rec.item < next'[r] /\ rec.item >= next[r]
        BY <3>1, <4>1, <4>2 DEF PoolInv, TypeOK, Devices
      <4> HIDE DEF rec
      <4> QED BY <4>2, <4>3, <4>4, <4>5, <4>6, WorkerStep
    <3>2. CASE worker' = [worker EXCEPT ![r][w] = Ended] /\ UNCHANGED <<next, mark, shown>>
      <4>1. Ended \in WorkerType /\ Ended.item = 0 /\ Ended.at \notin Calling
        BY SizeAssumption DEF Ended, Looping, WorkerType
      <4>2. OtherTypes'
        BY <1>0, <2>1, <3>2 DEF Take, OtherTypes, choice, order, history
      <4>4. next' \in [Runs -> 1 .. Size + 1] /\ \A s \in Runs : next[s] <= next'[s] /\ 0 < next'[s]
        BY <3>2, SizeAssumption DEF PoolInv, TypeOK
      <4> QED BY <3>2, <4>1, <4>2, <4>4, WorkerStep
    <3> QED BY <2>1, <3>1, <3>2 DEF Take
  <2>2. version \in [Devices -> VersionType] /\ surprises \subseteq Runs \X Devices
    BY <1>0 DEF OtherTypes
  <2>3. CASE TestConnection(r, w)
    BY <2>2, <2>3, SettleStep, AdvanceStep DEF TestConnection, At, pageVars, history
  <2>4. CASE CheckFirmware(r, w)
    <3> DEFINE v == version[worker[r][w].item]
               rec == [worker[r][w] EXCEPT !.at = "checked", !.from = v.from, !.to = v.to]
    <3>1. worker[r][w] \in WorkerType /\ worker[r][w].item \in Devices
      BY <2>4, ItemOfWorker DEF CheckFirmware, At
    <3>2. v.from \in 0 .. MaxVersion /\ v.to \in 0 .. MaxVersion
      BY <2>2, <3>1, SizeAssumption DEF VersionType, Versions
    <3> HIDE DEF v
    <3>3. rec \in WorkerType /\ rec.item = worker[r][w].item /\ rec.at = "checked"
      BY <3>1, <3>2 DEF WorkerType
    <3>4. worker' = [worker EXCEPT ![r][w] = rec]
      BY <2>4 DEF CheckFirmware, PoolInv, TypeOK, v
    <3>5. OtherTypes'
      BY <1>0, <2>4 DEF CheckFirmware, OtherTypes, pageVars, choice, order, history
    <3>6. next' \in [Runs -> 1 .. Size + 1] /\ \A s \in Runs : next[s] <= next'[s]
      BY <2>4, SizeAssumption DEF CheckFirmware, PoolInv, TypeOK
    <3>7. rec.item # 0 /\ rec.item < next'[r]
      BY <2>4, <3>1, <3>3, ItemOfWorker DEF Devices, CheckFirmware
    <3> HIDE DEF rec
    <3> QED BY <3>3, <3>4, <3>5, <3>6, <3>7, WorkerStep
  <2>5. CASE CallRaises(r, w)
    BY <2>2, <2>5, SettleStep DEF CallRaises, history
  <2>6. CASE CheckAnswered(r, w)
    BY <2>2, <2>6, SettleStep, AdvanceStep DEF CheckAnswered, At, pageVars, history
  <2>7. CASE TriggerUpgrade(r, w)
    <3> DEFINE d == worker[r][w].item
    <3>1. worker[r][w].at \in Calling /\ d \in Devices
      BY <2>7, ItemOfWorker DEF TriggerUpgrade, At
    <3>2. version[d] \in VersionType
      BY <2>2, <3>1
    <3>3. version' \in [Devices -> VersionType] /\ surprises' \subseteq Runs \X Devices
      BY <2>2, <2>7, <3>1, <3>2 DEF TriggerUpgrade, VersionType
    <3> QED BY <2>7, <3>1, <3>3, SettleStep DEF TriggerUpgrade
  <2> QED BY <1>6, <2>1, <2>3, <2>4, <2>5, <2>6, <2>7 DEF Work
<1>7. CASE UNCHANGED allVars
  BY <1>0, <1>7, PoolKept DEF allVars, vars, OtherTypes, pageVars, choice, order, history
<1> QED BY <1>1, <1>2, <1>3, <1>4, <1>5, <1>6, <1>7, <1>b, <1>c, <1>d DEF Next

\* What every state of a behaviour satisfies: the pool hands out each item once.
THEOREM PoolInvariance == Spec => []PoolInv
BY PoolInit, PoolStep, PTL DEF Spec

\* Every variable of a batch keeps its type.
THEOREM TypesKept == Spec => []TypeOK
<1>1. PoolInv => TypeOK
  BY DEF PoolInv
<1> QED BY <1>1, PoolInvariance, PTL

--------------------------------------------------------------------------------
(* The refinement *)

\* A worker takes what is left of its run, and puts it down.
LEMMA PlanStep == PoolInv /\ PlanInv /\ [Next]_allVars => PlanInv'
<1> SUFFICES ASSUME PoolInv, PlanInv, [Next]_allVars PROVE PlanInv'
  OBVIOUS
<1>0. /\ stage \in [Runs -> {"idle", "running", "ended"}]
      /\ worker \in [Runs -> [Workers -> WorkerType]]
      /\ next \in [Runs -> 1 .. Size + 1] /\ plan \in [Runs -> SUBSET Devices]
  BY DEF PoolInv, TypeOK
<1>1. ASSUME NEW r \in Runs, Start(r) PROVE PlanInv'
  <2>1. Looping.item = 0 /\ Ended.item = 0
    BY DEF Looping, Ended
  <2>2. \A w \in Workers : worker'[r][w].item = 0
    BY <1>0, <1>1, <2>1 DEF Start
  <2>3. \A s \in Runs : s # r => stage'[s] = stage[s] /\ worker'[s] = worker[s] /\ plan'[s] = plan[s]
    BY <1>0, <1>1 DEF Start
  <2>4. stage'[r] = "running" /\ next' = next
    BY <1>0, <1>1 DEF Start
  <2> QED BY <2>2, <2>3, <2>4 DEF PlanInv
<1>2. ASSUME NEW r \in Runs, Finish(r) PROVE PlanInv'
  BY <1>0, <1>2 DEF Finish, pool, order, PlanInv
<1>3. CASE UNCHANGED <<stage, pool, order>>
  BY <1>3 DEF pool, order, PlanInv
<1>4. ASSUME NEW r \in Runs, NEW w \in Workers, Work(r, w) PROVE PlanInv'
  <2>1. stage[r] = "running" /\ stage' = stage /\ plan' = plan
    BY <1>4 DEF Work, Take, TestConnection, CheckFirmware, CallRaises, CheckAnswered,
                TriggerUpgrade, At, order
  <2>2. \A s \in Runs : s # r => worker'[s] = worker[s] /\ next'[s] = next[s]
    BY <1>0, <1>4 DEF Work, Take, TestConnection, CheckFirmware, CallRaises, CheckAnswered,
                      TriggerUpgrade, Settle
  <2>3. \A v \in Workers : worker'[r][v].item \in {0, worker[r][v].item} \union plan[r]
    <3>0. worker[r] \in [Workers -> WorkerType] /\ Looping.item = 0 /\ Ended.item = 0
      BY <1>0 DEF Looping, Ended
    <3>1. CASE Take(r, w)
      <4>1. ASSUME NEW d \in Devices, IsNext(r, d),
                   worker' = [worker EXCEPT ![r][w] = [Looping EXCEPT !.at = FirstCall(r), !.item = d]]
            PROVE  \A v \in Workers : worker'[r][v].item \in {0, worker[r][v].item} \union plan[r]
        <5>1. [Looping EXCEPT !.at = FirstCall(r), !.item = d].item = d
          BY Zenon DEF Looping
        <5>2. d \in plan[r]
          BY <4>1 DEF IsNext, Left
        <5> QED BY <1>0, <4>1, <5>1, <5>2
      <4>2. CASE worker' = [worker EXCEPT ![r][w] = Ended]
        BY <1>0, <3>0, <4>2
      <4> QED BY <3>1, <4>1, <4>2 DEF Take
    <3>2. CASE CheckFirmware(r, w)
      BY <1>0, <3>2 DEF CheckFirmware, WorkerType
    <3>3. CASE worker' = [worker EXCEPT ![r][w] = Looping]
      BY <1>0, <3>0, <3>3
    <3>4. ASSUME NEW at, worker' = [worker EXCEPT ![r][w].at = at]
          PROVE  \A v \in Workers : worker'[r][v].item \in {0, worker[r][v].item} \union plan[r]
      BY <1>0, <3>4 DEF WorkerType
    <3> QED BY <1>4, <3>1, <3>2, <3>3, <3>4
            DEF Work, TestConnection, CallRaises, CheckAnswered, TriggerUpgrade, Settle
  <2> QED BY <2>1, <2>2, <2>3 DEF PlanInv
<1> QED BY <1>1, <1>2, <1>3, <1>4
        DEF Next, TimerFires, Leave, Ask, Cancel, Refetch, Toggle, Changes, allVars, vars

\* A run has at most as many items as workers that have one.
LEMMA ItemsBounded ==
  ASSUME PoolInv, NEW r \in Runs, NEW W \in SUBSET Workers,
         \A v \in Workers : worker[r][v].item # 0 => v \in W
  PROVE  /\ IsFiniteSet(Batches!ItemsOf(r)) /\ Cardinality(Batches!ItemsOf(r)) \in Nat
         /\ Cardinality(Batches!ItemsOf(r)) <= Cardinality(W)
<1> DEFINE T == Batches!ItemsOf(r)
           S == {v \in Workers : worker[r][v].item # 0}
           f == [v \in S |-> <<r, worker[r][v].item>>]
<1>1. \A v \in Workers : worker[r][v].item \in 0 .. Size
  BY DEF PoolInv, TypeOK, WorkerType
<1>2. T = {p \in Runs \X Devices : p[1] = r /\ \E v \in Workers : worker[r][v].item = p[2]}
  BY DEF Batches!ItemsOf, Running
<1>3. f \in Surjection(S, T)
  <2>1. ASSUME NEW v \in S PROVE f[v] \in T
    BY <1>1, <1>2, SizeAssumption DEF Devices
  <2>2. ASSUME NEW p \in T PROVE \E v \in S : f[v] = p
    <3>1. PICK v \in Workers : worker[r][v].item = p[2]
      BY <1>2
    <3>2. p = <<r, p[2]>> /\ p[2] \in Devices
      BY <1>2
    <3>3. v \in S
      BY <3>1, <3>2, SizeAssumption DEF Devices
    <3> QED BY <3>1, <3>2, <3>3
  <2>3. f \in [S -> T]
    BY <2>1
  <2> HIDE DEF f, S, T
  <2> QED BY <2>2, <2>3 DEF Surjection
<1>4. IsFiniteSet(W)
  <2>1. IsFiniteSet(Workers)
    BY FS_Interval, SizeAssumption DEF Workers
  <2> QED BY <2>1, FS_Subset
<1>5. S \in SUBSET W
  OBVIOUS
<1>6. IsFiniteSet(S) /\ Cardinality(S) <= Cardinality(W)
  <2> HIDE DEF S
  <2> QED BY <1>4, <1>5, FS_Subset
<1>7. IsFiniteSet(T) /\ Cardinality(T) <= Cardinality(S)
  <2> HIDE DEF f, S, T
  <2> QED BY <1>3, <1>6, FS_Surjection
<1>8. Cardinality(T) \in Nat /\ Cardinality(S) \in Nat /\ Cardinality(W) \in Nat
  <2> HIDE DEF S, T
  <2> QED BY <1>4, <1>6, <1>7, FS_CardinalityType
<1> QED BY <1>6, <1>7, <1>8

\* A worker that has no item leaves room for one: the run has fewer than Limit.
LEMMA RoomForOne ==
  ASSUME PoolInv, NEW r \in Runs, NEW w \in Workers, worker[r][w].item = 0
  PROVE  Cardinality(Batches!ItemsOf(r)) < Limit
<1>1. IsFiniteSet(Workers) /\ Cardinality(Workers) = Limit
  BY FS_Interval, SizeAssumption DEF Workers
<1>2. Cardinality(Workers \ {w}) = Limit - 1
  BY <1>1, FS_RemoveElement
<1>3. /\ Cardinality(Batches!ItemsOf(r)) \in Nat
      /\ Cardinality(Batches!ItemsOf(r)) <= Cardinality(Workers \ {w})
  BY ItemsBounded
<1> QED BY <1>2, <1>3, SizeAssumption

\* A step that leaves the runs, their devices, the index and the items of the workers
\* alone is none of the abstract batch.
LEMMA BatchStutters ==
  ASSUME UNCHANGED <<next, plan>>, \A r \in Runs : stage'[r] = "idle" <=> stage[r] = "idle",
         \A r \in Runs, w \in Workers : worker'[r][w].item = worker[r][w].item
  PROVE  UNCHANGED Batches!vars
<1>1. Waiting' = Waiting
  BY DEF Waiting, Left
<1>2. Running' = Running
  BY DEF Running
<1>3. Finished' = Finished
  BY <1>2 DEF Finished
<1>4. Started' = Started
  BY DEF Started
<1> QED BY <1>1, <1>2, <1>3, <1>4 DEF Batches!vars

\* A click starts a run of the abstract batch.
LEMMA StartStarts ==
  ASSUME PoolInv, PlanInv, NEW r \in Runs, Start(r)
  PROVE  Batches!Next
<1>0. /\ stage \in [Runs -> {"idle", "running", "ended"}] /\ plan \in [Runs -> SUBSET Devices]
      /\ worker \in [Runs -> [Workers -> WorkerType]] /\ next \in [Runs -> 1 .. Size + 1]
  BY DEF PoolInv, TypeOK
<1>1. \A s \in Runs : /\ stage'[s] = IF s = r THEN "running" ELSE stage[s]
                      /\ plan'[s] = IF s = r THEN Targets(r) ELSE plan[s]
  BY <1>0 DEF Start
<1>2. stage[r] = "idle" /\ plan[r] = {} /\ next[r] = 1 /\ next' = next
  BY DEF Start, PlanInv
<1>3. \A s \in Runs, v \in Workers : worker'[s][v].item = worker[s][v].item
  <2>1. Looping.item = 0 /\ Ended.item = 0
    BY DEF Looping, Ended
  <2>2. \A v \in Workers : worker[r][v].item = 0
    BY <1>2 DEF PlanInv
  <2> QED BY <1>0, <2>1, <2>2 DEF Start
<1>4. Running' = Running
  BY <1>3 DEF Running
<1>5. Finished' = Finished
  <2>1. \A p \in Runs \X Devices :
          p[2] \in plan'[p[1]] /\ p[2] < next[p[1]] <=> p[2] \in plan[p[1]] /\ p[2] < next[p[1]]
    BY <1>1, <1>2 DEF Devices
  <2> QED BY <1>2, <1>4, <2>1 DEF Finished
<1>6. Started' = Started \union {r} /\ r \notin Started
  BY <1>1, <1>2 DEF Started
<1>7. Waiting \subseteq Waiting' /\ Waiting' \ Waiting \subseteq {r} \X Devices
  BY <1>1, <1>2 DEF Waiting, Left
<1>8. Batches!Start(r)
  BY <1>4, <1>5, <1>6, <1>7 DEF Batches!Start
<1> QED BY <1>8 DEF Batches!Next

\* The end of the function of the batch is the end of the item.
LEMMA SettleEnds ==
  ASSUME PoolInv, PlanInv, NEW r \in Runs, NEW w \in Workers, worker[r][w].at \in Calling,
         NEW how, NEW failures, Settle(r, w, how, failures), UNCHANGED <<stage, next, plan>>
  PROVE  Batches!Next
<1> DEFINE d == worker[r][w].item
<1>1. d \in Devices /\ d < next[r] /\ d # 0 /\ d \in plan[r]
  BY ItemOfWorker, SizeAssumption DEF Devices, PlanInv
<1>2. \A s \in Runs, v \in Workers :
         worker'[s][v].item = IF s = r /\ v = w THEN 0 ELSE worker[s][v].item
  BY DEF Settle, PoolInv, TypeOK, Looping
<1>3. Waiting' = Waiting /\ Started' = Started
  BY DEF Waiting, Left, Started
<1>4. Running' = Running \ {<<r, d>>}
  <2>1. ASSUME NEW s \in Runs, NEW i \in Devices
        PROVE  <<s, i>> \in Running' <=> <<s, i>> \in Running /\ <<s, i>> # <<r, d>>
    <3>1. <<s, i>> \in Running' <=> \E v \in Workers : worker'[s][v].item = i
      BY DEF Running
    <3>2. <<s, i>> \in Running <=> \E v \in Workers : worker[s][v].item = i
      BY DEF Running
    <3>3. i # 0
      BY DEF Devices
    <3>4. CASE s # r
      BY <1>2, <3>1, <3>2, <3>4
    <3>5. CASE s = r
      BY <1>1, <1>2, <3>1, <3>2, <3>3, <3>5 DEF PoolInv, ItemsDiffer
    <3> QED BY <3>4, <3>5
  <2> QED BY <2>1 DEF Running
<1>5. <<r, d>> \in Running
  BY <1>1 DEF Running
<1>6. Finished' = Finished \union {<<r, d>>}
  BY <1>1, <1>4, <1>5 DEF Finished
<1>7. Batches!End(<<r, d>>)
  BY <1>3, <1>4, <1>6 DEF Batches!End
<1> QED BY <1>5, <1>7 DEF Batches!Next

\* A worker that takes an item begins it.
LEMMA TakeBegins ==
  ASSUME PoolInv, NEW r \in Runs, NEW w \in Workers, Take(r, w)
  PROVE  Batches!Next \/ UNCHANGED Batches!vars
<1>0. UNCHANGED <<stage, plan>>
  BY DEF Take, order
<1>1. worker[r][w].item = 0
  BY ItemOfWorker DEF Take, Calling
<1>2. ASSUME NEW d \in Devices, IsNext(r, d),
             worker' = [worker EXCEPT ![r][w] = [Looping EXCEPT !.at = FirstCall(r), !.item = d]],
             next' = [next EXCEPT ![r] = d + 1]
      PROVE  Batches!Next
  <2>1. d # 0 /\ d \in Nat /\ d \in plan[r] /\ d >= next[r] /\ \A e \in Left(r) : d <= e
    BY <1>2 DEF Devices, IsNext, Left
  <2>2. \A s \in Runs, v \in Workers :
           worker'[s][v].item = IF s = r /\ v = w THEN d ELSE worker[s][v].item
    <3> DEFINE rec == [Looping EXCEPT !.at = FirstCall(r), !.item = d]
    <3>1. rec.item = d
      BY Zenon DEF Looping
    <3>2. worker' = [worker EXCEPT ![r][w] = rec]
      BY <1>2
    <3> HIDE DEF rec
    <3> QED BY <3>1, <3>2 DEF PoolInv, TypeOK
  <2>3. \A s \in Runs : next'[s] = (IF s = r THEN d + 1 ELSE next[s]) /\ next[s] \in 1 .. Size + 1
    BY <1>2 DEF PoolInv, TypeOK
  <2>a. \A i \in Devices : i \in plan[r] => (i >= d + 1 <=> i >= next[r] /\ i # d)
    BY <2>1, <2>3 DEF Left, Devices
  <2>4. Waiting' = Waiting \ {<<r, d>>}
    <3>1. ASSUME NEW s \in Runs, NEW i \in Devices
          PROVE  <<s, i>> \in Waiting' <=> <<s, i>> \in Waiting /\ <<s, i>> # <<r, d>>
      <4>1. <<s, i>> \in Waiting' <=> i \in plan[s] /\ i >= next'[s]
        BY <1>0 DEF Waiting, Left
      <4>2. <<s, i>> \in Waiting <=> i \in plan[s] /\ i >= next[s]
        BY DEF Waiting, Left
      <4> QED BY <2>3, <2>a, <4>1, <4>2
    <3> QED BY <3>1 DEF Waiting
  <2>5. Running' = Running \union {<<r, d>>}
    <3>1. ASSUME NEW s \in Runs, NEW i \in Devices
          PROVE  <<s, i>> \in Running' <=> <<s, i>> \in Running \/ <<s, i>> = <<r, d>>
      <4>1. <<s, i>> \in Running' <=> \E v \in Workers : worker'[s][v].item = i
        BY DEF Running
      <4>2. <<s, i>> \in Running <=> \E v \in Workers : worker[s][v].item = i
        BY DEF Running
      <4>3. i # 0
        BY DEF Devices
      <4> QED BY <1>1, <2>2, <4>1, <4>2, <4>3
    <3> QED BY <3>1 DEF Running
  <2>6. <<r, d>> \in Waiting
    BY <2>1 DEF Waiting, Left
  <2>7. Finished' = Finished
    <3>1. ASSUME NEW s \in Runs, NEW i \in Devices
          PROVE  <<s, i>> \in Finished' <=> <<s, i>> \in Finished
      <4>1. <<s, i>> \in Finished' <=> i \in plan[s] /\ i < next'[s] /\ <<s, i>> \notin Running'
        BY <1>0 DEF Finished
      <4>2. <<s, i>> \in Finished <=> i \in plan[s] /\ i < next[s] /\ <<s, i>> \notin Running
        BY DEF Finished
      <4>3. i \in Nat
        BY DEF Devices
      <4> QED BY <2>1, <2>3, <2>a, <2>5, <4>1, <4>2, <4>3
    <3> QED BY <3>1 DEF Finished
  <2>8. Batches!Begin(<<r, d>>)
    <3>1. Batches!Cardinality(Batches!ItemsOf(r)) < Limit
      BY <1>1, RoomForOne DEF Batches!Cardinality, Cardinality
    <3>2. Started' = Started
      BY <1>0 DEF Started
    <3> QED BY <2>4, <2>5, <2>7, <3>1, <3>2 DEF Batches!Begin
  <2> QED BY <2>6, <2>8 DEF Batches!Next
<1>3. CASE worker' = [worker EXCEPT ![r][w] = Ended] /\ UNCHANGED next
  <2>1. \A s \in Runs, v \in Workers : worker'[s][v].item = worker[s][v].item
    <3>1. Ended.item = 0
      BY DEF Ended, Looping
    <3> QED BY <1>1, <1>3, <3>1 DEF PoolInv, TypeOK
  <2> QED BY <1>0, <1>3, <2>1, BatchStutters
<1> QED BY <1>2, <1>3 DEF Take

\* Every step of FleetBatch is a step of the abstract batch or none.
LEMMA BatchStep == PoolInv /\ PlanInv /\ [Next]_allVars => [Batches!Next]_(Batches!vars)
<1> SUFFICES ASSUME PoolInv, PlanInv, [Next]_allVars PROVE Batches!Next \/ UNCHANGED Batches!vars
  OBVIOUS
<1> USE DEF Calling
<1>1. ASSUME NEW r \in Runs, Start(r) PROVE Batches!Next
  BY <1>1, StartStarts
<1>2. CASE UNCHANGED <<stage, pool, order>>
  BY <1>2, BatchStutters DEF pool, order
<1>3. ASSUME NEW r \in Runs, NEW w \in Workers, Work(r, w)
      PROVE  Batches!Next \/ UNCHANGED Batches!vars
  <2>1. CASE Take(r, w)
    BY <2>1, TakeBegins
  <2>2. ASSUME NEW how, NEW failures, Settle(r, w, how, failures), UNCHANGED <<stage, next, order>>,
               worker[r][w].at \in Calling
        PROVE  Batches!Next
    BY <2>2, SettleEnds DEF order
  <2>3. ASSUME NEW at, worker' = [worker EXCEPT ![r][w].at = at], UNCHANGED <<stage, next, order>>
        PROVE  UNCHANGED Batches!vars
    <3>1. \A s \in Runs, v \in Workers : worker'[s][v].item = worker[s][v].item
      BY <2>3 DEF PoolInv, TypeOK, WorkerType
    <3> QED BY <2>3, <3>1, BatchStutters DEF order
  <2>4. CASE TestConnection(r, w)
    BY <2>2, <2>3, <2>4 DEF TestConnection, At
  <2>5. CASE CheckFirmware(r, w)
    <3> DEFINE u == version[worker[r][w].item]
    <3>0. worker \in [Runs -> [Workers -> WorkerType]]
      BY DEF PoolInv, TypeOK
    <3>2. worker' = [worker EXCEPT ![r][w].at = "checked", ![r][w].from = u.from, ![r][w].to = u.to]
      BY <2>5 DEF CheckFirmware
    <3> HIDE DEF u
    <3>1. \A s \in Runs, v \in Workers : worker'[s][v].item = worker[s][v].item
      BY <1>3, <3>0, <3>2 DEF WorkerType
    <3> QED BY <2>5, <3>1, BatchStutters DEF CheckFirmware, order
  <2>6. CASE CallRaises(r, w)
    BY <2>2, <2>6 DEF CallRaises
  <2>7. CASE CheckAnswered(r, w)
    BY <2>2, <2>3, <2>7 DEF CheckAnswered, At
  <2>8. CASE TriggerUpgrade(r, w)
    BY <2>2, <2>8 DEF TriggerUpgrade, At
  <2> QED BY <1>3, <2>1, <2>4, <2>5, <2>6, <2>7, <2>8 DEF Work
<1>4. ASSUME NEW r \in Runs, Finish(r) PROVE UNCHANGED Batches!vars
  <2>1. \A s \in Runs : stage'[s] = "idle" <=> stage[s] = "idle"
    BY <1>4 DEF Finish, PoolInv, TypeOK
  <2> QED BY <1>4, <2>1, BatchStutters DEF Finish, pool, order
<1> QED BY <1>1, <1>2, <1>3, <1>4
        DEF Next, TimerFires, Leave, Ask, Cancel, Refetch, Toggle, Changes, allVars, vars

\* Whatever the calls answer and whatever the operator does, a run works on every
\* device it was started for once, and on at most Limit at a time (runPool):
\* FleetBatch implements Batch.
THEOREM PoolIsBatch == Spec => RunsAreBatches
<1>1. Init => PlanInv /\ Batches!Init
  <2> SUFFICES ASSUME Init PROVE PlanInv /\ Batches!Init
    OBVIOUS
  <2>1. \A r \in Runs, w \in Workers : worker[r][w].item = 0
    BY DEF Init, Ended, Looping
  <2>2. Running = {}
    BY <2>1 DEF Running, Devices
  <2>3. Waiting = {} /\ Started = {}
    BY DEF Init, Waiting, Left, Started
  <2>4. Finished = {}
    BY DEF Finished, Init
  <2> QED BY <2>1, <2>2, <2>3, <2>4 DEF PlanInv, Batches!Init, Init
<1>2. Spec => []PlanInv
  BY <1>1, PlanStep, PoolInvariance, PTL DEF Spec
<1> QED BY <1>1, <1>2, BatchStep, PoolInvariance, PTL DEF Spec, RunsAreBatches, Batches!Spec

--------------------------------------------------------------------------------
(* What is upgraded *)

\* A step of one worker keeps what the workers know, if that worker does.
LEMMA KnowsStep ==
  ASSUME PoolInv, UpgradeInv, NEW r \in Runs, NEW w \in Workers, NEW rec \in WorkerType,
         worker' = [worker EXCEPT ![r][w] = rec], UNCHANGED <<approved, raced>>,
         \A d \in Devices : version'[d].to = version[d].to,
         rec.at \in {"checked", "triggering"} => rec.item \in Devices,
         rec.at \in {"checked", "triggering"}
           => rec.to = version[rec.item].to \/ <<r, rec.item>> \in raced,
         rec.at = "triggering" => rec.to = approved[r][rec.item].to
  PROVE  AnswerHolds' /\ TriggersApproved'
<1>1. \A s \in Runs, v \in Workers :
         worker'[s][v] = IF s = r /\ v = w THEN rec ELSE worker[s][v]
  BY DEF PoolInv, TypeOK
<1>2. \A s \in Runs, v \in Workers :
         worker[s][v].at \in {"checked", "triggering"} => worker[s][v].item \in Devices
  BY ItemOfWorker DEF Calling
<1>3. AnswerHolds'
  BY <1>1, <1>2 DEF UpgradeInv, AnswerHolds
<1>4. TriggersApproved'
  BY <1>1 DEF UpgradeInv, TriggersApproved
<1> QED BY <1>3, <1>4

\* Nothing but an approved upgrade is triggered, unless the device changed in time.
LEMMA UpgradeStep == PoolInv /\ UpgradeInv /\ [Next]_allVars => UpgradeInv'
<1> SUFFICES ASSUME PoolInv, UpgradeInv, [Next]_allVars PROVE UpgradeInv'
  OBVIOUS
<1>0. /\ worker \in [Runs -> [Workers -> WorkerType]]
      /\ version \in [Devices -> [from : Versions, to : Versions]]
      /\ approved \in [Runs -> [Devices -> VersionType]]
  BY DEF PoolInv, TypeOK, VersionType
<1>1. ASSUME NEW r \in Runs, Start(r) PROVE UpgradeInv'
  <2>1. Looping.at = "looping" /\ Ended.at = "ended"
    BY DEF Looping, Ended
  <2>2. \A s \in Runs, v \in Workers :
           IF s = r THEN worker'[s][v].at \notin {"checked", "triggering"}
           ELSE worker'[s][v] = worker[s][v] /\ approved'[s] = approved[s]
    BY <1>0, <1>1, <2>1 DEF Start
  <2> QED BY <1>1, <2>2
          DEF Start, UpgradeInv, AnswerHolds, TriggersApproved, OnlyApprovedUpgrades, history
<1>2. CASE UNCHANGED <<worker, version, approved, raced, surprises>>
  BY <1>2 DEF UpgradeInv, AnswerHolds, TriggersApproved, OnlyApprovedUpgrades
<1>3. ASSUME NEW d \in Shared, Changes(d) PROVE UpgradeInv'
  <2>1. \A e \in Devices : e # d => version'[e] = version[e]
    BY <1>0, <1>3 DEF Changes
  <2>2. ASSUME NEW s \in Runs, NEW v \in Workers, worker[s][v].at \in {"checked", "triggering"}
        PROVE  \/ version'[worker[s][v].item] = version[worker[s][v].item]
               \/ <<s, worker[s][v].item>> \in raced'
    <3>1. worker[s][v].item \in Devices
      BY <2>2, ItemOfWorker DEF Calling
    <3>2. CASE worker[s][v].item = d
      BY <1>3, <2>2, <3>2 DEF Changes
    <3> QED BY <2>1, <3>1, <3>2
  <2>3. UNCHANGED <<worker, approved, surprises>> /\ raced \subseteq raced'
    BY <1>3 DEF Changes, pool, order
  <2> QED BY <2>2, <2>3
          DEF UpgradeInv, AnswerHolds, TriggersApproved, OnlyApprovedUpgrades
<1>4. ASSUME NEW r \in Runs, NEW w \in Workers, Work(r, w) PROVE UpgradeInv'
  <2> DEFINE me == worker[r][w]
  <2>1. me \in WorkerType
    BY <1>0
  <2>2. Looping \in WorkerType /\ Looping.at = "looping" /\ Ended \in WorkerType /\ Ended.at = "ended"
    BY SizeAssumption DEF Looping, Ended, WorkerType
  <2>3. me.at \in Calling => me.item \in Devices
    BY ItemOfWorker
  <2>4. UNCHANGED <<approved, raced>>
    BY <1>4 DEF Work, Take, TestConnection, CheckFirmware, CallRaises, CheckAnswered,
                TriggerUpgrade, order, history
  <2>5. ASSUME NEW how, NEW failures, Settle(r, w, how, failures),
               \A d \in Devices : version'[d].to = version[d].to
        PROVE  AnswerHolds' /\ TriggersApproved'
    BY <2>2, <2>4, <2>5, KnowsStep DEF Settle
  <2>6. CASE Take(r, w)
    <3>1. ASSUME NEW d \in Devices,
                 worker' = [worker EXCEPT ![r][w] = [Looping EXCEPT !.at = FirstCall(r), !.item = d]]
          PROVE  AnswerHolds' /\ TriggersApproved'
      <4> DEFINE rec == [Looping EXCEPT !.at = FirstCall(r), !.item = d]
      <4>1. d \in 0 .. Size
        BY SizeAssumption DEF Devices
      <4>2. rec \in WorkerType /\ rec.at \in {"testing", "checking"}
        BY <2>2, <4>1 DEF WorkerType, FirstCall, Calling
      <4>3. worker' = [worker EXCEPT ![r][w] = rec] /\ UNCHANGED version
        BY <2>6, <3>1 DEF Take
      <4> HIDE DEF rec
      <4> QED BY <2>4, <4>2, <4>3, KnowsStep
    <3>2. ASSUME worker' = [worker EXCEPT ![r][w] = Ended] PROVE AnswerHolds' /\ TriggersApproved'
      <4>1. UNCHANGED version
        BY <2>6 DEF Take
      <4> QED BY <2>2, <2>4, <3>2, <4>1, KnowsStep
    <3>3. surprises' = surprises
      BY <2>6 DEF Take, history
    <3> QED BY <2>4, <2>6, <3>1, <3>2, <3>3 DEF Take, UpgradeInv, OnlyApprovedUpgrades
  <2>7. ASSUME NEW at \in Calling, me.at \in Calling, worker' = [worker EXCEPT ![r][w].at = at],
               at # "checked", UNCHANGED version,
               at = "triggering" => me.at = "checked" /\ StillApproved(r, w)
        PROVE  AnswerHolds' /\ TriggersApproved'
    <3> DEFINE rec == [me EXCEPT !.at = at]
    <3>1. rec \in WorkerType /\ rec.at = at /\ rec.item = me.item /\ rec.to = me.to
      BY <2>1, <2>7 DEF WorkerType
    <3>2. worker' = [worker EXCEPT ![r][w] = rec]
      BY <1>0, <2>7
    <3>3. at = "triggering" => me.to = approved[r][me.item].to
      BY <2>7 DEF StillApproved
    <3>4. me.at = "checked" => me.to = version[me.item].to \/ <<r, me.item>> \in raced
      BY DEF UpgradeInv, AnswerHolds
    <3>5. \A d \in Devices : version'[d].to = version[d].to
      BY <2>7
    <3>6. /\ rec.item \in Devices
          /\ rec.at \in {"checked", "triggering"}
               => rec.to = version[rec.item].to \/ <<r, rec.item>> \in raced
          /\ rec.at = "triggering" => rec.to = approved[r][rec.item].to
      BY <2>3, <2>7, <3>1, <3>3, <3>4
    <3>7. rec \in WorkerType
      BY <3>1
    <3> HIDE DEF rec
    <3> QED BY <2>4, <3>2, <3>5, <3>6, <3>7, KnowsStep
  <2>8. CASE TestConnection(r, w)
    <3>1. UNCHANGED <<version, surprises>> /\ me.at \in Calling
      BY <2>8 DEF TestConnection, At, Calling, history
    <3>2. AnswerHolds' /\ TriggersApproved'
      BY <2>5, <2>7, <2>8, <3>1 DEF TestConnection, Calling
    <3> QED BY <2>4, <3>1, <3>2 DEF UpgradeInv, OnlyApprovedUpgrades
  <2>9. CASE CheckFirmware(r, w)
    <3> DEFINE v == version[me.item]
               rec == [me EXCEPT !.at = "checked", !.from = v.from, !.to = v.to]
    <3>1. me.item \in Devices /\ UNCHANGED <<version, surprises>>
      BY <2>3, <2>9 DEF CheckFirmware, At, Calling, history
    <3>2. v.from \in 0 .. MaxVersion /\ v.to \in 0 .. MaxVersion
      BY <1>0, <3>1, SizeAssumption DEF Versions
    <3>3. worker' = [worker EXCEPT ![r][w] = rec]
      BY <1>0, <2>9 DEF CheckFirmware
    <3> HIDE DEF v
    <3>4. rec \in WorkerType /\ rec.at = "checked" /\ rec.item = me.item /\ rec.to = v.to
      BY <2>1, <3>2 DEF WorkerType, Calling
    <3> HIDE DEF rec
    <3>5. AnswerHolds' /\ TriggersApproved'
      BY <2>4, <3>1, <3>3, <3>4, KnowsStep DEF v
    <3> QED BY <2>4, <3>1, <3>5 DEF UpgradeInv, OnlyApprovedUpgrades
  <2>10. CASE CallRaises(r, w)
    BY <2>4, <2>5, <2>10 DEF CallRaises, UpgradeInv, OnlyApprovedUpgrades, history
  <2>11. CASE CheckAnswered(r, w)
    <3>1. UNCHANGED <<version, surprises>> /\ me.at = "checked"
      BY <2>11 DEF CheckAnswered, At, history
    <3>2. AnswerHolds' /\ TriggersApproved'
      BY <2>5, <2>7, <2>11, <3>1 DEF CheckAnswered, Calling
    <3> QED BY <2>4, <3>1, <3>2 DEF UpgradeInv, OnlyApprovedUpgrades
  <2>12. CASE TriggerUpgrade(r, w)
    <3>1. me.at = "triggering" /\ me.item \in Devices
      BY <2>3, <2>12 DEF TriggerUpgrade, At, Calling
    <3>2. \A d \in Devices : version'[d].to = version[d].to
      BY <1>0, <2>12, <3>1 DEF TriggerUpgrade
    <3>3. version[me.item].to = approved[r][me.item].to \/ <<r, me.item>> \in raced
      BY <3>1 DEF UpgradeInv, AnswerHolds, TriggersApproved
    <3>4. OnlyApprovedUpgrades'
      BY <2>4, <2>12, <3>3 DEF TriggerUpgrade, UpgradeInv, OnlyApprovedUpgrades
    <3> QED BY <2>5, <2>12, <3>2, <3>4 DEF TriggerUpgrade, UpgradeInv
  <2> QED BY <1>4, <2>6, <2>8, <2>9, <2>10, <2>11, <2>12 DEF Work
<1> QED BY <1>1, <1>2, <1>3, <1>4
        DEF Next, TimerFires, Finish, Leave, Ask, Cancel, Refetch, Toggle, allVars, vars, pool, order,
            history

\* No device gets a version that was not in the list when the upgrade was confirmed,
\* unless it changed between its check and its upgrade (upgradeSelected).
THEOREM UpgradesApproved == Spec => []OnlyApprovedUpgrades
<1>1. Init => UpgradeInv
  BY DEF Init, UpgradeInv, AnswerHolds, TriggersApproved, OnlyApprovedUpgrades, Ended, Looping
<1>2. UpgradeInv => OnlyApprovedUpgrades
  BY DEF UpgradeInv
<1> QED BY <1>1, <1>2, UpgradeStep, PoolInvariance, PTL DEF Spec

--------------------------------------------------------------------------------
(* The limit of the page *)

\* What a step of a worker leaves alone.
LEMMA WorkFrame ==
  ASSUME PoolInv, NEW r \in Runs, NEW w \in Workers, Work(r, w)
  PROVE  /\ stage[r] = "running" /\ UNCHANGED <<world, stage, here, timer, choice, order>>
         /\ \A s \in Runs : s # r => worker'[s] = worker[s]
         /\ \A s \in Runs, v \in Workers : <<s, v>> # <<r, w>> => worker'[s][v] = worker[s][v]
         /\ shown' = shown \/ (r \in here /\ shown' = r)
<1>0. worker \in [Runs -> [Workers -> WorkerType]]
  BY DEF PoolInv, TypeOK
<1>1. stage[r] = "running" /\ UNCHANGED <<world, stage, here, timer, choice, order>>
  BY DEF Work, Take, TestConnection, CheckFirmware, CallRaises, CheckAnswered, TriggerUpgrade, At,
         pageVars
<1> DEFINE Others == /\ \A s \in Runs : s # r => worker'[s] = worker[s]
                     /\ \A v \in Workers : v # w => worker'[r][v] = worker[r][v]
<1>a. ASSUME NEW x, worker' = [worker EXCEPT ![r][w] = x] PROVE Others
  BY <1>0, <1>a
<1>b. Others
  <2>1. CASE Take(r, w)
    BY <1>a, <2>1 DEF Take
  <2>2. CASE TestConnection(r, w)
    <3>1. CASE worker' = [worker EXCEPT ![r][w].at = "checking"]
      BY <1>0, <3>1
    <3>2. CASE worker' = [worker EXCEPT ![r][w] = Looping]
      BY <1>a, <3>2
    <3> QED BY <2>2, <3>1, <3>2 DEF TestConnection, Settle
  <2>3. CASE CheckFirmware(r, w)
    BY <1>0, <2>3 DEF CheckFirmware
  <2>4. CASE CallRaises(r, w)
    BY <1>a, <2>4 DEF CallRaises, Settle
  <2>5. CASE CheckAnswered(r, w)
    <3>1. CASE worker' = [worker EXCEPT ![r][w].at = "triggering"]
      BY <1>0, <3>1
    <3>2. CASE worker' = [worker EXCEPT ![r][w] = Looping]
      BY <1>a, <3>2
    <3> QED BY <2>5, <3>1, <3>2 DEF CheckAnswered, Settle
  <2>6. CASE TriggerUpgrade(r, w)
    BY <1>a, <2>6 DEF TriggerUpgrade, Settle
  <2> QED BY <2>1, <2>2, <2>3, <2>4, <2>5, <2>6 DEF Work
<1>2. \A s \in Runs : s # r => worker'[s] = worker[s]
  BY <1>b
<1>3. \A v \in Workers : v # w => worker'[r][v] = worker[r][v]
  BY <1>b
<1>4. shown' = shown \/ (r \in here /\ shown' = r)
  BY DEF Work, Take, TestConnection, CheckFirmware, CallRaises, CheckAnswered, TriggerUpgrade,
         Settle, Shows, pageVars
<1> QED BY <1>1, <1>2, <1>3, <1>4

\* The workers of a run that ends have put down their items.
LEMMA OnlyRunsStep == PoolInv /\ OnlyRunsWork /\ [Next]_allVars => OnlyRunsWork'
<1> SUFFICES ASSUME PoolInv, OnlyRunsWork, [Next]_allVars PROVE OnlyRunsWork'
  OBVIOUS
<1>0. /\ stage \in [Runs -> {"idle", "running", "ended"}]
      /\ worker \in [Runs -> [Workers -> WorkerType]]
  BY DEF PoolInv, TypeOK
<1>1. ASSUME NEW r \in Runs, Start(r) PROVE OnlyRunsWork'
  <2>1. \A s \in Runs : stage'[s] = IF s = r THEN "running" ELSE stage[s]
    BY <1>0, <1>1 DEF Start
  <2>2. \A s \in Runs : s # r => worker'[s] = worker[s]
    BY <1>0, <1>1 DEF Start
  <2> QED BY <2>1, <2>2 DEF OnlyRunsWork
<1>2. ASSUME NEW r \in Runs, Finish(r) PROVE OnlyRunsWork'
  <2>1. \A v \in Workers : worker[r][v].item = 0
    BY <1>2, ItemOfWorker DEF Finish, Calling
  <2>2. \A s \in Runs : s # r => stage'[s] = stage[s]
    BY <1>0, <1>2 DEF Finish
  <2> QED BY <1>2, <2>1, <2>2 DEF Finish, pool, OnlyRunsWork
<1>3. ASSUME NEW r \in Runs, NEW w \in Workers, Work(r, w) PROVE OnlyRunsWork'
  BY <1>3, WorkFrame DEF OnlyRunsWork
<1>4. CASE UNCHANGED <<stage, pool>>
  BY <1>4 DEF pool, OnlyRunsWork
<1> QED BY <1>1, <1>2, <1>3, <1>4
        DEF Next, TimerFires, Leave, Ask, Cancel, Refetch, Toggle, Changes, allVars, vars

\* The buttons keep an operator who waits for the markers to go from a second run of a
\* kind: "Yes" is not there during an upgrade, and a run of the fleet page is shown
\* until its timer has fired.
LEMMA OneAtATimeStep == PoolInv /\ OneAtATime /\ [Next]_allVars => OneAtATime'
<1> SUFFICES ASSUME PoolInv, OneAtATime, [Next]_allVars,
                    (env \intersect {"quick", "leaves"} = {})'
             PROVE  OneAtATime'
  BY DEF OneAtATime
<1>0. /\ stage \in [Runs -> {"idle", "running", "ended"}]
      /\ here \subseteq Runs /\ timer \subseteq Runs /\ shown \in Runs \union {0}
      /\ 0 \notin Runs
  BY RunsAssumption DEF PoolInv, TypeOK
<1>a. world' = world
  BY WorkFrame DEF Next, Start, TimerFires, Finish, Leave, Ask, Cancel, Refetch, Toggle, Changes,
                   allVars
<1>b. "quick" \notin env /\ "leaves" \notin env
  BY <1>a DEF env
<1> DEFINE OnFleetPage == \E q \in Runs : Is(q, "update")
<1>c. /\ \A r \in Runs : stage[r] = "running" => r \in here
      /\ \A r, s \in Runs : stage[r] = "running" /\ stage[s] = "running"
                            /\ world.kind[r] = world.kind[s] => r = s
      /\ confirming => \A r \in Runs : Is(r, "upgrade") => stage[r] # "running"
      /\ \A r \in timer : stage[r] = "ended"
      /\ OnFleetPage => \A r \in Runs : stage[r] = "running" \/ r \in timer => shown = r
  BY <1>b DEF OneAtATime
<1>d. \A r \in Runs : OnFleetPage => Is(r, "update") \/ Is(r, "none")
  <2>1. \/ world.kind \in [Runs -> {"update", "none"}]
        \/ world.kind \in [Runs -> FirmwareKinds \union {"none"}]
    BY DEF PoolInv, TypeOK, WorldType
  <2> QED BY <2>1 DEF Is, FirmwareKinds
<1>e. (\A r : Is(r, "upgrade")' = Is(r, "upgrade")) /\ (OnFleetPage' <=> OnFleetPage)
  BY <1>a DEF Is
<1>f. ~Busy /\ ~OnFleetPage => \A r \in Runs : stage[r] # "running"
  BY <1>c DEF Busy
<1> HIDE DEF OnFleetPage
<1>g. ASSUME \A r \in Runs : stage'[r] = "running" => r \in here',
             \A r, s \in Runs : stage'[r] = "running" /\ stage'[s] = "running"
                                /\ world.kind[r] = world.kind[s] => r = s,
             confirming' => \A r \in Runs : Is(r, "upgrade") => stage'[r] # "running",
             \A r \in timer' : stage'[r] = "ended",
             OnFleetPage => \A r \in Runs : stage'[r] = "running" \/ r \in timer' => shown' = r
      PROVE  OneAtATime'
  BY <1>a, <1>e, <1>g DEF OneAtATime, OnFleetPage
<1>1. ASSUME NEW r \in Runs, Start(r) PROVE OneAtATime'
  <2>1. \A s \in Runs : stage'[s] = IF s = r THEN "running" ELSE stage[s]
    BY <1>0, <1>1 DEF Start
  <2>2. OnFleetPage => shown = 0
    BY <1>1, <1>b, <1>d DEF Start
  <2>3. OnFleetPage => \A s \in Runs : stage[s] # "running" /\ s \notin timer
    BY <1>0, <1>c, <2>2
  <2>4. /\ here' = here \union {r} /\ timer' = timer /\ shown' = r /\ stage[r] = "idle"
        /\ confirming' = (confirming /\ ~Is(r, "upgrade"))
    BY <1>1 DEF Start
  <2>5. IF Is(r, "upgrade") THEN confirming ELSE ~Busy
    BY <1>1 DEF Start
  <2>6. \A s \in Runs : stage[s] = "running" => world.kind[s] # world.kind[r]
    BY <1>c, <1>f, <2>3, <2>5 DEF Is
  <2>7. \A s \in Runs : stage'[s] = "running" => s \in here'
    BY <1>c, <2>1, <2>4
  <2>8. \A s, u \in Runs : stage'[s] = "running" /\ stage'[u] = "running"
                           /\ world.kind[s] = world.kind[u] => s = u
    BY <1>c, <2>1, <2>6
  <2>9. confirming' => \A s \in Runs : Is(s, "upgrade") => stage'[s] # "running"
    BY <1>c, <2>1, <2>4
  <2>10. \A s \in timer' : stage'[s] = "ended"
    BY <1>0, <1>c, <2>1, <2>4
  <2>11. OnFleetPage => \A s \in Runs : stage'[s] = "running" \/ s \in timer' => shown' = s
    BY <2>1, <2>3, <2>4
  <2> QED BY <1>g, <2>7, <2>8, <2>9, <2>10, <2>11
<1>2. ASSUME NEW r \in Runs, Finish(r) PROVE OneAtATime'
  <2>1. \A s \in Runs : stage'[s] = IF s = r THEN "ended" ELSE stage[s]
    BY <1>0, <1>2 DEF Finish
  <2>2. /\ stage[r] = "running" /\ UNCHANGED <<here, shown, confirming>>
        /\ timer' = timer \/ timer' = timer \union {r}
    BY <1>2 DEF Finish
  <2> QED BY <1>0, <1>c, <1>g, <2>1, <2>2
<1>3. ASSUME NEW r \in Runs, TimerFires(r) PROVE OneAtATime'
  <2>1. /\ r \in timer /\ timer' = timer \ {r} /\ UNCHANGED <<stage, here, confirming>>
        /\ shown' = IF r \in here THEN 0 ELSE shown
    BY <1>3 DEF TimerFires, choice
  <2>2. OnFleetPage => \A s \in Runs : stage[s] # "running" /\ s \notin timer'
    BY <1>0, <1>c, <2>1
  <2> QED BY <1>0, <1>c, <1>g, <2>1, <2>2
<1>4. ASSUME NEW r \in Runs, NEW w \in Workers, Work(r, w) PROVE OneAtATime'
  <2>1. /\ stage[r] = "running" /\ UNCHANGED <<stage, here, timer, confirming>>
        /\ shown' = shown \/ shown' = r
    BY <1>4, WorkFrame DEF choice
  <2> QED BY <1>c, <1>g, <2>1
<1>5. ASSUME Leave PROVE OneAtATime'
  BY <1>5, <1>b DEF Leave
<1>6. ASSUME UNCHANGED <<stage, pageVars>>, confirming' => confirming PROVE OneAtATime'
  BY <1>6, <1>c, <1>g DEF pageVars
<1>7. CASE Ask
  <2>1. \A s \in Runs : stage[s] # "running"
    <3>1. ~OnFleetPage
      BY <1>7, <1>d DEF Ask, OnFirmwarePage, FirmwareKinds, Is
    <3> QED BY <1>7, <1>f, <3>1 DEF Ask
  <2> QED BY <1>7, <1>c, <1>g, <2>1 DEF Ask, pageVars
<1> QED BY <1>1, <1>2, <1>3, <1>4, <1>5, <1>6, <1>7
        DEF Next, Cancel, Refetch, Toggle, Changes, choice, allVars, vars

\* The buttons keep the limit of one run the limit of the page for each kind of batch,
\* while the operator stays on it and waits for the markers of the last run to go
\* (refreshing, busy, confirming).
THEOREM PageLimit == Spec => []WithinLimit
<1>1. Init => OnlyRunsWork /\ OneAtATime
  BY RunsAssumption DEF Init, OnlyRunsWork, OneAtATime, Ended, Looping
<1>2. PoolInv /\ OnlyRunsWork /\ OneAtATime => WithinLimit
  <2> SUFFICES ASSUME PoolInv, OnlyRunsWork, OneAtATime, env \intersect {"quick", "leaves"} = {},
                      NEW kind
               PROVE  Cardinality({p \in Running : Is(p[1], kind)}) <= Limit
    BY DEF WithinLimit
  <2> DEFINE S == {p \in Running : Is(p[1], kind)}
  <2>1. \A p \in S : p \in Running /\ p[1] \in Runs /\ stage[p[1]] = "running" /\ Is(p[1], kind)
    BY DEF Running, OnlyRunsWork, Devices
  <2>2. ASSUME S = {} PROVE Cardinality(S) <= Limit
    BY <2>2, FS_EmptySet, SizeAssumption
  <2>3. ASSUME NEW q \in S PROVE Cardinality(S) <= Limit
    <3> DEFINE r == q[1]
    <3>1. r \in Runs /\ S \in SUBSET Batches!ItemsOf(r)
      <4> HIDE DEF S
      <4>1. \A p \in S : p[1] = r
        BY <2>1, <2>3 DEF OneAtATime, Is
      <4> QED BY <2>1, <2>3, <4>1 DEF Batches!ItemsOf
    <3> HIDE DEF r, S
    <3>2. IsFiniteSet(Workers) /\ Cardinality(Workers) = Limit
      BY FS_Interval, SizeAssumption DEF Workers
    <3>3. /\ IsFiniteSet(Batches!ItemsOf(r)) /\ Cardinality(Batches!ItemsOf(r)) \in Nat
          /\ Cardinality(Batches!ItemsOf(r)) <= Cardinality(Workers)
      BY <3>1, ItemsBounded
    <3>4. IsFiniteSet(S) /\ Cardinality(S) <= Cardinality(Batches!ItemsOf(r))
      BY <3>1, <3>3, FS_Subset
    <3>5. Cardinality(S) \in Nat
      BY <3>4, FS_CardinalityType
    <3> QED BY <3>2, <3>3, <3>4, <3>5, SizeAssumption
  <2> HIDE DEF S
  <2>4. Cardinality(S) <= Limit
    BY <2>2, <2>3
  <2> QED BY <2>4 DEF S
<1>3. Spec => [](OnlyRunsWork /\ OneAtATime)
  BY <1>1, OnlyRunsStep, OneAtATimeStep, PoolInvariance, PTL DEF Spec
<1> QED BY <1>2, <1>3, PoolInvariance, PTL

--------------------------------------------------------------------------------
(* The summary *)

\* A run of which a step changes nothing.
LEMMA OtherRun ==
  ASSUME NEW r \in Runs, CountIsTrue(r), MarksAreTrue(r), WorkersStopLast(r),
         stage'[r] = stage[r], next'[r] = next[r], worker'[r] = worker[r],
         mark'[r] = mark[r], failed'[r] = failed[r], plan'[r] = plan[r]
  PROVE  (CountIsTrue(r) /\ MarksAreTrue(r) /\ WorkersStopLast(r))'
<1>1. Errors(r)' = Errors(r) /\ Left(r)' = Left(r)
  BY DEF Errors, Left
<1> QED BY <1>1 DEF CountIsTrue, MarksAreTrue, WorkersStopLast

\* A worker takes a device, or stops.
LEMMA TakeSummary ==
  ASSUME PoolInv, SummaryInv, NEW r \in Runs, NEW w \in Workers, Take(r, w)
  PROVE  (CountIsTrue(r) /\ MarksAreTrue(r) /\ WorkersStopLast(r))'
<1>0. /\ worker \in [Runs -> [Workers -> WorkerType]] /\ next \in [Runs -> 1 .. Size + 1]
      /\ mark \in [Runs -> [Devices -> {"none", "queued", "running"} \union Final]]
      /\ CountIsTrue(r) /\ MarksAreTrue(r) /\ WorkersStopLast(r)
  BY DEF PoolInv, TypeOK, SummaryInv
<1>1. /\ stage[r] = "running" /\ stage' = stage /\ failed' = failed
      /\ worker[r][w].at = "looping" /\ worker[r][w].item = 0
  BY ItemOfWorker DEF Take, Calling
<1>2. \A v \in Workers : worker[r][v].item \in 0 .. Size /\ worker[r][v].item < next[r]
  BY <1>0, ItemOfWorker DEF WorkerType
<1>p. plan' = plan /\ plan[r] \subseteq Devices
  BY DEF Take, order, PoolInv, TypeOK
<1> DEFINE Goal == (CountIsTrue(r) /\ MarksAreTrue(r) /\ WorkersStopLast(r))'
<1>3. ASSUME NEW d \in Devices, IsNext(r, d),
             worker' = [worker EXCEPT ![r][w] = [Looping EXCEPT !.at = FirstCall(r), !.item = d]],
             next' = [next EXCEPT ![r] = d + 1], mark' = [mark EXCEPT ![r][d] = "running"]
      PROVE  Goal
  <2>1. d # 0 /\ d \in plan[r] /\ d >= next[r] /\ \A e \in Left(r) : d <= e
    BY <1>3 DEF Devices, IsNext, Left
  <2>2. \A v \in Workers : /\ worker'[r][v].item = IF v = w THEN d ELSE worker[r][v].item
                           /\ v = w => worker'[r][v].at # "ended"
                           /\ v # w => worker'[r][v] = worker[r][v]
    <3> DEFINE rec == [Looping EXCEPT !.at = FirstCall(r), !.item = d]
    <3>1. rec.item = d /\ rec.at = FirstCall(r)
      BY Zenon DEF Looping
    <3>2. FirstCall(r) # "ended"
      BY DEF FirstCall
    <3>3. worker' = [worker EXCEPT ![r][w] = rec]
      BY <1>3
    <3> HIDE DEF rec
    <3> QED BY <1>0, <3>1, <3>2, <3>3
  <2>3. next'[r] = d + 1 /\ d \in Nat /\ next[r] \in Nat
    BY <1>0, <1>3 DEF Devices
  <2>4. \A e \in Devices : mark'[r][e] = IF e = d THEN "running" ELSE mark[r][e]
    BY <1>0, <1>3
  <2>5. mark[r][d] = "queued"
    BY <1>0, <2>1 DEF MarksAreTrue
  <2>6. Errors(r)' = Errors(r)
    BY <2>4, <2>5 DEF Errors
  <2>7. CountIsTrue(r)'
    BY <1>0, <1>1, <2>6 DEF CountIsTrue
  <2>8. MarksAreTrue(r)'
    <3>1. ASSUME NEW e \in plan[r], e < d + 1
          PROVE  mark'[r][e] \in Final \/ \E v \in Workers : worker'[r][v].item = e
      <4>1. CASE e = d
        BY <2>2, <4>1
      <4>2. CASE e # d
        <5>1. e \in Devices /\ e < next[r] /\ e # 0
          BY <1>p, <2>1, <2>3, <3>1, <4>2 DEF Devices, Left
        <5>2. mark[r][e] \in Final \/ \E v \in Workers : worker[r][v].item = e
          BY <1>0, <5>1 DEF MarksAreTrue
        <5> QED BY <1>1, <2>2, <2>4, <4>2, <5>1, <5>2
      <4> QED BY <4>1, <4>2
    <3>2. ASSUME NEW e \in plan[r], e >= d + 1 PROVE mark'[r][e] = "queued"
      <4>1. e \in Devices /\ e >= next[r] /\ e # d
        BY <1>p, <2>1, <2>3, <3>2 DEF Devices
      <4> QED BY <1>0, <2>4, <4>1 DEF MarksAreTrue
    <3>3. ASSUME NEW v \in Workers, worker'[r][v].item # 0
          PROVE  mark'[r][worker'[r][v].item] = "running"
      <4>1. CASE v = w
        BY <2>1, <2>2, <2>4, <4>1
      <4>2. CASE v # w
        <5> DEFINE e == worker[r][v].item
        <5>1. e \in Devices /\ e # d
          BY <1>2, <2>1, <2>2, <2>3, <3>3, <4>2, SizeAssumption DEF Devices
        <5>2. mark[r][e] = "running"
          BY <1>0, <2>2, <3>3, <4>2 DEF MarksAreTrue
        <5> QED BY <2>2, <2>4, <4>2, <5>1, <5>2
      <4> QED BY <4>1, <4>2
    <3> QED BY <1>p, <2>3, <3>1, <3>2, <3>3 DEF MarksAreTrue
  <2>9. WorkersStopLast(r)'
    <3>1. \A v \in Workers : ~(worker[r][v].at = "ended" /\ v <= Cardinality(plan[r]))
      <4>1. Left(r) # {}
        BY <1>3 DEF IsNext
      <4> QED BY <1>0, <1>1, <4>1 DEF WorkersStopLast
    <3> QED BY <1>0, <1>1, <1>p, <2>2, <3>1 DEF WorkersStopLast
  <2> QED BY <2>7, <2>8, <2>9
<1>4. ASSUME worker' = [worker EXCEPT ![r][w] = Ended], UNCHANGED <<next, mark>>, Left(r) = {}
      PROVE  Goal
  <2>1. \A v \in Workers : worker'[r][v].item = worker[r][v].item
    <3>1. Ended.item = 0
      BY DEF Ended, Looping
    <3> QED BY <1>0, <1>1, <1>4, <3>1
  <2>2. Left(r)' = {} /\ Errors(r)' = Errors(r)
    BY <1>4, <1>p DEF Left, Errors
  <2>4. CountIsTrue(r)'
    BY <1>0, <1>1, <2>2 DEF CountIsTrue
  <2>5. MarksAreTrue(r)'
    <3>1. \A v \in Workers : worker'[r][v].item = worker[r][v].item
      BY <2>1
    <3>2. mark'[r] = mark[r] /\ next'[r] = next[r] /\ plan'[r] = plan[r]
      BY <1>4, <1>p
    <3>3. MarksAreTrue(r)
      BY <1>0
    <3> QED BY ONLY <3>1, <3>2, <3>3 DEF MarksAreTrue
  <2>6. WorkersStopLast(r)'
    BY <1>0, <1>1, <1>p, <2>2 DEF WorkersStopLast
  <2> QED BY <2>4, <2>5, <2>6
<1> HIDE DEF Goal
<1>5. Goal
  BY <1>3, <1>4 DEF Take
<1> QED BY <1>5 DEF Goal

\* A worker is done with its device, and counts it if it failed.
LEMMA SettleSummary ==
  ASSUME PoolInv, SummaryInv, NEW r \in Runs, NEW w \in Workers, worker[r][w].at \in Calling,
         stage[r] = "running", NEW how \in Final, NEW failures,
         failures = (IF how = "error" THEN 1 ELSE 0),
         Settle(r, w, how, failures), UNCHANGED <<stage, next, plan>>
  PROVE  (CountIsTrue(r) /\ MarksAreTrue(r) /\ WorkersStopLast(r))'
<1> DEFINE d == worker[r][w].item
<1>0. /\ worker \in [Runs -> [Workers -> WorkerType]] /\ next \in [Runs -> 1 .. Size + 1]
      /\ mark \in [Runs -> [Devices -> {"none", "queued", "running"} \union Final]]
      /\ failed \in [Runs -> Nat] /\ plan[r] \subseteq Devices
      /\ CountIsTrue(r) /\ MarksAreTrue(r) /\ WorkersStopLast(r)
  BY DEF PoolInv, TypeOK, SummaryInv
<1>1. d \in Devices /\ d # 0 /\ d < next[r]
  BY ItemOfWorker DEF Devices
<1>2. mark[r][d] = "running"
  BY <1>0, <1>1 DEF MarksAreTrue
<1>3. \A e \in Devices : mark'[r][e] = IF e = d THEN how ELSE mark[r][e]
  <2>1. mark' = [mark EXCEPT ![r][d] = how]
    BY DEF Settle
  <2> HIDE DEF d
  <2> QED BY <1>0, <1>1, <2>1
<1>4. \A v \in Workers : IF v = w THEN worker'[r][v].item = 0 /\ worker'[r][v].at = "looping"
                         ELSE worker'[r][v] = worker[r][v]
  <2>1. worker' = [worker EXCEPT ![r][w] = Looping] /\ Looping.item = 0 /\ Looping.at = "looping"
    BY DEF Settle, Looping
  <2> QED BY <1>0, <2>1
<1>5. failed'[r] = failed[r] + failures
  BY <1>0 DEF Settle
<1>6. \A v \in Workers : v # w => worker[r][v].item # d
  BY <1>1 DEF PoolInv, ItemsDiffer
<1> HIDE DEF d
<1>7. CountIsTrue(r)'
  <2>1. d \notin Errors(r)
    BY <1>2 DEF Errors
  <2>2. Errors(r)' = IF how = "error" THEN Errors(r) \union {d} ELSE Errors(r)
    BY <1>1, <1>2, <1>3 DEF Errors
  <2>3. IsFiniteSet(Errors(r))
    <3>1. IsFiniteSet(Devices)
      BY FS_Interval, SizeAssumption DEF Devices
    <3>2. Errors(r) \in SUBSET Devices
      BY DEF Errors
    <3> QED BY <3>1, <3>2, FS_Subset
  <2>4. Cardinality(Errors(r) \union {d}) = Cardinality(Errors(r)) + 1
    BY <2>1, <2>3, FS_AddElement
  <2>5. failed[r] = Cardinality(Errors(r)) /\ failed[r] \in Nat
    BY <1>0 DEF CountIsTrue
  <2>6. failed'[r] = Cardinality(Errors(r)')
    BY <1>5, <2>2, <2>4, <2>5
  <2> QED BY <2>6 DEF CountIsTrue
<1>8. MarksAreTrue(r)'
  <2>1. ASSUME NEW e \in plan[r], e < next[r]
        PROVE  mark'[r][e] \in Final \/ \E v \in Workers : worker'[r][v].item = e
    <3>1. mark[r][e] \in Final \/ \E v \in Workers : worker[r][v].item = e
      BY <1>0, <2>1 DEF MarksAreTrue
    <3>2. CASE e = d
      BY <1>1, <1>3, <3>2
    <3>3. CASE e # d
      BY <1>0, <1>3, <1>4, <3>1, <3>3 DEF d
    <3> QED BY <3>2, <3>3
  <2>2. ASSUME NEW e \in plan[r], e >= next[r] PROVE mark'[r][e] = "queued"
    <3>1. e # d
      BY <1>0, <1>1, <2>2 DEF Devices
    <3> QED BY <1>0, <1>3, <2>2, <3>1 DEF MarksAreTrue
  <2>3. ASSUME NEW v \in Workers, worker'[r][v].item # 0
        PROVE  mark'[r][worker'[r][v].item] = "running"
    <3> DEFINE e == worker[r][v].item
    <3>1. v # w /\ worker'[r][v].item = e
      BY <1>4, <2>3
    <3>2. e \in Devices /\ e # d
      BY <1>6, <2>3, <3>1, ItemOfWorker DEF PoolInv, ItemWhileCalling
    <3>3. mark[r][e] = "running"
      BY <1>0, <2>3, <3>1 DEF MarksAreTrue
    <3> QED BY <1>3, <3>1, <3>2, <3>3
  <2> QED BY <2>1, <2>2, <2>3 DEF MarksAreTrue
<1>9. WorkersStopLast(r)'
  BY <1>0, <1>4 DEF WorkersStopLast, Left
<1> QED BY <1>7, <1>8, <1>9

\* A worker goes from one call to the next.
LEMMA AdvanceSummary ==
  ASSUME PoolInv, SummaryInv, NEW r \in Runs, NEW w \in Workers, worker[r][w].at \in Calling,
         NEW rec \in WorkerType, rec.item = worker[r][w].item, rec.at # "ended",
         worker' = [worker EXCEPT ![r][w] = rec], UNCHANGED <<stage, next, mark, failed, plan>>
  PROVE  (CountIsTrue(r) /\ MarksAreTrue(r) /\ WorkersStopLast(r))'
<1>0. /\ worker \in [Runs -> [Workers -> WorkerType]]
      /\ CountIsTrue(r) /\ MarksAreTrue(r) /\ WorkersStopLast(r)
  BY DEF PoolInv, TypeOK, SummaryInv
<1>1. \A v \in Workers : /\ worker'[r][v].item = worker[r][v].item
                         /\ worker'[r][v].at = "ended" => worker[r][v].at = "ended"
  BY <1>0
<1>2. Errors(r)' = Errors(r) /\ Left(r)' = Left(r)
  BY DEF Errors, Left
<1> QED BY <1>0, <1>1, <1>2 DEF CountIsTrue, MarksAreTrue, WorkersStopLast

\* One step per action.
LEMMA SummaryStep == PoolInv /\ PlanInv /\ SummaryInv /\ [Next]_allVars => SummaryInv'
<1> SUFFICES ASSUME PoolInv, PlanInv, SummaryInv, [Next]_allVars, NEW s \in Runs
             PROVE  (CountIsTrue(s) /\ MarksAreTrue(s) /\ WorkersStopLast(s))'
  BY DEF SummaryInv
<1> DEFINE Goal == (CountIsTrue(s) /\ MarksAreTrue(s) /\ WorkersStopLast(s))'
<1>0. /\ stage \in [Runs -> {"idle", "running", "ended"}] /\ next \in [Runs -> 1 .. Size + 1]
      /\ worker \in [Runs -> [Workers -> WorkerType]]
      /\ mark \in [Runs -> [Devices -> {"none", "queued", "running"} \union Final]]
      /\ failed \in [Runs -> Nat] /\ plan \in [Runs -> SUBSET Devices]
      /\ CountIsTrue(s) /\ MarksAreTrue(s) /\ WorkersStopLast(s)
  BY DEF PoolInv, TypeOK, SummaryInv
<1>1. ASSUME NEW r \in Runs, Start(r) PROVE Goal
  <2>1. CASE s # r
    <3>1. /\ stage'[s] = stage[s] /\ next'[s] = next[s] /\ worker'[s] = worker[s]
          /\ mark'[s] = mark[s] /\ failed'[s] = failed[s] /\ plan'[s] = plan[s]
      BY <1>0, <1>1, <2>1 DEF Start
    <3> QED BY <1>0, <3>1, OtherRun
  <2>2. CASE s = r
    <3>1. /\ stage'[s] = "running" /\ next'[s] = 1 /\ failed'[s] = 0
          /\ plan'[s] = Targets(r) /\ Targets(r) # {}
      BY <1>0, <1>1, <2>2 DEF Start, CountIsTrue, PlanInv
    <3>2. \A d \in Devices : mark'[s][d] = IF d \in plan'[s] THEN "queued" ELSE "none"
      BY <1>0, <1>1, <2>2, <3>1 DEF Start
    <3>3. \A v \in Workers : /\ worker'[s][v].item = 0
                             /\ worker'[s][v].at = "ended" => ~(v <= Cardinality(plan'[s]))
      <4>1. Looping.item = 0 /\ Looping.at = "looping" /\ Ended.item = 0
        BY DEF Ended, Looping
      <4>2. \A v \in Workers : worker'[s][v] = IF v <= Cardinality(plan'[s]) THEN Looping ELSE Ended
        BY <1>0, <1>1, <2>2, <3>1 DEF Start
      <4> QED BY <4>1, <4>2
    <3>4. Errors(s)' = {}
      BY <3>2 DEF Errors
    <3>5. CountIsTrue(s)'
      BY <3>1, <3>4, FS_EmptySet DEF CountIsTrue
    <3>6. MarksAreTrue(s)'
      <4>1. \A d \in plan'[s] : d \in Devices /\ ~(d < 1)
        BY <3>1 DEF Targets, Effective, Devices
      <4> QED BY <3>1, <3>2, <3>3, <4>1 DEF MarksAreTrue
    <3>7. WorkersStopLast(s)'
      BY <3>1, <3>3 DEF WorkersStopLast
    <3> QED BY <3>5, <3>6, <3>7
  <2> QED BY <2>1, <2>2
<1>2. ASSUME NEW r \in Runs, Finish(r) PROVE Goal
  <2>0. UNCHANGED <<next, worker, mark, failed, plan>>
    BY <1>2 DEF Finish, pool, order
  <2>1. CASE s # r
    <3>1. stage'[s] = stage[s]
      BY <1>0, <1>2, <2>1 DEF Finish
    <3> QED BY <1>0, <2>0, <3>1, OtherRun
  <2>2. CASE s = r
    <3>1. stage[s] = "running" /\ stage'[s] = "ended"
      BY <1>0, <1>2, <2>2 DEF Finish
    <3>2. 1 \in Workers /\ 1 <= Cardinality(plan[s])
      <4>1. plan[s] # {} /\ plan[s] \in SUBSET Devices
        BY <1>0, <3>1 DEF WorkersStopLast
      <4>2. IsFiniteSet(Devices)
        BY FS_Interval, SizeAssumption DEF Devices
      <4>3. IsFiniteSet(plan[s])
        BY <4>1, <4>2, FS_Subset
      <4>4. Cardinality(plan[s]) \in Nat /\ Cardinality(plan[s]) # 0
        BY <4>1, <4>3, FS_CardinalityType, FS_EmptySet
      <4> QED BY <4>4, SizeAssumption DEF Workers
    <3>3. worker[s][1].at = "ended"
      BY <1>2, <2>2, <3>2 DEF Finish
    <3>4. Left(s) = {}
      BY <1>0, <3>1, <3>2, <3>3 DEF WorkersStopLast
    <3>5. Errors(s)' = Errors(s)
      BY <2>0 DEF Errors
    <3>6. CountIsTrue(s)'
      BY <1>0, <2>0, <3>1, <3>5 DEF CountIsTrue
    <3>7. MarksAreTrue(s)'
      BY <1>0, <2>0, <3>1 DEF MarksAreTrue
    <3>8. WorkersStopLast(s)'
      BY <2>0, <3>1, <3>4 DEF WorkersStopLast, Left
    <3> QED BY <3>6, <3>7, <3>8
  <2> QED BY <2>1, <2>2
<1>3. ASSUME NEW r \in Runs, NEW w \in Workers, Work(r, w) PROVE Goal
  <2>0. stage[r] = "running" /\ stage' = stage /\ plan' = plan
    BY <1>3, WorkFrame DEF order
  <2>1. CASE s # r
    <3>1. worker'[s] = worker[s]
      BY <1>3, <2>1, WorkFrame
    <3>2. next'[s] = next[s]
      BY <1>0, <1>3, <2>1 DEF Work, Take, TestConnection, CheckFirmware, CallRaises, CheckAnswered,
                              TriggerUpgrade
    <3>3. mark'[s] = mark[s] /\ failed'[s] = failed[s]
      BY <1>0, <1>3, <2>1 DEF Work, Take, TestConnection, CheckFirmware, CallRaises, CheckAnswered,
                              TriggerUpgrade, Settle
    <3> QED BY <1>0, <2>0, <3>1, <3>2, <3>3, OtherRun
  <2>2. CASE s = r
    <3> USE DEF Calling, Final
    <3>1. CASE Take(r, w)
      BY <2>2, <3>1, TakeSummary
    <3>2. ASSUME NEW how \in Final, NEW failures, failures = (IF how = "error" THEN 1 ELSE 0),
                 worker[r][w].at \in Calling, Settle(r, w, how, failures), UNCHANGED next
          PROVE  Goal
      BY <2>0, <2>2, <3>2, SettleSummary
    <3>3. ASSUME NEW at \in Calling, worker[r][w].at \in Calling,
                 worker' = [worker EXCEPT ![r][w].at = at], UNCHANGED <<next, mark, failed>>
          PROVE  Goal
      <4> DEFINE rec == [worker[r][w] EXCEPT !.at = at]
      <4>1. rec \in WorkerType /\ rec.item = worker[r][w].item /\ rec.at # "ended"
        BY <3>3, ItemOfWorker DEF WorkerType
      <4>2. worker' = [worker EXCEPT ![r][w] = rec]
        BY <1>0, <3>3
      <4> HIDE DEF rec
      <4> QED BY <2>0, <2>2, <3>3, <4>1, <4>2, AdvanceSummary
    <3>4. CASE TestConnection(r, w)
      BY <3>2, <3>3, <3>4 DEF TestConnection, At
    <3>5. CASE CheckFirmware(r, w)
      <4> DEFINE v == version[worker[r][w].item]
                 rec == [worker[r][w] EXCEPT !.at = "checked", !.from = v.from, !.to = v.to]
      <4>1. worker[r][w] \in WorkerType /\ worker[r][w].item \in Devices
        BY <3>5, ItemOfWorker DEF CheckFirmware, At
      <4>2. v.from \in 0 .. MaxVersion /\ v.to \in 0 .. MaxVersion
        BY <4>1, SizeAssumption DEF PoolInv, TypeOK, VersionType, Versions
      <4> HIDE DEF v
      <4>3. rec \in WorkerType /\ rec.item = worker[r][w].item /\ rec.at = "checked"
        BY <4>1, <4>2 DEF WorkerType
      <4>4. worker' = [worker EXCEPT ![r][w] = rec] /\ UNCHANGED <<next, mark, failed>>
        BY <1>0, <3>5 DEF CheckFirmware, v
      <4> HIDE DEF rec
      <4> QED BY <2>0, <2>2, <3>5, <4>3, <4>4, AdvanceSummary DEF CheckFirmware, At
    <3>6. CASE CallRaises(r, w)
      BY <3>2, <3>6 DEF CallRaises
    <3>7. CASE CheckAnswered(r, w)
      BY <3>2, <3>3, <3>7 DEF CheckAnswered, At
    <3>8. CASE TriggerUpgrade(r, w)
      BY <3>2, <3>8 DEF TriggerUpgrade, At
    <3> QED BY <1>3, <3>1, <3>4, <3>5, <3>6, <3>7, <3>8 DEF Work
  <2> QED BY <2>1, <2>2
<1>4. CASE UNCHANGED <<stage, pool, mark, failed, order>>
  BY <1>0, <1>4, OtherRun DEF pool, order
<1> QED BY <1>1, <1>2, <1>3, <1>4
        DEF Next, TimerFires, Leave, Ask, Cancel, Refetch, Toggle, Changes, allVars, vars

\* When a run is over, every device has its outcome and the summary counts the failures
\* (updateAll, recheckAll, upgradeSelected).
THEOREM SummaryHolds == Spec => []SummaryIsTrue
<1>1. Init => OnlyRunsWork /\ PlanInv /\ SummaryInv
  <2> SUFFICES ASSUME Init PROVE OnlyRunsWork /\ PlanInv /\ SummaryInv
    OBVIOUS
  <2>1. \A r \in Runs, w \in Workers : worker[r][w].item = 0
    BY DEF Init, Ended, Looping
  <2>2. \A r \in Runs : Errors(r) = {}
    BY DEF Init, Errors
  <2>3. \A r \in Runs : CountIsTrue(r)
    BY <2>2, FS_EmptySet DEF Init, CountIsTrue
  <2>4. \A r \in Runs : MarksAreTrue(r) /\ WorkersStopLast(r)
    BY <2>1 DEF Init, MarksAreTrue, WorkersStopLast
  <2>5. OnlyRunsWork /\ PlanInv
    BY <2>1 DEF Init, OnlyRunsWork, PlanInv
  <2> QED BY <2>3, <2>4, <2>5 DEF SummaryInv
<1>2. PoolInv /\ OnlyRunsWork /\ SummaryInv => SummaryIsTrue
  <2> SUFFICES ASSUME PoolInv, OnlyRunsWork, SummaryInv, NEW r \in Runs, stage[r] = "ended"
               PROVE  /\ \A d \in plan[r] : mark[r][d] \in Final
                      /\ failed[r] = Cardinality({d \in Devices : mark[r][d] = "error"})
    BY DEF SummaryIsTrue
  <2>1. next[r] \in 1 .. Size + 1 /\ plan[r] \subseteq Devices /\ Left(r) = {}
    BY DEF PoolInv, TypeOK, SummaryInv, WorkersStopLast
  <2>2. \A w \in Workers : worker[r][w].item = 0
    BY DEF OnlyRunsWork
  <2>3. \A d \in plan[r] : d < next[r] /\ d # 0
    BY <2>1, SizeAssumption DEF Devices, Left
  <2>4. \A d \in plan[r] : mark[r][d] \in Final
    BY <2>2, <2>3 DEF SummaryInv, MarksAreTrue
  <2> QED BY <2>4 DEF SummaryInv, CountIsTrue, Errors
<1>3. Spec => [](OnlyRunsWork /\ PlanInv /\ SummaryInv)
  BY <1>1, OnlyRunsStep, PlanStep, SummaryStep, PoolInvariance, PTL DEF Spec
<1> QED BY <1>2, <1>3, PoolInvariance, PTL
================================================================================
