------------------------------ MODULE FleetBatch ------------------------------
(***************************************************************************)
(* The batches of the fleet pages: "Update all" of fleet/page.tsx          *)
(* (updateAll), and the check and the upgrade of bulk/firmware/page.tsx    *)
(* (recheckAll, upgradeSelected), all of which hand their devices to       *)
(* runPool of lib/pool.ts.  The devices are numbered in the order of the   *)
(* list.  A run has a mark per device, as in updateAll; upgradeSelected    *)
(* calls a waiting device "running" from the start, and recheckAll only    *)
(* counts.                                                                 *)
(*                                                                         *)
(* An upgrade takes three clicks: routers are ticked in the list, the      *)
(* upgrade is asked for, and confirmed.  The list may be read again, and   *)
(* the check be started, between any two of them.                          *)
(*                                                                         *)
(* world.kind says what each run is, "none" for one that does not happen,  *)
(* and world.env what a behaviour has besides them:                        *)
(*   "changes"  somebody publishes a release or upgrades a device          *)
(*   "quick"    the operator updates all again while the markers of the    *)
(*              last run are shown: until four seconds after its devices   *)
(*              have been listed again                                     *)
(*   "leaves"   the operator leaves the page during a batch, and returns   *)
(***************************************************************************)
EXTENDS Naturals, FiniteSets

CONSTANTS
    Runs,        \* the batches an operator starts, a range of numbers
    Size,        \* the number of devices
    Limit,       \* REFRESH_CONCURRENCY, CHECK_CONCURRENCY, UPGRADE_CONCURRENCY
    Servers,     \* devices of class "server"
    Shared,      \* bound on the devices somebody else changes, too
    MaxVersion,  \* bound on the releases
    Worlds

Devices == 1 .. Size
Workers == 1 .. Limit
Versions == 1 .. MaxVersion
EnvKinds == {"changes", "quick", "leaves"}
FirmwareKinds == {"recheck", "upgrade"}

\* The runs of a behaviour are those of one page.
WorldType ==
    [kind : [Runs -> {"update", "none"}] \union [Runs -> FirmwareKinds \union {"none"}],
     env  : SUBSET EnvKinds]

ASSUME SizeAssumption == Size \in Nat \ {0} /\ Limit \in Nat \ {0} /\ MaxVersion \in Nat \ {0, 1}
ASSUME SharedAssumption == Shared \subseteq Devices
ASSUME RunsAssumption == Runs \subseteq Nat \ {0}
ASSUME WorldsAssumption == \A w \in Worlds : w \in WorldType

VARIABLES
    world,     \* the batch and the environment, the same throughout a behaviour
    stage,     \* of each run
    next,      \* the index runPool takes its next item from
    worker,    \* the workers of runPool
    mark,      \* the state map of each run
    failed,    \* its counter of failures
    here,      \* runs whose page has not been left
    shown,     \* the run whose state map the page shows, or 0
    timer,     \* runs whose setTimeout is pending
    version,   \* what each device runs, and what is published for it
    list,      \* what the firmware page says of it
    ticked,    \* what it said when the device was ticked, Unticked if it is not
    confirming,  \* the page asks whether to continue
    plan,      \* the devices of each run
    approved,  \* what the list said of them when the run was started
    raced,     \* history: devices that changed between a run's check and its upgrade
    surprises  \* history: devices to which a run gave a version it was not started for

pool == <<next, worker>>
pageVars == <<shown, here, timer>>
choice == <<list, ticked, confirming>>
order == <<plan, approved>>
history == <<raced, surprises>>
vars == <<stage, pool, mark, failed, pageVars, version, choice, order, history>>
allVars == <<world, vars>>

env == world.env

Calling == {"testing", "checking", "checked", "triggering"}
WorkerType == [at : Calling \union {"looping", "ended"}, item : 0 .. Size,
               from : 0 .. MaxVersion, to : 0 .. MaxVersion]
VersionType == [from : Versions, to : Versions]
Unticked == [from |-> 0, to |-> 0]
Looping == [at |-> "looping", item |-> 0, from |-> 0, to |-> 0]
Ended == [Looping EXCEPT !.at = "ended"]
Final == {"ok", "error", "skipped", "triggered"}

\* Every variable keeps its type.
TypeOK ==
    /\ world \in WorldType
    /\ stage \in [Runs -> {"idle", "running", "ended"}]
    /\ next \in [Runs -> 1 .. Size + 1]
    /\ worker \in [Runs -> [Workers -> WorkerType]]
    /\ mark \in [Runs -> [Devices -> {"none", "queued", "running"} \union Final]]
    /\ failed \in [Runs -> Nat]
    /\ here \subseteq Runs /\ timer \subseteq Runs /\ shown \in Runs \union {0}
    /\ version \in [Devices -> VersionType]
    /\ list \in [Devices -> VersionType] /\ confirming \in BOOLEAN
    /\ ticked \in [Devices -> VersionType \union {Unticked}]
    /\ plan \in [Runs -> SUBSET Devices] /\ approved \in [Runs -> [Devices -> VersionType]]
    /\ raced \subseteq Runs \X Devices /\ surprises \subseteq Runs \X Devices

FirstVersion == [d \in Devices |-> [from |-> 1, to |-> 2]]

Init ==
    /\ world \in Worlds
    /\ stage = [r \in Runs |-> "idle"]
    /\ next = [r \in Runs |-> 1]
    /\ worker = [r \in Runs |-> [w \in Workers |-> Ended]]
    /\ mark = [r \in Runs |-> [d \in Devices |-> "none"]]
    /\ failed = [r \in Runs |-> 0]
    /\ here = {} /\ timer = {} /\ shown = 0
    /\ version = FirstVersion /\ list = FirstVersion
    /\ ticked = [d \in Devices |-> Unticked] /\ confirming = FALSE
    /\ plan = [r \in Runs |-> {}] /\ approved = [r \in Runs |-> FirstVersion]
    /\ raced = {} /\ surprises = {}

--------------------------------------------------------------------------------
(* The page *)

Is(r, kind) == world.kind[r] = kind

\* The buttons are disabled: refreshing of the fleet page, computed from the map it
\* shows; busy of the firmware page.
Busy ==
    IF \E r \in Runs : Is(r, "update")
    THEN shown # 0 /\ \E d \in Devices : mark[shown][d] \in {"queued", "running"}
    ELSE \E r \in here : stage[r] = "running"

\* mark: the map of the run is what its page shows from now on.
Shows(r) == shown' = IF r \in here THEN r ELSE shown

OnFirmwarePage == \E r \in Runs : world.kind[r] \in FirmwareKinds

\* upgradable, by what the list says.
Upgradable(d) == d \notin Servers /\ list[d].from # list[d].to

\* What is ticked and still in a group of the list.
Effective == {d \in Devices : ticked[d] # Unticked /\ Upgradable(d)}

\* toggleDevice; toggleGroup does it for the devices of a group.
Toggle(d) ==
    /\ OnFirmwarePage /\ ~Busy /\ Upgradable(d)
    /\ ticked' = [ticked EXCEPT ![d] = IF @ = Unticked THEN list[d] ELSE Unticked]
    /\ confirming' = FALSE
    /\ UNCHANGED <<world, stage, pool, mark, failed, pageVars, version, list, order, history>>

\* The button that asks is not disabled during a batch.
AskWhileBusy ==
    /\ OnFirmwarePage /\ ~confirming /\ Effective # {}
    /\ confirming' = TRUE
    /\ UNCHANGED <<world, stage, pool, mark, failed, pageVars, version, list, ticked, order, history>>

\* "Upgrade n selected routers"
Ask ==
    /\ OnFirmwarePage /\ ~confirming /\ ~Busy /\ Effective # {}
    /\ confirming' = TRUE
    /\ UNCHANGED <<world, stage, pool, mark, failed, pageVars, version, list, ticked, order, history>>

\* "Cancel", or "Yes" when nothing that is ticked can be upgraded any more.
Cancel ==
    /\ confirming /\ confirming' = FALSE
    /\ UNCHANGED <<world, stage, pool, mark, failed, pageVars, version, list, ticked, order, history>>

\* The devices a run is started for.
Targets(r) ==
    IF Is(r, "update") THEN Devices
    ELSE IF Is(r, "recheck") THEN Devices \ Servers ELSE Effective

\* updateAll, recheckAll, upgradeSelected up to runPool.  "Yes, upgrade and reboot"
\* is there while the page asks, whatever else is going on; a check does not take
\* the question back.
Start(r) ==
    /\ ~Is(r, "none") /\ stage[r] = "idle"
    /\ \A s \in Runs : s < r => stage[s] # "idle" \/ Is(s, "none")
    /\ IF Is(r, "upgrade") THEN confirming ELSE ~Busy
    /\ Is(r, "update") => "quick" \in env \/ shown = 0
    /\ Targets(r) # {}
    /\ stage' = [stage EXCEPT ![r] = "running"]
    /\ plan' = [plan EXCEPT ![r] = Targets(r)]
    /\ mark' = [mark EXCEPT ![r] = [d \in Devices |-> IF d \in Targets(r) THEN "queued" ELSE "none"]]
    /\ worker' = [worker EXCEPT ![r] =
                    [w \in Workers |-> IF w <= Cardinality(Targets(r)) THEN Looping ELSE Ended]]
    /\ here' = here \union {r}
    /\ shown' = r
    /\ approved' = [approved EXCEPT ![r] = list]
    /\ confirming' = (confirming /\ ~Is(r, "upgrade"))
    /\ UNCHANGED <<world, next, failed, timer, version, list, ticked, history>>

\* The list of devices is read again.  It says what each device said when it was
\* last asked, by this page or by anybody else.
Rereads == \E news \in SUBSET {d \in Devices : list[d] # version[d]} :
    list' = [d \in Devices |-> IF d \in news THEN version[d] ELSE list[d]]

\* On mounting, on reconnecting, or because another page refreshes it.
Refetch ==
    /\ OnFirmwarePage /\ Rereads
    /\ UNCHANGED <<world, stage, pool, mark, failed, pageVars, version, ticked, confirming, order, history>>

\* Leaving loses the state of the page; the batch goes on.
Leave ==
    /\ "leaves" \in env /\ here # {}
    /\ here' = {} /\ shown' = 0
    /\ ticked' = [d \in Devices |-> Unticked] /\ confirming' = FALSE
    /\ UNCHANGED <<world, stage, pool, mark, failed, timer, version, list, order, history>>

\* updateAll shows its markers for four more seconds.
TimerFires(r) ==
    /\ r \in timer
    /\ timer' = timer \ {r}
    /\ shown' = IF r \in here THEN 0 ELSE shown
    /\ UNCHANGED <<world, stage, pool, mark, failed, here, version, choice, order, history>>

\* Promise.all of the workers, and what the batch does after it: the devices are
\* listed again, and nothing is ticked after an upgrade.
Finish(r) ==
    /\ stage[r] = "running" /\ \A w \in Workers : worker[r][w].at = "ended"
    /\ stage' = [stage EXCEPT ![r] = "ended"]
    /\ timer' = IF Is(r, "update") THEN timer \union {r} ELSE timer
    /\ IF Is(r, "update") THEN UNCHANGED list ELSE Rereads
    /\ ticked' = IF Is(r, "upgrade") /\ r \in here THEN [d \in Devices |-> Unticked] ELSE ticked
    /\ UNCHANGED <<world, pool, mark, failed, shown, here, version, confirming, order, history>>

--------------------------------------------------------------------------------
(* The workers of runPool *)

\* The first call of the function of each batch.
FirstCall(r) == IF Is(r, "update") THEN "testing" ELSE "checking"

\* What is left of the list, and the device whose turn it is.
Left(r) == {d \in plan[r] : d >= next[r]}
IsNext(r, d) == d \in Left(r) /\ \A e \in Left(r) : d <= e

\* The index is not advanced before the next worker looks at it.
TakeLate(r, w) ==
    /\ stage[r] = "running" /\ worker[r][w].at = "looping"
    /\ \/ \E d \in Devices :
            /\ IsNext(r, d)
            /\ worker' = [worker EXCEPT ![r][w] = [Looping EXCEPT !.at = FirstCall(r), !.item = d]]
            /\ UNCHANGED next
            /\ mark' = [mark EXCEPT ![r][d] = "running"]
            /\ Shows(r)
       \/ /\ Left(r) = {}
          /\ worker' = [worker EXCEPT ![r][w] = Ended]
          /\ UNCHANGED <<next, mark, shown>>
    /\ UNCHANGED <<world, stage, failed, here, timer, version, choice, order, history>>

\* while (next < items.length) { item = items[next++]; await fn(item) }
Take(r, w) ==
    /\ stage[r] = "running" /\ worker[r][w].at = "looping"
    /\ \/ \E d \in Devices :
            /\ IsNext(r, d)
            /\ worker' = [worker EXCEPT ![r][w] = [Looping EXCEPT !.at = FirstCall(r), !.item = d]]
            /\ next' = [next EXCEPT ![r] = d + 1]
            /\ mark' = [mark EXCEPT ![r][d] = "running"]
            /\ Shows(r)
       \/ /\ Left(r) = {}
          /\ worker' = [worker EXCEPT ![r][w] = Ended]
          /\ UNCHANGED <<next, mark, shown>>
    /\ UNCHANGED <<world, stage, failed, here, timer, version, choice, order, history>>

At(r, w, at) == stage[r] = "running" /\ worker[r][w].at = at

\* The function of the batch is done with its device.
Settle(r, w, how, failures) ==
    /\ mark' = [mark EXCEPT ![r][worker[r][w].item] = how]
    /\ failed' = [failed EXCEPT ![r] = @ + failures]
    /\ worker' = [worker EXCEPT ![r][w] = Looping]
    /\ Shows(r)

\* A device that answers with ok = false is not counted.
TestConnectionUncounted(r, w) ==
    /\ At(r, w, "testing")
    /\ \/ \E failures \in {0, 1} : Settle(r, w, "error", failures)
       \/ Settle(r, w, "ok", 0)
    /\ UNCHANGED <<world, stage, next, here, timer, version, choice, order, history>>

\* testDeviceConnection: not ok and an exception are both failures; a server has
\* no firmware to ask for.
TestConnection(r, w) ==
    /\ At(r, w, "testing")
    /\ \/ Settle(r, w, "error", 1)
       \/ /\ worker[r][w].item \in Servers
          /\ Settle(r, w, "ok", 0)
       \/ /\ worker[r][w].item \notin Servers
          /\ worker' = [worker EXCEPT ![r][w].at = "checking"]
          /\ UNCHANGED <<mark, failed, shown>>
    /\ UNCHANGED <<world, stage, next, here, timer, version, choice, order, history>>

\* checkDeviceFirmware: the device says what it runs and what is published.
CheckFirmware(r, w) ==
    /\ At(r, w, "checking")
    /\ LET v == version[worker[r][w].item] IN
          worker' = [worker EXCEPT ![r][w].at = "checked", ![r][w].from = v.from, ![r][w].to = v.to]
    /\ UNCHANGED <<world, stage, next, mark, failed, pageVars, version, choice, order, history>>

\* The function does not catch it: the worker is lost, and Promise.all rejects.
CallRaisesUncaught(r, w) ==
    /\ stage[r] = "running" /\ worker[r][w].at \in {"checking", "checked", "triggering"}
    /\ worker' = [worker EXCEPT ![r][w] = Ended]
    /\ stage' = [stage EXCEPT ![r] = "idle"]
    /\ UNCHANGED <<world, next, mark, failed, pageVars, version, choice, order, history>>

\* A call raises, and the function catches it.
CallRaises(r, w) ==
    /\ stage[r] = "running" /\ worker[r][w].at \in {"checking", "checked", "triggering"}
    /\ Settle(r, w, "error", 1)
    /\ UNCHANGED <<world, stage, next, here, timer, version, choice, order, history>>

SameVersion(r, w) == worker[r][w].from = approved[r][worker[r][w].item].from

\* The device is still what the operator approved.
StillApproved(r, w) ==
    LET a == approved[r][worker[r][w].item] IN
        worker[r][w].from = a.from /\ worker[r][w].to = a.to

CheckAnswered(r, w) ==
    /\ At(r, w, "checked")
    /\ IF Is(r, "upgrade")
       THEN IF StillApproved(r, w)
            THEN /\ worker' = [worker EXCEPT ![r][w].at = "triggering"]
                 /\ UNCHANGED <<mark, failed, shown>>
            ELSE Settle(r, w, "skipped", 0)
       ELSE Settle(r, w, "ok", 0)
    /\ UNCHANGED <<world, stage, next, here, timer, version, choice, order, history>>

\* triggerFirmwareUpgrade: the device installs what is published now.  The answer
\* may be lost.
TriggerUpgrade(r, w) ==
    LET d == worker[r][w].item IN
    /\ At(r, w, "triggering")
    /\ version' = [version EXCEPT ![d].from = version[d].to]
    /\ surprises' = IF version[d].to = approved[r][d].to THEN surprises
                    ELSE surprises \union {<<r, d>>}
    /\ \E how \in {"triggered", "error"} : Settle(r, w, how, IF how = "error" THEN 1 ELSE 0)
    /\ UNCHANGED <<world, stage, next, here, timer, choice, order, raced>>

--------------------------------------------------------------------------------
(* Everybody else *)

\* A release is published for a device, or somebody upgrades it, perhaps between
\* the answer to a check and the upgrade.
Changes(d) ==
    /\ "changes" \in env
    /\ raced' = raced \union
         {p \in Runs \X {d} : \E w \in Workers :
            worker[p[1]][w].item = d /\ worker[p[1]][w].at \in {"checked", "triggering"}}
    /\ \/ \E v \in Versions : v > version[d].to /\ version' = [version EXCEPT ![d].to = v]
       \/ version' = [version EXCEPT ![d].from = version[d].to]
    /\ UNCHANGED <<world, stage, pool, mark, failed, pageVars, choice, order, surprises>>

Work(r, w) ==
    \/ Take(r, w) \/ TestConnection(r, w) \/ CheckFirmware(r, w) \/ CallRaises(r, w)
    \/ CheckAnswered(r, w) \/ TriggerUpgrade(r, w)

Next ==
    \/ \E r \in Runs : Start(r) \/ TimerFires(r) \/ Finish(r) \/ \E w \in Workers : Work(r, w)
    \/ Leave \/ Ask \/ Cancel \/ Refetch
    \/ \E d \in Devices : Toggle(d)
    \/ \E d \in Shared : Changes(d)

\* Every call is answered or runs into its timeout, and what was awaited goes on.
Fairness == \A r \in Runs : WF_vars(Finish(r) \/ \E w \in Workers : Work(r, w))

Spec == Init /\ [][Next]_allVars /\ Fairness

--------------------------------------------------------------------------------
(* Properties *)

Started == {r \in Runs : stage[r] # "idle"}
Waiting == {p \in Runs \X Devices : p[2] \in Left(p[1])}
Running == {p \in Runs \X Devices : \E w \in Workers : worker[p[1]][w].item = p[2]}
Finished == {p \in Runs \X Devices : p[2] \in plan[p[1]] /\ p[2] < next[p[1]]} \ Running

Batches == INSTANCE Batch WITH
    Items <- Devices, started <- Started, waiting <- Waiting, running <- Running,
    finished <- Finished

\* Whatever the calls answer and whatever the operator does, a run works on every
\* device it was started for once, and on at most Limit at a time (runPool).
RunsAreBatches == Batches!Spec

\* The buttons keep a second run from starting next to one of its kind, so that the
\* limit holds for the page: at most Limit updates, and at most Limit checks and
\* Limit upgrades, which may go on together.  It takes an operator who stays on the
\* page, and who does not update again before the markers of the last run are gone
\* (refreshing, busy, confirming).
WithinLimit ==
    env \intersect {"quick", "leaves"} = {} =>
        \A kind \in FirmwareKinds \union {"update"} :
            Cardinality({p \in Running : Is(p[1], kind)}) <= Limit

\* No device gets a version that was not in the list when the upgrade was confirmed,
\* whatever was ticked, checked, published or installed since, unless it changed
\* between the check that upgradeSelected makes and the upgrade.
OnlyApprovedUpgrades == surprises \subseteq raced

\* When a run is over, every device has its outcome and the summary counts the
\* failures (updateAll, recheckAll, upgradeSelected).
SummaryIsTrue ==
    \A r \in Runs : stage[r] = "ended" =>
        /\ \A d \in plan[r] : mark[r][d] \in Final
        /\ failed[r] = Cardinality({d \in Devices : mark[r][d] = "error"})

\* A batch ends, and the button comes back.
RunEnds == \A r \in Runs : stage[r] = "running" ~> stage[r] = "ended"
================================================================================
