----------------------------- MODULE UpdaterProofs -----------------------------
(***************************************************************************)
(* Theorems about Updater, for every number of update tasks and versions.  *)
(* What api, worker, web, the schema and VERSION look like to each other   *)
(* depends on where the update is; UpdaterInv spells that out.             *)
(***************************************************************************)
EXTENDS Updater, TLAPS

\* The phases in which an update acts; "recover" is left out: the state is "failed" by
\* then, so the next update may begin while the stranded containers are started.
Acting == {"scheduled", "dump", "pull", "api", "health", "front", "prune"}

\* One update acts at a time, and /update can tell.
OneUpdate ==
    /\ \A f, g \in Flows : flow[f] \in Acting /\ flow[g] \in Acting => f = g
    /\ \A f \in Flows : flow[f] \in Acting \ {"scheduled"} => Busy

\* An api that serves has migrated the database to its own version.
ServingIsMigrated == status["api"] = "running" => image["api"] = schema

\* The update that waits for api has installed it; worker and web follow a database
\* that is there, and so does VERSION.
UpdateIsInstalled == \A f \in Flows : flow[f] = "health" => image["api"] = target[f]
FrontFollows ==
    /\ version <= schema
    /\ \A s \in Front : image[s] <= schema
    /\ \A f \in Flows : flow[f] = "front" => target[f] <= schema

Waiting == \E f \in Flows : flow[f] = "health"

\* api starts because an update waits for it, or with the version of .env.
StartsKnown ==
    /\ status["api"] \notin {"created", "exited"}
    /\ status["api"] = "starting" => Waiting \/ image["api"] = version
VersionFollows == version >= schema \/ (status["api"] = "running" /\ Waiting)

\* Worker and web run or are left stopped, and then a failed run is about to start them.
FrontIsLeft ==
    /\ \A s \in Front : status[s] \in {"running", "created", "exited"}
    /\ \A s \in Front : status[s] # "running" => \E f \in Flows : flow[f] = "recover"

\* api starts because an update waits for it, so the schema of a run that makes its
\* dump is the one it began with.
StartsWaited == status["api"] \notin {"created", "exited"} /\ (status["api"] = "starting" => Waiting)
DumpsKept ==
    \A f \in Flows :
        /\ flow[f] = "dump" => base[f] = schema
        /\ backup[f] /\ flow[f] \in {"pull", "api", "health", "front", "prune"}
             => base[f] \in dumps

\* One version everywhere that an update has been to: behind its health check in the
\* schema, in .env and in an api that serves, then in worker and web, and so at its end.
ApiIsAt(v) ==
    schema = v /\ version = v /\ image["api"] = v /\ status["api"] = "running"
SuccessFollows ==
    /\ \A f \in Flows : flow[f] \in {"front", "prune"} => ApiIsAt(target[f])
    /\ \A f \in Flows : flow[f] = "prune" => \A s \in Front : image[s] = target[f]
    /\ state = "success" => schema = version /\ \A s \in Services : image[s] = version

\* The inductive invariant, each part where its environment is.
UpdaterInv ==
    /\ TypeOK
    /\ ServingIsMigrated
    /\ Without({"double"}) => OneUpdate /\ UpdateIsInstalled /\ FrontFollows
    /\ Without({"double", "timeout", "api_strands", "env_fails", "crash"})
         => StartsKnown /\ VersionFollows
    /\ Without({"double", "env_fails"}) => SuccessFollows
    /\ Without({"start_fails", "crash", "compose_up"}) => FrontIsLeft
    /\ Without({"double", "timeout", "api_strands", "dump_fails", "crash", "compose_up"})
         => StartsWaited /\ DumpsKept

--------------------------------------------------------------------------------

\* The locals of a task keep their types when it ends.
LEMMA ForgetTypes ==
  ASSUME TypeOK, NEW fs, Forget(fs)
  PROVE  target' \in [Flows -> Versions] /\ backup' \in [Flows -> BOOLEAN] /\ base' \in [Flows -> Versions]
<1>1. 1 \in Versions
  BY VersionAssumption DEF Versions
<1> QED
  BY <1>1 DEF TypeOK, Forget

\* Every step keeps the types.
LEMMA TypeStep ==
  ASSUME TypeOK, Step
  PROVE  TypeOK'
<1> USE VersionAssumption DEF TypeOK, UpdateState, FlowPhases, Versions, Services, Front, containers
<1>1. ASSUME NEW f \in Flows, NEW v \in Versions, NEW b \in BOOLEAN, TriggerUpdate(f, v, b)
      PROVE  TypeOK'
  BY <1>1 DEF TriggerUpdate, To
<1>2. ASSUME NEW f \in Flows, RunUpdate(f) PROVE TypeOK'
  <2>1. CASE Start(f)
    BY <2>1 DEF Start, To
  <2>2. CASE BackupPostgres(f)
    BY <2>2 DEF BackupPostgres, To, Fail
  <2>3. CASE Pull(f)
    BY <2>3 DEF Pull, To, Fail
  <2>4. CASE RecreateApi(f)
    BY <2>4 DEF RecreateApi, Recreated, To, Fail
  <2>5. CASE HealthOk(f)
    BY <2>5 DEF HealthOk, To, Fail
  <2>6. CASE HealthTimeout(f)
    BY <2>6 DEF HealthTimeout, Fail, To
  <2>7. CASE RecreateFront(f)
    BY <2>7 DEF RecreateFront, To, Fail
  <2>8. CASE Prune(f)
    BY <2>8, ForgetTypes DEF Prune, To
  <2>9. CASE Recover(f)
    BY <2>9, ForgetTypes DEF Recover, AreStarted, Stranded, To
  <2> QED
    BY <1>2, <2>1, <2>2, <2>3, <2>4, <2>5, <2>6, <2>7, <2>8, <2>9 DEF RunUpdate
<1>3. CASE StartApi
  BY <1>3 DEF StartApi
<1>4. CASE Crash
  BY <1>4 DEF Crash, Forget
<1>5. CASE ComposeUp
  BY <1>5 DEF ComposeUp
<1> QED
  BY <1>1, <1>2, <1>3, <1>4, <1>5 DEF Step

\* api serves only after it has migrated, and nothing else changes the schema.
LEMMA ServingStep ==
  ASSUME TypeOK, ServingIsMigrated, Step
  PROVE  ServingIsMigrated'
<1> USE DEF TypeOK, ServingIsMigrated, Services, Front, containers
<1>1. ASSUME NEW f \in Flows, NEW v \in Versions, NEW b \in BOOLEAN, TriggerUpdate(f, v, b)
      PROVE  ServingIsMigrated'
  BY <1>1 DEF TriggerUpdate, To
<1>2. ASSUME NEW f \in Flows, RunUpdate(f) PROVE ServingIsMigrated'
  <2>1. CASE Start(f)
    BY <2>1 DEF Start, To
  <2>2. CASE BackupPostgres(f)
    BY <2>2 DEF BackupPostgres, To, Fail
  <2>3. CASE Pull(f)
    BY <2>3 DEF Pull, To, Fail
  <2>4. CASE RecreateApi(f)
    BY <2>4 DEF RecreateApi, Recreated, To, Fail
  <2>5. CASE HealthOk(f)
    BY <2>5 DEF HealthOk, To, Fail
  <2>6. CASE HealthTimeout(f)
    BY <2>6 DEF HealthTimeout, Fail, To
  <2>7. CASE RecreateFront(f)
    BY <2>7 DEF RecreateFront, To, Fail
  <2>8. CASE Prune(f)
    BY <2>8 DEF Prune, To, Forget
  <2>9. CASE Recover(f)
    BY <2>9 DEF Recover, AreStarted, Stranded, To, Forget
  <2> QED
    BY <1>2, <2>1, <2>2, <2>3, <2>4, <2>5, <2>6, <2>7, <2>8, <2>9 DEF RunUpdate
<1>3. CASE StartApi
  BY <1>3 DEF StartApi
<1>4. CASE Crash
  BY <1>4 DEF Crash, Forget
<1>5. CASE ComposeUp
  BY <1>5 DEF ComposeUp
<1> QED
  BY <1>1, <1>2, <1>3, <1>4, <1>5 DEF Step

\* An update that acts is scheduled or busy, and no other is accepted meanwhile.
LEMMA OneUpdateStep ==
  ASSUME TypeOK, OneUpdate, Without({"double"}), Step
  PROVE  OneUpdate'
<1> USE DEF TypeOK, OneUpdate, Without, Acting, Busy, UpdateState, FlowPhases
<1>1. ASSUME NEW f \in Flows, NEW v \in Versions, NEW b \in BOOLEAN, TriggerUpdate(f, v, b)
      PROVE  OneUpdate'
  BY <1>1 DEF TriggerUpdate, To
<1>2. ASSUME NEW f \in Flows, RunUpdate(f) PROVE OneUpdate'
  <2>1. CASE Start(f)
    BY <2>1 DEF Start, To
  <2>2. CASE BackupPostgres(f)
    BY <2>2 DEF BackupPostgres, To, Fail
  <2>3. CASE Pull(f)
    BY <2>3 DEF Pull, To, Fail
  <2>4. CASE RecreateApi(f)
    BY <2>4 DEF RecreateApi, Recreated, To, Fail
  <2>5. CASE HealthOk(f)
    BY <2>5 DEF HealthOk, To, Fail
  <2>6. CASE HealthTimeout(f)
    BY <2>6 DEF HealthTimeout, Fail, To
  <2>7. CASE RecreateFront(f)
    BY <2>7 DEF RecreateFront, To, Fail
  <2>8. CASE Prune(f)
    BY <2>8 DEF Prune, To, Forget
  <2>9. CASE Recover(f)
    BY <2>9 DEF Recover, AreStarted, Stranded, To, Forget
  <2> QED
    BY <1>2, <2>1, <2>2, <2>3, <2>4, <2>5, <2>6, <2>7, <2>8, <2>9 DEF RunUpdate
<1>3. CASE StartApi
  BY <1>3 DEF StartApi
<1>4. CASE Crash
  BY <1>4 DEF Crash, Forget
<1>5. CASE ComposeUp
  BY <1>5 DEF ComposeUp
<1> QED
  BY <1>1, <1>2, <1>3, <1>4, <1>5 DEF Step

\* While an update waits for api nobody else replaces it.
LEMMA InstalledStep ==
  ASSUME TypeOK, OneUpdate, UpdateIsInstalled, Step
  PROVE  UpdateIsInstalled'
<1> USE DEF TypeOK, OneUpdate, UpdateIsInstalled, Acting, Services, Front, containers
<1>1. ASSUME NEW f \in Flows, NEW v \in Versions, NEW b \in BOOLEAN, TriggerUpdate(f, v, b)
      PROVE  UpdateIsInstalled'
  BY <1>1 DEF TriggerUpdate, To
<1>2. ASSUME NEW f \in Flows, RunUpdate(f) PROVE UpdateIsInstalled'
  <2>1. CASE Start(f)
    BY <2>1 DEF Start, To
  <2>2. CASE BackupPostgres(f)
    BY <2>2 DEF BackupPostgres, To, Fail
  <2>3. CASE Pull(f)
    BY <2>3 DEF Pull, To, Fail
  <2>4. CASE RecreateApi(f)
    BY <2>4 DEF RecreateApi, Recreated, To, Fail
  <2>5. CASE HealthOk(f)
    BY <2>5 DEF HealthOk, To, Fail
  <2>6. CASE HealthTimeout(f)
    BY <2>6 DEF HealthTimeout, Fail, To
  <2>7. CASE RecreateFront(f)
    BY <2>7 DEF RecreateFront, To, Fail
  <2>8. CASE Prune(f)
    BY <2>8 DEF Prune, To, Forget
  <2>9. CASE Recover(f)
    BY <2>9 DEF Recover, AreStarted, Stranded, To, Forget
  <2> QED
    BY <1>2, <2>1, <2>2, <2>3, <2>4, <2>5, <2>6, <2>7, <2>8, <2>9 DEF RunUpdate
<1>3. CASE StartApi
  BY <1>3 DEF StartApi
<1>4. CASE Crash
  BY <1>4 DEF Crash, Forget
<1>5. CASE ComposeUp
  BY <1>5 DEF ComposeUp
<1> QED
  BY <1>1, <1>2, <1>3, <1>4, <1>5 DEF Step

\* The front and VERSION move to what api serves; the schema does not go back.
LEMMA FrontStep ==
  ASSUME TypeOK, ServingIsMigrated, UpdateIsInstalled, FrontFollows, Step
  PROVE  FrontFollows'
<1> USE VersionAssumption DEF TypeOK, ServingIsMigrated, UpdateIsInstalled, FrontFollows, Versions, Services, Front, containers
<1>1. ASSUME NEW f \in Flows, NEW v \in Versions, NEW b \in BOOLEAN, TriggerUpdate(f, v, b)
      PROVE  FrontFollows'
  BY <1>1 DEF TriggerUpdate, To
<1>2. ASSUME NEW f \in Flows, RunUpdate(f) PROVE FrontFollows'
  <2>1. CASE Start(f)
    BY <2>1 DEF Start, To
  <2>2. CASE BackupPostgres(f)
    BY <2>2 DEF BackupPostgres, To, Fail
  <2>3. CASE Pull(f)
    BY <2>3 DEF Pull, To, Fail
  <2>4. CASE RecreateApi(f)
    BY <2>4 DEF RecreateApi, Recreated, To, Fail
  <2>5. CASE HealthOk(f)
    BY <2>5 DEF HealthOk, To, Fail
  <2>6. CASE HealthTimeout(f)
    BY <2>6 DEF HealthTimeout, Fail, To
  <2>7. CASE RecreateFront(f)
    BY <2>7 DEF RecreateFront, To, Fail
  <2>8. CASE Prune(f)
    BY <2>8 DEF Prune, To, Forget
  <2>9. CASE Recover(f)
    BY <2>9 DEF Recover, AreStarted, Stranded, To, Forget
  <2> QED
    BY <1>2, <2>1, <2>2, <2>3, <2>4, <2>5, <2>6, <2>7, <2>8, <2>9 DEF RunUpdate
<1>3. CASE StartApi
  BY <1>3 DEF StartApi
<1>4. CASE Crash
  BY <1>4 DEF Crash, Forget
<1>5. CASE ComposeUp
  BY <1>5 DEF ComposeUp
<1> QED
  BY <1>1, <1>2, <1>3, <1>4, <1>5 DEF Step

\* api starts for the update that waits, or with the version of .env.
LEMMA StartsStep ==
  ASSUME TypeOK, OneUpdate, StartsKnown,
         Without({"timeout", "api_strands", "crash"}), Step
  PROVE  StartsKnown'
<1> USE DEF TypeOK, OneUpdate, StartsKnown, Waiting, Without, Acting, Services, Front, containers
<1>1. ASSUME NEW f \in Flows, NEW v \in Versions, NEW b \in BOOLEAN, TriggerUpdate(f, v, b)
      PROVE  StartsKnown'
  BY <1>1 DEF TriggerUpdate, To
<1>2. ASSUME NEW f \in Flows, RunUpdate(f) PROVE StartsKnown'
  <2>1. CASE Start(f)
    BY <2>1 DEF Start, To
  <2>2. CASE BackupPostgres(f)
    BY <2>2 DEF BackupPostgres, To, Fail
  <2>3. CASE Pull(f)
    BY <2>3 DEF Pull, To, Fail
  <2>4. CASE RecreateApi(f)
    BY <2>4 DEF RecreateApi, Recreated, To, Fail
  <2>5. CASE HealthOk(f)
    BY <2>5 DEF HealthOk, To, Fail
  <2>6. CASE HealthTimeout(f)
    BY <2>6 DEF HealthTimeout, Fail, To
  <2>7. CASE RecreateFront(f)
    BY <2>7 DEF RecreateFront, To, Fail
  <2>8. CASE Prune(f)
    BY <2>8 DEF Prune, To, Forget
  <2>9. CASE Recover(f)
    BY <2>9 DEF Recover, AreStarted, Stranded, To, Forget
  <2> QED
    BY <1>2, <2>1, <2>2, <2>3, <2>4, <2>5, <2>6, <2>7, <2>8, <2>9 DEF RunUpdate
<1>3. CASE StartApi
  BY <1>3 DEF StartApi
<1>4. CASE Crash
  BY <1>4 DEF Crash, Forget
<1>5. CASE ComposeUp
  BY <1>5 DEF ComposeUp
<1> QED
  BY <1>1, <1>2, <1>3, <1>4, <1>5 DEF Step

\* VERSION is behind only while the update that migrates has yet to record it.
LEMMA VersionStep ==
  ASSUME TypeOK, OneUpdate, ServingIsMigrated, UpdateIsInstalled,
         StartsKnown, VersionFollows, Without({"timeout", "env_fails", "crash"}), Step
  PROVE  VersionFollows'
<1> USE VersionAssumption DEF TypeOK, OneUpdate, ServingIsMigrated, UpdateIsInstalled, StartsKnown, VersionFollows,
    Waiting, Without, Acting, Versions, Services, Front, containers
<1>1. ASSUME NEW f \in Flows, NEW v \in Versions, NEW b \in BOOLEAN, TriggerUpdate(f, v, b)
      PROVE  VersionFollows'
  BY <1>1 DEF TriggerUpdate, To
<1>2. ASSUME NEW f \in Flows, RunUpdate(f) PROVE VersionFollows'
  <2>1. CASE Start(f)
    BY <2>1 DEF Start, To
  <2>2. CASE BackupPostgres(f)
    BY <2>2 DEF BackupPostgres, To, Fail
  <2>3. CASE Pull(f)
    BY <2>3 DEF Pull, To, Fail
  <2>4. CASE RecreateApi(f)
    BY <2>4 DEF RecreateApi, Recreated, To, Fail
  <2>5. CASE HealthOk(f)
    BY <2>5 DEF HealthOk, To, Fail
  <2>6. CASE HealthTimeout(f)
    BY <2>6 DEF HealthTimeout, Fail, To
  <2>7. CASE RecreateFront(f)
    BY <2>7 DEF RecreateFront, To, Fail
  <2>8. CASE Prune(f)
    BY <2>8 DEF Prune, To, Forget
  <2>9. CASE Recover(f)
    BY <2>9 DEF Recover, AreStarted, Stranded, To, Forget
  <2> QED
    BY <1>2, <2>1, <2>2, <2>3, <2>4, <2>5, <2>6, <2>7, <2>8, <2>9 DEF RunUpdate
<1>3. CASE StartApi
  BY <1>3 DEF StartApi
<1>4. CASE Crash
  BY <1>4 DEF Crash, Forget
<1>5. CASE ComposeUp
  BY <1>5 DEF ComposeUp
<1> QED
  BY <1>1, <1>2, <1>3, <1>4, <1>5 DEF Step

\* What a failed run left created is started by its recovery.
LEMMA FrontIsLeftStep ==
  ASSUME TypeOK, FrontIsLeft, Without({"start_fails", "crash", "compose_up"}), Step
  PROVE  FrontIsLeft'
<1> USE DEF TypeOK, FrontIsLeft, Without, Services, Front, containers
<1>1. ASSUME NEW f \in Flows, NEW v \in Versions, NEW b \in BOOLEAN, TriggerUpdate(f, v, b)
      PROVE  FrontIsLeft'
  BY <1>1 DEF TriggerUpdate, To
<1>2. ASSUME NEW f \in Flows, RunUpdate(f) PROVE FrontIsLeft'
  <2>1. CASE Start(f)
    BY <2>1 DEF Start, To
  <2>2. CASE BackupPostgres(f)
    BY <2>2 DEF BackupPostgres, To, Fail
  <2>3. CASE Pull(f)
    BY <2>3 DEF Pull, To, Fail
  <2>4. CASE RecreateApi(f)
    BY <2>4 DEF RecreateApi, Recreated, To, Fail
  <2>5. CASE HealthOk(f)
    BY <2>5 DEF HealthOk, To, Fail
  <2>6. CASE HealthTimeout(f)
    BY <2>6 DEF HealthTimeout, Fail, To
  <2>7. CASE RecreateFront(f)
    BY <2>7 DEF RecreateFront, To, Fail
  <2>8. CASE Prune(f)
    BY <2>8 DEF Prune, To, Forget
  <2>9. CASE Recover(f)
    BY <2>9 DEF Recover, AreStarted, Stranded, To, Forget
  <2> QED
    BY <1>2, <2>1, <2>2, <2>3, <2>4, <2>5, <2>6, <2>7, <2>8, <2>9 DEF RunUpdate
<1>3. CASE StartApi
  BY <1>3 DEF StartApi
<1>4. CASE Crash
  BY <1>4 DEF Crash, Forget
<1>5. CASE ComposeUp
  BY <1>5 DEF ComposeUp
<1> QED
  BY <1>1, <1>2, <1>3, <1>4, <1>5 DEF Step

\* api starts for the update that waits.
LEMMA WaitedStep ==
  ASSUME TypeOK, OneUpdate, StartsWaited,
         Without({"timeout", "api_strands", "crash", "compose_up"}), Step
  PROVE  StartsWaited'
<1> USE DEF TypeOK, OneUpdate, StartsWaited, Waiting, Without, Acting, Services, Front, containers
<1>1. ASSUME NEW f \in Flows, NEW v \in Versions, NEW b \in BOOLEAN, TriggerUpdate(f, v, b)
      PROVE  StartsWaited'
  BY <1>1 DEF TriggerUpdate, To
<1>2. ASSUME NEW f \in Flows, RunUpdate(f) PROVE StartsWaited'
  <2>1. CASE Start(f)
    BY <2>1 DEF Start, To
  <2>2. CASE BackupPostgres(f)
    BY <2>2 DEF BackupPostgres, To, Fail
  <2>3. CASE Pull(f)
    BY <2>3 DEF Pull, To, Fail
  <2>4. CASE RecreateApi(f)
    BY <2>4 DEF RecreateApi, Recreated, To, Fail
  <2>5. CASE HealthOk(f)
    BY <2>5 DEF HealthOk, To, Fail
  <2>6. CASE HealthTimeout(f)
    BY <2>6 DEF HealthTimeout, Fail, To
  <2>7. CASE RecreateFront(f)
    BY <2>7 DEF RecreateFront, To, Fail
  <2>8. CASE Prune(f)
    BY <2>8 DEF Prune, To, Forget
  <2>9. CASE Recover(f)
    BY <2>9 DEF Recover, AreStarted, Stranded, To, Forget
  <2> QED
    BY <1>2, <2>1, <2>2, <2>3, <2>4, <2>5, <2>6, <2>7, <2>8, <2>9 DEF RunUpdate
<1>3. CASE StartApi
  BY <1>3 DEF StartApi
<1>4. CASE Crash
  BY <1>4 DEF Crash, Forget
<1>5. CASE ComposeUp
  BY <1>5 DEF ComposeUp
<1> QED
  BY <1>1, <1>2, <1>3, <1>4, <1>5 DEF Step

\* What an update found behind its health check stays until it ends.
LEMMA SuccessStep ==
  ASSUME TypeOK, ServingIsMigrated, OneUpdate, UpdateIsInstalled, SuccessFollows,
         Without({"env_fails"}), Step
  PROVE  SuccessFollows'
<1> USE DEF TypeOK, OneUpdate, SuccessFollows, ApiIsAt, Without, Acting, Services, Front, containers
<1>1. ASSUME NEW f \in Flows, NEW v \in Versions, NEW b \in BOOLEAN, TriggerUpdate(f, v, b)
      PROVE  SuccessFollows'
  BY <1>1 DEF TriggerUpdate, To
<1>2. ASSUME NEW f \in Flows, RunUpdate(f) PROVE SuccessFollows'
  <2>1. CASE Start(f)
    BY <2>1 DEF Start, To
  <2>2. CASE BackupPostgres(f)
    BY <2>2 DEF BackupPostgres, To, Fail
  <2>3. CASE Pull(f)
    BY <2>3 DEF Pull, To, Fail
  <2>4. CASE RecreateApi(f)
    BY <2>4 DEF RecreateApi, Recreated, To, Fail
  <2>5. CASE HealthOk(f)
    BY <2>5 DEF HealthOk, To, Fail, ServingIsMigrated, UpdateIsInstalled
  <2>6. CASE HealthTimeout(f)
    BY <2>6 DEF HealthTimeout, Fail, To
  <2>7. CASE RecreateFront(f)
    BY <2>7 DEF RecreateFront, To, Fail
  <2>8. CASE Prune(f)
    BY <2>8 DEF Prune, To, Forget
  <2>9. CASE Recover(f)
    BY <2>9 DEF Recover, AreStarted, Stranded, To, Forget
  <2> QED
    BY <1>2, <2>1, <2>2, <2>3, <2>4, <2>5, <2>6, <2>7, <2>8, <2>9 DEF RunUpdate
<1>3. CASE StartApi
  BY <1>3 DEF StartApi
<1>4. CASE Crash
  BY <1>4 DEF Crash, Forget
<1>5. CASE ComposeUp
  BY <1>5 DEF ComposeUp
<1> QED
  BY <1>1, <1>2, <1>3, <1>4, <1>5 DEF Step

\* No migration runs while the dump is made.
LEMMA DumpStep ==
  ASSUME TypeOK, OneUpdate, StartsWaited, DumpsKept, Without({"dump_fails"}), Step
  PROVE  DumpsKept'
<1> USE DEF TypeOK, OneUpdate, StartsWaited, DumpsKept, Waiting, Without, Acting, Services, Front, containers
<1>1. ASSUME NEW f \in Flows, NEW v \in Versions, NEW b \in BOOLEAN, TriggerUpdate(f, v, b)
      PROVE  DumpsKept'
  BY <1>1 DEF TriggerUpdate, To
<1>2. ASSUME NEW f \in Flows, RunUpdate(f) PROVE DumpsKept'
  <2>1. CASE Start(f)
    BY <2>1 DEF Start, To
  <2>2. CASE BackupPostgres(f)
    BY <2>2 DEF BackupPostgres, To, Fail
  <2>3. CASE Pull(f)
    BY <2>3 DEF Pull, To, Fail
  <2>4. CASE RecreateApi(f)
    BY <2>4 DEF RecreateApi, Recreated, To, Fail
  <2>5. CASE HealthOk(f)
    BY <2>5 DEF HealthOk, To, Fail
  <2>6. CASE HealthTimeout(f)
    BY <2>6 DEF HealthTimeout, Fail, To
  <2>7. CASE RecreateFront(f)
    BY <2>7 DEF RecreateFront, To, Fail
  <2>8. CASE Prune(f)
    BY <2>8 DEF Prune, To, Forget
  <2>9. CASE Recover(f)
    BY <2>9 DEF Recover, AreStarted, Stranded, To, Forget
  <2> QED
    BY <1>2, <2>1, <2>2, <2>3, <2>4, <2>5, <2>6, <2>7, <2>8, <2>9 DEF RunUpdate
<1>3. CASE StartApi
  BY <1>3 DEF StartApi
<1>4. CASE Crash
  BY <1>4 DEF Crash, Forget
<1>5. CASE ComposeUp
  BY <1>5 DEF ComposeUp
<1> QED
  BY <1>1, <1>2, <1>3, <1>4, <1>5 DEF Step
--------------------------------------------------------------------------------

LEMMA UpdaterInit == Init => UpdaterInv
BY VersionAssumption
   DEF Init, UpdaterInv, TypeOK, UpdateState, FlowPhases, Versions, Services, Front,
       ServingIsMigrated, OneUpdate, Acting, UpdateIsInstalled, FrontFollows, StartsKnown,
       VersionFollows, FrontIsLeft, StartsWaited, DumpsKept, SuccessFollows

\* The environment does not change, so each part is kept where it is claimed.
LEMMA UpdaterStep == UpdaterInv /\ [Next]_allVars => UpdaterInv'
<1> SUFFICES ASSUME UpdaterInv, [Next]_allVars PROVE UpdaterInv'
  OBVIOUS
<1>1. CASE Step /\ UNCHANGED env
  <2>1. TypeOK' /\ ServingIsMigrated'
    BY <1>1, TypeStep, ServingStep DEF UpdaterInv
  <2>2. ASSUME Without({"double"})'
        PROVE  (OneUpdate /\ UpdateIsInstalled /\ FrontFollows)'
    <3>1. Without({"double"}) /\ OneUpdate /\ UpdateIsInstalled /\ FrontFollows
      BY <1>1, <2>2 DEF UpdaterInv, Without
    <3> QED
      BY <1>1, <3>1, OneUpdateStep, InstalledStep, FrontStep DEF UpdaterInv
  <2>3. ASSUME Without({"double", "timeout", "api_strands", "env_fails", "crash"})'
        PROVE  (StartsKnown /\ VersionFollows)'
    <3>1. OneUpdate /\ UpdateIsInstalled /\ StartsKnown /\ VersionFollows
      BY <1>1, <2>3 DEF UpdaterInv, Without
    <3>2. /\ Without({"timeout", "api_strands", "crash"})
          /\ Without({"timeout", "env_fails", "crash"})
      BY <1>1, <2>3 DEF Without
    <3> QED
      BY <1>1, <3>1, <3>2, StartsStep, VersionStep DEF UpdaterInv
  <2>4. ASSUME Without({"start_fails", "crash", "compose_up"})'
        PROVE  FrontIsLeft'
    BY <1>1, <2>4, FrontIsLeftStep DEF UpdaterInv, Without
  <2>5. ASSUME Without({"double", "timeout", "api_strands", "dump_fails", "crash", "compose_up"})'
        PROVE  (StartsWaited /\ DumpsKept)'
    <3>1. OneUpdate /\ StartsWaited /\ DumpsKept
      BY <1>1, <2>5 DEF UpdaterInv, Without
    <3>2. /\ Without({"timeout", "api_strands", "crash", "compose_up"})
          /\ Without({"dump_fails"})
      BY <1>1, <2>5 DEF Without
    <3> QED
      BY <1>1, <3>1, <3>2, WaitedStep, DumpStep DEF UpdaterInv
  <2>6. ASSUME Without({"double", "env_fails"})'
        PROVE  SuccessFollows'
    <3>1. OneUpdate /\ UpdateIsInstalled /\ SuccessFollows /\ Without({"env_fails"})
      BY <1>1, <2>6 DEF UpdaterInv, Without
    <3> QED
      BY <1>1, <3>1, SuccessStep DEF UpdaterInv
  <2> QED
    BY <2>1, <2>2, <2>3, <2>4, <2>5, <2>6 DEF UpdaterInv
<1>2. CASE UNCHANGED allVars
  BY <1>2 DEF allVars, vars, containers, UpdaterInv, TypeOK, ServingIsMigrated, Without,
       OneUpdate, Busy, UpdateIsInstalled, FrontFollows, StartsKnown, Waiting, VersionFollows,
       FrontIsLeft, StartsWaited, DumpsKept, SuccessFollows, ApiIsAt
<1> QED
  BY <1>1, <1>2 DEF Next

LEMMA UpdaterInvariant == Spec => []UpdaterInv
BY UpdaterInit, UpdaterStep, PTL DEF Spec

--------------------------------------------------------------------------------

\* The type invariant of the updater and of what it manages, in every environment.
THEOREM UpdaterTypes == Spec => []TypeOK
<1>1. UpdaterInv => TypeOK
  BY DEF UpdaterInv
<1> QED
  BY <1>1, UpdaterInvariant, PTL

\* "api first, alone" of _run_update: worker and web never run ahead of the database,
\* however an update fails, dies or is followed by another one, or by the operator.
THEOREM FrontStaysBehind == Spec => []FrontNotAheadOfSchema
<1>1. UpdaterInv => FrontNotAheadOfSchema
  BY DEF UpdaterInv, FrontNotAheadOfSchema, FrontFollows
<1> QED
  BY <1>1, UpdaterInvariant, PTL

\* _start_stranded_containers: worker or web is down only while a failed run is about
\* to start it again, also when two runs are accepted together.
THEOREM FrontIsKept == Spec => []FrontKeepsRunning
<1>1. UpdaterInv => FrontKeepsRunning
  BY DEF UpdaterInv, FrontKeepsRunning, FrontIsLeft
<1> QED
  BY <1>1, UpdaterInvariant, PTL

\* _persist_version: between updates .env names no version older than the schema.
THEOREM VersionIsKept == Spec => []VersionKeepsUp
<1>1. UpdaterInv => VersionKeepsUp
  <2> SUFFICES ASSUME UpdaterInv,
                      Without({"double", "timeout", "api_strands", "env_fails", "crash"}),
                      \A f \in Flows : flow[f] \notin {"health", "recover"}
               PROVE  version >= schema
    BY DEF VersionKeepsUp, VersionCoversSchema
  <2> QED
    BY DEF UpdaterInv, VersionFollows, Waiting
<1> QED
  BY <1>1, UpdaterInvariant, PTL

\* _run_update: "success" is one version in the schema, in .env and in every container,
\* whatever earlier updates left half-done.
THEOREM SuccessIsReal == Spec => []SuccessIsWhole
<1>1. UpdaterInv => SuccessIsWhole
  BY DEF UpdaterInv, SuccessIsWhole, SuccessFollows
<1> QED
  BY <1>1, UpdaterInvariant, PTL

\* _backup_postgres: api is replaced only when the dump that was asked for exists, of the
\* schema the update began with.
THEOREM DumpComesFirst == Spec => []DumpedFirst
<1>1. UpdaterInv => DumpedFirst
  BY DEF UpdaterInv, DumpedFirst, BackedUp, DumpsKept
<1> QED
  BY <1>1, UpdaterInvariant, PTL

================================================================================
