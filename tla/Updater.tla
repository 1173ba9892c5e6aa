-------------------------------- MODULE Updater --------------------------------
(***************************************************************************)
(* The self-update of a NetFleet installation: trigger_update, _run_update *)
(* and _start_stranded_containers of updater/main.py, together with the    *)
(* containers, the database schema and the VERSION line of .env they act   *)
(* on.  api runs its migrations when it starts and serves afterwards; an   *)
(* image that is older than the schema cannot start.                       *)
(*                                                                         *)
(* env is what may go wrong around the updater in a behaviour:             *)
(*   "double"      two /update requests arrive before the first one's task *)
(*                 has run its first line                                  *)
(*   "timeout"     a migration outlasts HEALTH_TIMEOUT_SECONDS             *)
(*   "api_strands" `up api` fails with the new container already created   *)
(*   "dump_fails"  pg_dump fails in the middle of the backup pipeline      *)
(*   "start_fails" docker cannot start the containers a failed run left    *)
(*   "env_fails"   .env is missing or cannot be written                    *)
(*   "older"       a version older than the installed one is asked for     *)
(*   "crash"       the updater container restarts                          *)
(*   "compose_up"  the operator runs `docker compose up` on the host       *)
(***************************************************************************)
EXTENDS Naturals, FiniteSets

CONSTANTS Flows, MaxVersion, Envs

EnvKinds == {"double", "timeout", "api_strands", "dump_fails", "start_fails", "env_fails",
             "older", "crash", "compose_up"}

ASSUME VersionAssumption == MaxVersion \in Nat \ {0}
ASSUME EnvAssumption == Envs \subseteq SUBSET EnvKinds

Versions == 1 .. MaxVersion
Front == {"worker", "web"}
Services == Front \cup {"api"}

VARIABLES
    env,     \* what may go wrong, the same throughout a behaviour
    state,   \* _state.state
    flow,    \* where each background task of /update is
    target,  \* the version it installs
    backup,  \* whether a backup was asked for and AUTO_BACKUP_ON_UPDATE is set
    base,    \* history: the schema when the task started
    image,   \* the version of each container
    status,  \* what each container does
    schema,  \* the version the database is migrated to
    version, \* VERSION in .env
    dumps    \* schema versions of which a usable dump exists

containers == <<image, status, schema>>
vars == <<state, flow, target, backup, base, containers, version, dumps>>
allVars == <<env, vars>>

UpdateState == {"idle", "backing_up", "pulling", "recreating", "health_checking",
                "success", "failed"}
FlowPhases == {"none", "scheduled", "dump", "pull", "api", "health", "front", "prune",
               "recover"}

Init ==
    /\ env \in Envs
    /\ state = "idle"
    /\ flow = [f \in Flows |-> "none"]
    /\ target = [f \in Flows |-> 1]
    /\ backup = [f \in Flows |-> FALSE]
    /\ base = [f \in Flows |-> 1]
    /\ image = [s \in Services |-> 1]
    /\ status = [s \in Services |-> "running"]
    /\ schema = 1
    /\ version = 1
    /\ dumps = {}

--------------------------------------------------------------------------------
(* The endpoint and the background task *)

\* The states in which /update answers 409.
Busy == state \in {"backing_up", "pulling", "recreating", "health_checking"}

\* The locals of a task go with it.
Forget(fs) ==
    /\ target' = [f \in Flows |-> IF f \in fs THEN 1 ELSE target[f]]
    /\ backup' = [f \in Flows |-> IF f \in fs THEN FALSE ELSE backup[f]]
    /\ base' = [f \in Flows |-> IF f \in fs THEN 1 ELSE base[f]]

To(f, phase, st) == flow' = [flow EXCEPT ![f] = phase] /\ state' = st

\* The check, then create_task.  The version is not checked; the release poll offers
\* newer ones only.
TriggerUpdate(f, v, b) ==
    /\ flow[f] = "none"
    /\ ~Busy
    /\ "double" \in env \/ \A g \in Flows : flow[g] # "scheduled"
    /\ "older" \in env \/ v >= version
    /\ target' = [target EXCEPT ![f] = v]
    /\ backup' = [backup EXCEPT ![f] = b]
    /\ To(f, "scheduled", state)
    /\ UNCHANGED <<base, containers, version, dumps>>

\* _run_update up to its first await.
Start(f) ==
    /\ flow[f] = "scheduled"
    /\ base' = [base EXCEPT ![f] = schema]
    /\ IF backup[f] THEN To(f, "dump", "backing_up") ELSE To(f, "pull", "pulling")
    /\ UNCHANGED <<target, backup, containers, version, dumps>>

\* The exception handler: the state first, then _start_stranded_containers.
Fail(f) == To(f, "recover", "failed")

\* Mutant of BackupPostgres: a failed backup is logged and the update goes on.
BackupBestEffort(f) ==
    /\ flow[f] = "dump"
    /\ \/ dumps' = dumps \cup {schema}
       \/ UNCHANGED dumps
    /\ To(f, "pull", "pulling")
    /\ UNCHANGED <<target, backup, base, containers, version>>

\* _backup_postgres.  The status of `pg_dump | gzip` is that of gzip, so a pg_dump
\* that failed goes unnoticed.
BackupPostgres(f) ==
    /\ flow[f] = "dump"
    /\ \/ dumps' = dumps \cup {schema} /\ To(f, "pull", "pulling")
       \/ "dump_fails" \in env /\ UNCHANGED dumps /\ To(f, "pull", "pulling")
       \/ UNCHANGED dumps /\ Fail(f)
    /\ UNCHANGED <<target, backup, base, containers, version>>

Pull(f) ==
    /\ flow[f] = "pull"
    /\ To(f, "api", "recreating") \/ Fail(f)
    /\ UNCHANGED <<target, backup, base, containers, version, dumps>>

\* `up -d` replaces the container of s unless it already runs that version.
Recreated(s, v, st) ==
    IF image[s] = v /\ status[s] = "running"
      THEN UNCHANGED <<image, status>>
      ELSE image' = [image EXCEPT ![s] = v] /\ status' = [status EXCEPT ![s] = st]

\* Mutant of RecreateApi: all three services in one `up`.
RecreateAll(f) ==
    /\ flow[f] = "api"
    /\ image' = [s \in Services |-> target[f]]
    /\ status' = [status EXCEPT !["api"] = "starting"]
    /\ To(f, "health", "health_checking")
    /\ UNCHANGED <<target, backup, base, schema, version, dumps>>

\* `up -d --no-deps api`.  A failure leaves the old container running or (api_strands)
\* stopped, or the new one created and not started.
RecreateApi(f) ==
    /\ flow[f] = "api"
    /\ \/ Recreated("api", target[f], "starting") /\ To(f, "health", "health_checking")
       \/ UNCHANGED <<image, status>> /\ Fail(f)
       \/ /\ "api_strands" \in env
          /\ \/ Recreated("api", target[f], "created")
             \/ status' = [status EXCEPT !["api"] = "exited"] /\ UNCHANGED image
          /\ Fail(f)
    /\ UNCHANGED <<target, backup, base, schema, version, dumps>>

\* Mutant of HealthOk: VERSION is left for the end of the run.
HealthOkUnrecorded(f) ==
    /\ flow[f] = "health"
    /\ status["api"] = "running"
    /\ To(f, "front", "recreating")
    /\ UNCHANGED <<target, backup, base, containers, version, dumps>>

\* _wait_for_health returns; _persist_version follows without an await.  It skips a
\* .env that is not there and raises when it cannot write.
HealthOk(f) ==
    /\ flow[f] = "health"
    /\ status["api"] = "running"
    /\ \/ version' = target[f] /\ To(f, "front", "recreating")
       \/ "env_fails" \in env /\ UNCHANGED version /\ To(f, "front", "recreating")
       \/ "env_fails" \in env /\ UNCHANGED version /\ Fail(f)
    /\ UNCHANGED <<target, backup, base, containers, dumps>>

\* Mutant of HealthTimeout: the timeout is logged and the update goes on.
HealthTimeoutLogged(f) ==
    /\ flow[f] = "health"
    /\ status["api"] # "running"
    /\ "timeout" \in env \/ status["api"] # "starting"
    /\ To(f, "front", "recreating")
    /\ UNCHANGED <<target, backup, base, containers, version, dumps>>

\* It gives up: api cannot start, or (timeout) is still migrating.
HealthTimeout(f) ==
    /\ flow[f] = "health"
    /\ status["api"] # "running"
    /\ "timeout" \in env \/ status["api"] # "starting"
    /\ Fail(f)
    /\ UNCHANGED <<target, backup, base, containers, version, dumps>>

\* `up -d --no-deps worker web`.  On a failure compose has replaced some of them and
\* not started all of those, and stopped some of the others.
RecreateFront(f) ==
    /\ flow[f] = "front"
    /\ \/ /\ image' = [s \in Services |-> IF s \in Front THEN target[f] ELSE image[s]]
          /\ status' = [s \in Services |-> IF s \in Front THEN "running" ELSE status[s]]
          /\ To(f, "prune", "recreating")
       \/ /\ \E new, cut \in SUBSET Front :
               /\ image' = [s \in Services |-> IF s \in new THEN target[f] ELSE image[s]]
               /\ status' = [s \in Services |->
                               IF s \in new THEN IF s \in cut THEN "created" ELSE "running"
                               ELSE IF s \in cut THEN "exited" ELSE status[s]]
          /\ Fail(f)
    /\ UNCHANGED <<target, backup, base, schema, version, dumps>>

\* A failed prune is logged only.
Prune(f) ==
    /\ flow[f] = "prune"
    /\ To(f, "none", "success")
    /\ Forget({f})
    /\ UNCHANGED <<containers, version, dumps>>

Stranded == {s \in Services : status[s] \in {"created", "exited"}}

\* What `docker start` of some containers leads to.
AreStarted(those) ==
    status' = [s \in Services |-> IF s \notin those THEN status[s]
                                  ELSE IF s = "api" THEN "starting" ELSE "running"]

\* Mutant of Recover: looks for containers in state "exited" only.
RecoverExited(f) ==
    /\ flow[f] = "recover"
    /\ \/ AreStarted({s \in Stranded : status[s] = "exited"})
       \/ "start_fails" \in env /\ UNCHANGED status
    /\ To(f, "none", state)
    /\ Forget({f})
    /\ UNCHANGED <<image, schema, version, dumps>>

\* Mutant of Recover: starts worker and web only.
RecoverFront(f) ==
    /\ flow[f] = "recover"
    /\ \/ AreStarted(Stranded \ {"api"})
       \/ "start_fails" \in env /\ UNCHANGED status
    /\ To(f, "none", state)
    /\ Forget({f})
    /\ UNCHANGED <<image, schema, version, dumps>>

\* _start_stranded_containers: `docker start` of whatever was left created or stopped.
\* An error is logged only.
Recover(f) ==
    /\ flow[f] = "recover"
    /\ \/ AreStarted(Stranded)
       \/ "start_fails" \in env /\ UNCHANGED status
    /\ To(f, "none", state)
    /\ Forget({f})
    /\ UNCHANGED <<image, schema, version, dumps>>

RunUpdate(f) ==
    \/ Start(f) \/ BackupPostgres(f) \/ Pull(f) \/ RecreateApi(f) \/ HealthOk(f)
    \/ HealthTimeout(f) \/ RecreateFront(f) \/ Prune(f) \/ Recover(f)

--------------------------------------------------------------------------------
(* The containers and the operator *)

\* docker-entrypoint.sh: `alembic upgrade head`, then the server.  The migration may
\* fail, as it does when the schema is newer than the image; it is rolled back, and the
\* container restarts for ever.  worker has the same
\* entry point; FrontNotAheadOfSchema says that it never has anything to migrate.
StartApi ==
    /\ status["api"] = "starting"
    /\ \/ /\ image["api"] >= schema
          /\ schema' = image["api"]
          /\ status' = [status EXCEPT !["api"] = "running"]
       \/ /\ image["api"] # schema
          /\ status' = [status EXCEPT !["api"] = "looping"]
          /\ UNCHANGED schema
    /\ UNCHANGED <<state, flow, target, backup, base, image, version, dumps>>

\* _State is in memory only.
Crash ==
    /\ "crash" \in env
    /\ \E f \in Flows : flow[f] # "none"
    /\ state' = "idle"
    /\ flow' = [f \in Flows |-> "none"]
    /\ Forget(Flows)
    /\ UNCHANGED <<containers, version, dumps>>

\* `docker compose up -d` between updates: every service runs the version of .env.
\* worker and web wait for a healthy api, and are left created when compose gives up.
ComposeUp ==
    /\ "compose_up" \in env
    /\ \A f \in Flows : flow[f] = "none"
    /\ image' = [s \in Services |-> version]
    /\ \E front \in {"running", "created"} :
         status' = [s \in Services |->
                      IF image[s] = version /\ s \notin Stranded THEN status[s]
                      ELSE IF s = "api" THEN "starting" ELSE front]
    /\ UNCHANGED <<state, flow, target, backup, base, schema, version, dumps>>

Step ==
    \/ \E f \in Flows, v \in Versions, b \in BOOLEAN : TriggerUpdate(f, v, b)
    \/ \E f \in Flows : RunUpdate(f)
    \/ StartApi
    \/ Crash
    \/ ComposeUp

Next == Step /\ UNCHANGED env

\* The task is driven by the event loop, every command it waits for ends, the health
\* check has a deadline, and a container that is starting starts or fails.
Fairness == WF_vars(StartApi) /\ \A f \in Flows : WF_vars(RunUpdate(f))

Spec == Init /\ [][Next]_allVars /\ Fairness

--------------------------------------------------------------------------------
(* Properties *)

\* The type invariant of the updater and of what it manages.
TypeOK ==
    /\ state \in UpdateState
    /\ flow \in [Flows -> FlowPhases]
    /\ target \in [Flows -> Versions]
    /\ backup \in [Flows -> BOOLEAN]
    /\ base \in [Flows -> Versions]
    /\ image \in [Services -> Versions]
    /\ status \in [Services -> {"running", "starting", "created", "exited", "looping"}]
    /\ schema \in Versions
    /\ version \in Versions
    /\ dumps \subseteq Versions

\* The environment of this behaviour does none of kinds.
Without(kinds) == env \cap kinds = {}

\* The comment at "api first, alone": worker and web move to a version when the
\* database is there, never before.
FrontNotAheadOfSchema ==
    Without({"double"}) => \A s \in Front : image[s] <= schema

\* Until then the old worker and web keep running: one of them is down only while a
\* failed run is about to start it again.
FrontKeepsRunning ==
    Without({"start_fails", "crash", "compose_up"}) =>
      \A s \in Front : status[s] # "running" => \E f \in Flows : flow[f] = "recover"

\* The comment at _persist_version: VERSION is recorded before anything else can fail,
\* so a `docker compose up` after the run cannot bring back an api that is older than
\* the schema.
VersionCoversSchema ==
    (\A f \in Flows : flow[f] \notin {"health", "recover"}) => version >= schema

\* It holds where a migration ends in time, `up api` does not strand a container, .env
\* can be written and the updater is not restarted in the middle of an update.
VersionKeepsUp ==
    Without({"double", "timeout", "api_strands", "env_fails", "crash"}) => VersionCoversSchema

\* An update that is reported as a success has left one version everywhere: in the
\* schema, in .env and in all three containers, also when an earlier migration completed
\* after its health check had given up, or the updater or the operator restarted them.
SuccessIsWhole ==
    Without({"double", "env_fails"}) /\ state = "success" =>
        /\ schema = version
        /\ \A s \in Services : image[s] = version

\* What README.md promises of an update, an "automatic pre-update `pg_dump`": one that
\* was asked to make a backup has a usable dump of the schema it started from before
\* api is replaced.
BackedUp ==
    \A f \in Flows :
        backup[f] /\ flow[f] \in {"api", "health", "front", "prune"} => base[f] \in dumps

\* It holds where pg_dump does not fail unnoticed and no migration that somebody else
\* started is still running.
DumpedFirst ==
    Without({"double", "timeout", "api_strands", "dump_fails", "crash", "compose_up"}) => BackedUp

\* Every update ends, and with every container started that it had stopped or replaced.
UpdateEnds ==
    \A f \in Flows :
        Without({"start_fails", "crash", "compose_up"}) /\ flow[f] # "none" ~>
            flow[f] = "none" /\ Stranded = {}

================================================================================
