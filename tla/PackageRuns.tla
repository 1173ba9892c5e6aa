------------------------------ MODULE PackageRuns ------------------------------
(***************************************************************************)
(* The package operations of one host: start_run, _execute and             *)
(* mark_orphaned_runs of services/packages.py, in the worker processes of  *)
(* the API.  A run is a row of device_package_runs, a background task in   *)
(* the process that accepted the request, and an apt-get on the host that  *)
(* lives on when the task or its connection dies.                          *)
(*                                                                         *)
(* env is what may happen around a run in a behaviour:                     *)
(*   "overlap"  two requests are between their check and their commit      *)
(*   "timeout"  an upgrade outlasts the timeout of its SSH command         *)
(*   "crash"    a worker process dies and is started again                 *)
(***************************************************************************)
EXTENDS Naturals, FiniteSets

CONSTANTS Runs, Workers, Envs

ASSUME WorkersAssumption == IsFiniteSet(Workers) /\ Workers # {}
ASSUME EnvAssumption == Envs \subseteq SUBSET {"overlap", "timeout", "crash"}

VARIABLES
    env,    \* what may happen, the same throughout a behaviour
    up,     \* worker processes that serve requests
    row,    \* the state column of each run, "none" before it is inserted
    task,   \* where the request or the background task of each run is
    owner,  \* the worker it runs in
    apt     \* the package manager each run started on the host

vars == <<up, row, task, owner, apt>>
allVars == <<env, vars>>

\* PackageRunState, and no row.
RowStates == {"none", "running", "succeeded", "failed", "interrupted"}
Final == {"succeeded", "failed", "interrupted"}
Alive == {"checked", "queued", "watching"}

\* The API is starting: no process has run its lifespan yet.
Init ==
    /\ env \in Envs
    /\ up = {}
    /\ row = [r \in Runs |-> "none"]
    /\ task = [r \in Runs |-> "new"]
    /\ owner = [r \in Runs |-> CHOOSE w \in Workers : TRUE]
    /\ apt = [r \in Runs |-> "none"]

Go(r, where) == task' = [task EXCEPT ![r] = where]

\* Mutant of ActiveRun: selects the wrong state.
InterruptedRun == \E r \in Runs : row[r] = "interrupted"

\* _active_run
ActiveRun == \E r \in Runs : row[r] = "running"

\* start_run, in some worker, reads the running rows and goes on when there is none.
Check(r) ==
    /\ task[r] = "new"
    /\ \E w \in up : owner' = [owner EXCEPT ![r] = w]
    /\ "overlap" \in env \/ \A s \in Runs : task[s] # "checked"
    /\ ~ActiveRun
    /\ Go(r, "checked")
    /\ UNCHANGED <<up, row, apt>>

\* PackageRunInProgress: 409, nothing is recorded.
Refuse(r) ==
    /\ task[r] = "new"
    /\ up # {}
    /\ ActiveRun
    /\ Go(r, "over")
    /\ UNCHANGED <<up, row, owner, apt>>

\* The row is committed, then the task is created.
Commit(r) ==
    /\ task[r] = "checked"
    /\ row' = [row EXCEPT ![r] = "running"]
    /\ Go(r, "queued")
    /\ UNCHANGED <<up, owner, apt>>

\* _execute connects and starts the command; or it raises before it gets there.
Execute(r) ==
    /\ task[r] = "queued"
    /\ \/ apt' = [apt EXCEPT ![r] = "running"] /\ Go(r, "watching") /\ UNCHANGED row
       \/ UNCHANGED <<apt, row>> /\ Go(r, "failing")
    /\ UNCHANGED <<up, owner>>

\* apt-get ends on the host, watched or not.
AptEnds(r) ==
    /\ apt[r] = "running"
    /\ \E how \in {"ok", "error"} : apt' = [apt EXCEPT ![r] = how]
    /\ UNCHANGED <<up, row, task, owner>>

\* The timeout of the SSH command: the task gives up and apt-get goes on.
Timeout(r) ==
    /\ "timeout" \in env
    /\ task[r] = "watching"
    /\ apt[r] = "running"
    /\ Go(r, "failing")
    /\ UNCHANGED <<up, row, owner, apt>>

\* Mutant of Finish: a failed command leaves the row as it is.
FinishOnSuccess(r) ==
    /\ task[r] = "watching"
    /\ apt[r] \in {"ok", "error"}
    /\ row' = [row EXCEPT ![r] = IF apt[r] = "ok" THEN "succeeded" ELSE @]
    /\ Go(r, "over")
    /\ UNCHANGED <<up, owner, apt>>

\* The outcome is written by id, whatever state the row has by now.
Finish(r) ==
    /\ \/ /\ task[r] = "watching"
          /\ apt[r] \in {"ok", "error"}
          /\ row' = [row EXCEPT ![r] = IF apt[r] = "ok" THEN "succeeded" ELSE "failed"]
       \/ /\ task[r] = "failing"
          /\ row' = [row EXCEPT ![r] = "failed"]
    /\ Go(r, "over")
    /\ UNCHANGED <<up, owner, apt>>

Run(r) == Check(r) \/ Refuse(r) \/ Commit(r) \/ Execute(r) \/ Timeout(r) \/ Finish(r)

\* A worker dies with its requests and tasks.
Crash(w) ==
    /\ "crash" \in env
    /\ w \in up
    /\ up' = up \ {w}
    /\ task' = [r \in Runs |-> IF owner[r] = w /\ task[r] # "new" THEN "over" ELSE task[r]]
    /\ UNCHANGED <<row, owner, apt>>

\* mark_orphaned_runs closes every running row of the table.
MarkOrphanedRuns == row' = [r \in Runs |-> IF row[r] = "running" THEN "interrupted" ELSE row[r]]

\* The lifespan of a worker process, run before it serves requests.  The image starts
\* several, so the others may serve by then.
StartWorker(w) ==
    /\ w \notin up
    /\ up' = up \cup {w}
    /\ MarkOrphanedRuns
    /\ UNCHANGED <<task, owner, apt>>

Step ==
    \/ \E r \in Runs : Run(r) \/ AptEnds(r)
    \/ \E w \in Workers : Crash(w) \/ StartWorker(w)

Next == Step /\ UNCHANGED env

\* The event loop drives the tasks, apt-get ends, and the supervisor of the worker
\* processes starts the ones that are missing.
Fairness ==
    /\ \A r \in Runs : WF_vars(Run(r)) /\ WF_vars(AptEnds(r))
    /\ \A w \in Workers : WF_vars(StartWorker(w))

Spec == Init /\ [][Next]_allVars /\ Fairness

--------------------------------------------------------------------------------
(* Properties *)

\* The type invariant of the rows, the tasks and the host.
TypeOK ==
    /\ up \subseteq Workers
    /\ row \in [Runs -> RowStates]
    /\ task \in [Runs -> Alive \cup {"new", "failing", "over"}]
    /\ owner \in [Runs -> Workers]
    /\ apt \in [Runs -> {"none", "running", "ok", "error"}]

\* The environment of this behaviour does none of kinds.
Without(kinds) == env \cap kinds = {}

\* A run that NetFleet has given up: it timed out, or a sweep closed its row.
GivenUp(r) == row[r] \in {"failed", "interrupted"}

\* What the check of start_run does give, where no two requests are between their check
\* and their commit: in whatever workers the runs are, and whatever dies or times out,
\* when two package managers meet on the host, NetFleet had given one of the runs up.
AptsMeetWhenGivenUp ==
    Without({"overlap"}) =>
        \A r, s \in Runs : r # s /\ apt[r] = "running" /\ apt[s] = "running" =>
            GivenUp(r) \/ GivenUp(s)

\* No row claims to be running for ever, whatever dies in between.
RunEnds == \A r \in Runs : row[r] = "running" ~> row[r] # "running"

================================================================================
