# NetFleet: TLA+ models, checks and proofs

NetFleet manages fleets of Linux hosts and MikroTik routers over SSH and the
RouterOS API: a FastAPI backend with PostgreSQL, a scheduler process, a web
front end, and a small updater container that replaces the others.  This
directory holds TLA+ models of the parts whose correctness depends on the order
of steps taken by several actors, what TLC checks about them on small instances,
and what TLAPS proves about them for every instance.

Paths below are relative to the repository.  `PROJECT.json` maps every definition
to the lines it stands for, and lists the runs, mutants, findings, hazards and
theorems.

## 1. Inventory

### Modelled

| Component | State | Operations | Interacts with |
|---|---|---|---|
| Lockout guard: `services/change_guard.py`, the guard half of `drivers/linux.py` | row of `device_change_guards`; on the host a snapshot directory, a restore script, a systemd timer, the ruleset | `run_guarded`, `confirm`, `rollback`, `expire_stale_guards`; arm, cancel, restore; the timer | every ufw change runs inside it; `main.lifespan` calls the sweep |
| ufw rules: `services/ufw.py`, the ufw half of `drivers/linux.py` | the host's ruleset, switch and default policy; `ufw_disabled_rules` | add, delete, edit, move, disable, enable, switch on (with or without the offered management rule), switch off; the safety check and its projections | wraps each change in `run_guarded` |
| Refresh tokens: `services/auth.py`, `api/v1/auth.py` | `refresh_tokens` (revoked, replaced, expiry, session), the cookie of each browser | issue, rotate, grace window, reuse detection, logout, own password change | the request session of `core/database.py` decides whether writes survive |
| Self-updater: `updater/main.py` | in-memory state, `.env`, dumps; the containers and the schema | `/update`, backup, pull, recreate api, health check, record VERSION, recreate worker and web, prune, recovery | docker, the entry point that migrates |
| Package runs: `services/packages.py` | `device_package_runs`, background tasks, `apt-get` on the host | `start_run`, `_execute`, `mark_orphaned_runs` | `main.lifespan` of every worker process |
| SSH command execution: `drivers/ssh_transport.py` `_exec_one` | two buffers, a deadline, the truncated flag | the receive loop, the limits, the exit status | every Linux driver call |
| API client and browser session: `frontend/src/lib/api.ts`, `auth-storage.ts`, `auth.ts`, `app/dashboard/layout.tsx` | the access token of each tab, `refreshInFlight`, `lastRefreshRejected`, the cached `/auth/me`; one refresh cookie for all tabs | a request with its refresh before and after, logout, download, reload, redirect to `/login` | the tabs share the cookie and a Web Lock; the server is that of the refresh tokens |
| Sign-in: `app/login/page.tsx`, `app/auth/oidc/complete` | the phase of the form, the temporary token | password, choice of a factor, code, reset, return from single sign-on | sets the token; leaves the query cache alone |
| Query cache and pages: `components/providers.tsx`, `app/dashboard/**`, the functions of `lib/` | cached queries, forms, pending calls | every query, mutation and form of 56 pages and components | one cache for all pages; TanStack Query decides what a refresh does |
| Fleet batches: `lib/pool.ts`, `fleet/page.tsx`, `bulk/firmware/page.tsx` | the index and the workers of `runPool`, marks, counters, a timer | update all, check all, upgrade the selected | per-device endpoints |

What makes each correct, and hard:

* **Lockout guard.** A change that cuts NetFleet off must be undone by the host
  itself, and the row must say what happened.  Hard because the steps are SSH
  calls and commits between which other requests, operators, the timer, a crash
  or a lost reply can come.
* **ufw rules.** First match wins, so a change that removes nothing can cut the
  path; the check must judge the ruleset that the driver then produces.
* **Refresh tokens.** A lost answer or a second tab replays an old token and must
  not look like a theft; a token of an ended session must never mint another.
* **Self-updater.** Schema, images and VERSION move at different moments and any
  step can fail; an api older than the schema cannot start.
* **Package runs.** The row, the task and `apt-get` die independently.
* **SSH execution.** Output, exit, deadline and limit race each other.
* **Browser session.** Tabs rotate one cookie, requests join a refresh in flight and
  are sent again, answers get lost; a fault must not sign anybody out, a logout must,
  and a POST must not take effect twice.
* **Pages.** Every mutation names by hand the cached queries it makes stale, and every
  form copies cached data at some moment.  A forgotten key, a refresh that meets a
  fetch in flight, or a refetch that arrives while somebody types goes unnoticed in
  any test of a single component.
* **Fleet batches.** At most so many router sessions at a time, every device once, no
  version nobody approved, and an end whatever the calls do.

### Not modelled

| Component | Why, or when |
|---|---|
| Login and second factors (`login_otp`, TOTP, `sms`, `oidc`) | planned: attempt counters read and written without a lock, code expiry |
| Access requests, roles, users, first-run setup | planned: concurrent reviewers, the last-administrator rule |
| Firmware | planned: windows over midnight as a function, reconcile after an upgrade |
| Scheduler | planned: one sequential loop for all jobs |
| Backups and retention | planned: files and rows with crashes between them |
| Migration locks | planned: the grace period before blockers are ended |
| SSH key rotation | planned: four steps on host and database |
| Site-to-site tunnels | planned: partial failure over two routers |
| Device events, host metrics | later, if worth it: deduplication, silence detection |
| Devices, onboarding, bulk, audit, settings, sites, reports, mail | single-row reads and writes, or thin calls into drivers |
| MikroTik driver, database migrations | translation, generated schema changes |
| Front end: setup form, middleware, toasts, pager, maps, address search | one-shot forms and rendering; the address search shows answers in the order they arrive |

Hazards of these parts that no property covers yet: two guesses of a login code read
the same attempt counter (`services/login_otp.py:69`); two identical access requests
pass the duplicate check (`access_request.py:80`); two administrators demote each other
(`user.py:282`); a crash between the steps of a key rotation (`ssh_key_rotation.py:46`);
a tunnel made half (`wg_s2s.py:62`); maintenance windows over midnight
(`firmware.py:207`); retention deletes files before it commits (`backups.py:144`); a
migration waits for a lock (`core/migration_locks.py:23`).  In modelled parts: a crash
between removing a rule and recording it loses the rule (`services/ufw.py:261`), which
nothing repairs; resetting the sign-in form while a code is being sent shows the code
form without a temporary token (`app/login/page.tsx:180`); the address search clears
its timer, not its requests (`components/site-location-picker.tsx:116`).

### How much of the code this covers

The definitions of the front end stand for about 20,500 of its 36,500 lines (pages
count for at most 150 lines per definition), those of the server for about 2,400 out of
32,000 in `backend/app` and 600 in `updater/`.  Of a page, the tables keep what meets
the cache: queries, calls, refreshed keys, locks, forms.  A passing run says nothing
about what a page looks like, nor about the components listed above.

## 2. Modules

Each component has a module, and (except `SshExec`, whose constants are numbers)
an `MC` module with the instances for TLC.  `Batch` and `DeadManSwitch` are abstract
specifications, which `FleetBatch` and `ChangeGuard` implement.  The pages are constant modules (`WebCalls`, `WebPage`,
`RouterPages`, `HostPages`, `FleetPages`, `AdminPages`), from which `MCWebCache`
computes what `WebCache` is checked with.

All modules but `SshExec` have a variable for the environment (`env`, or
`world.env`): the set of things the surroundings may do.  It is chosen in `Init`
from a constant set and never changes.  Nothing in the code rules these things
out, so the models contain them, and a property that needs one of them not to
happen says so with `Without({...})`.  This keeps the assumptions of each
property visible, and lets one run check a property in every environment in
which it is claimed.  The conditions are not decoration: for each kind that a
property excludes there is a short counterexample (section 4).

### ChangeGuard

A guard `g` is one call of `run_guarded`.  `pc[g]` is the await it is in:
`arming` → `recording` → `connecting` → `running` → `probing` → `confirming` →
`settling`, or `disarming`/`restoring` → `stopping` → `closing`.  The change is a
batch of `Steps` commands; the ruleset `rules` is the set of commands in force and
`Admitting` the rulesets that let NetFleet in, so that a batch may pass through a
lockout or be one.  The host half (`ArmOnHost`, `CancelOk`/`CancelRaises`,
`RestoreOk`/`RestoreRaises`, `RestoreScript`, `TimerFires`) is shared by
`run_guarded` and the operators' `confirm` and `rollback`.  `due` is "`expires_at`
has passed"; the row's deadline is read before the timer starts, so it is never the
later of the two.  `Crash` and `Restart` lose every request and run the sweep.
Assumed: the management path of the host is known (an unknown one makes the code
skip the probe's meaning, not its steps), and a snapshot is written completely.

`DeadManSwitch` is what all of this is for, without connections, rows, operators and
clocks: a change is tried under a switch that holds the ruleset of before, and is then
kept or undone.  The switches of a state of `ChangeGuard` are its `Held`: the timers that
are armed and still have their directory.

### UfwRules

A rule is what it does and how it relates to NetFleet's own connection, including
the relations that the check and the kernel see differently (`udp`, `named`).  A
request is `Submit` (status read, check), `Apply` (the driver inside the guard) and,
for disable and enable, `Finish` (the row).  The guard appears by its effect: an
outcome that does not admit NetFleet is undone and reported reverted.  Parsing the
output of ufw is left out; comments, IPv6 twins and logging too.

### RefreshTokens

Tokens are numbered in the order of issue.  A request reads (`ReadRefresh`,
`ReadOther`) and writes (`Mint`, `RevokeAll`, `Logout`, `ChangePassword`) in two
steps, since PostgreSQL runs read committed and no row is locked; then its answer
arrives or is lost.  `/refresh` and `/logout` do not commit and
`get_session` does not either, so their writes are rolled back: that is the
deployed program.  The environment kind `"commits"` is the same service code under
a caller that commits, which is what the service layer and its tests assume.
`origin`, `killed` and `alarms` are history variables.

### Updater

`flow[f]` is where the background task of an accepted `/update` is.  Versions are
numbers, and schema version `v` is what image `v` migrates to.  `StartApi` is the
entry point of the api container.  worker has the same entry point; it never has
anything to migrate, by `FrontNotAheadOfSchema`.  `ComposeUp` is the operator's
`docker compose up -d`, which uses VERSION.

### PackageRuns

`task[r]` is the request and then the background task, `row[r]` the state column and
`apt[r]` the process on the host.  `StartWorker` is the lifespan of a worker process
with its sweep.  Writes of `_execute` to the database are assumed to succeed.

### SshExec

One call of `_exec_one`, with output counted in chunks.  The command prints while
the channel has room, in particular while the inner loops of the receiver run, and
exits or hangs.  `MaxPrint` bounds its output.

### WebCalls, WebPage, the page modules and WebCache

`WebCalls` has one entry per function of `frontend/src/lib` that makes a request: which
parts of the server's state it reads or changes, and whether doing it twice makes two.
`WebPage` is the vocabulary of the pages: a component has queries (`Shows`, `Polls`,
`PollsWhile`), operations (`Does`, `Saves`, `Repeats`, with `InTurn`, `AlsoOnError`,
`PutsAnswer`, `Leaves`, `OnClosing`) and a draft, told apart by when its fields are
copied from the cache (`Blank`, `Opened`, `Mounted`, `Hydrated`, `ByField`,
`Untouched`).  `RouterPages`, `HostPages`, `FleetPages` and `AdminPages` have one
definition per component with the queries, operations and draft of its source, and the
views that are on the screen together.

`WebCache` is one operation, one query that shows what it changes, and the cache
between them.  The server's state is the number of changes made.  `told` is the newest
change the operator was told of, `failed` the newest one behind an error message.
`MCWebCache` makes a *meeting* of every operation of every page with every query of
every page whose call reads what the operation writes: 323 encounters, 87 of which
differ in what the model sees.  Each is checked under five environments.  The same
table thus says what the code does and what is checked; deleting a refreshed key from
a page changes the meetings and breaks a property, as the mutants do.

A property is checked for every meeting but those listed in `MCWebCache` (`Waived`,
from `NotRefreshed`, `NotRefreshedOnError`, `OverwritesForm`, `MakesFirst`,
`FilledOnce`), each of which is a place where the code really does otherwise; section 4
says which.  The behaviour of TanStack Query itself is external: marking, restarting a
fetch unless it is the first load, fetching on mount what is missing, marked or old,
dropping what nobody shows, polling, retrying, and not refetching on focus
(`providers.tsx`).

### BrowserSession

`token[t]` is the access token of tab `t` with its age, `jar` the one refresh cookie,
`refresh[t]` the refresh in flight and where its answer is, `call[t][k]` the request of
kind `k`: `before` and `after` wait for a refresh, `again` was sent again by
`afterResponse`, which uses plain `ky` with its default retries.  A cookie that was
replaced (`current = FALSE`) is good for the grace window or ends the session.  The
form is its phase, its temporary token and what it waits for.  `answered`, `out`,
`crossed` and `replayed` are history variables.  A world gives the tabs their requests,
says which are at `/login` and how many sessions may be signed in to (`most`).

### FleetBatch and Batch

`worker[r][w]` is where worker `w` of run `r` is and which device it has, `next[r]` the
shared index of `runPool`, `mark[r]` the map of the page, `shown` the run whose map the
page renders (every run replaces the map with its own, also one that is not the
latest), and `timer` the pending `setTimeout`.  `Busy` is what disables the button.
`version[d]` is what a device runs and what is published for it; `Changes` is everybody
else.  An operator who does not wait for the markers of "Update all" to go (until four
seconds after the list was loaded again) is `quick`.  `Batch` keeps the pairs of run and device that wait, are worked on and are
finished, and lets one begin only while fewer than `Limit` of its run are worked on;
`FleetBatch` maps an index to waiting, an occupied worker to running, the rest to
finished.

## 3. Runs

Nine runs pass, one per component, and three are counterexamples.

| Run | Instance | Shows |
|---|---|---|
| `guard` | 2 guards of 2 commands (one passes through a lockout, one is a lockout), 2 operators, 5 environments; 1.0 M states | `NeverStranded`, `LockoutEnds`: a lockout always has a timer that ends it. `ConfirmedMeansDisarmed`, `ConfirmedStaysInForce`, `WholeBatchesRollBack`: the row tells the truth about the host. `ResolvedIsFinal`. `GuardIsSwitch`: `ChangeGuard` implements `DeadManSwitch` |
| `ufw` | 2 allow rules and a deny rule, positions to 4, both policies, all operations; 0.17 M | `SafeChangesStay`: the guard undoes nothing that the check lets through. `OffIsNotEnforced`, `MoveAndEditKeepCount` |
| `tokens` | 2 tabs, 1 or 2 browsers, up to 5 tokens, 3 instants, chains walked 3 hops; 3.9 M | `KilledIsRevoked`, `KilledStaysKilled`: an ended session is over. `NoFalseAlarm` |
| `updater` | 2 updates, 2 versions, 4 environments; 0.5 M | `FrontNotAheadOfSchema`, `FrontKeepsRunning`, `VersionKeepsUp`, `DumpedFirst`, `UpdateEnds` |
| `packages` | 3 runs, 2 worker processes, 3 environments; 0.4 M | `SweepSparesWatchedRuns`, `OneAptAtATime`, `RunEnds` |
| `ssh` | limit 2, window 2, output to 6 per stream, 3 ticks; 0.16 M | `ResultWithinLimit`, `NothingLost`, `CallEndsWithinLimit` |
| `web` | 87 meetings, 5 environments, 2 presses, 3 versions; 1.06 M | `OwnChangeShown`, `OwnChangeAppears`: what was done is on the screen, without a click. `ErrorHidesNothing`: also what an error left behind. `MadeOnce`. `EditsSurvive`, `SavesOnTop`: no edit is lost or undoes a save |
| `session` | 2 tabs, 2 or 3 sessions, 11 worlds; 0.28 M | `EffectOnce`, `NoReplay`, `LogoutSticks`, `SignInSticks`, `WaitersGoOn` |
| `batch` | up to 3 runs over 3 devices, 2 workers, 3 versions, 8 worlds; 0.18 M | `RunsAreBatches`: `FleetBatch` implements `Batch`. `WithinLimit`, `OnlyApprovedUpgrades`, `SummaryIsTrue`, `RunEnds` |
| `tokens_refresh` | `CookieIsStored` fails | `/refresh` answers with a token whose row is rolled back |
| `session_blip` | `OnlyRefusalSignsOut` fails | two network faults around `/auth/me` become a 401 and a redirect to `/login` |
| `session_bounce` | `SignInIsHonoured` fails | after signing in, the cached null of the ended session redirects once more |

**Bounds.** Two guards show every way one guard's snapshot, timer or restore can meet
another change, and two commands are the least that can fail half-way; two operators
can answer the same guard.  Three rules make "first, middle, last" and give two ways
in and one way out.  Five tokens let a chain of three be ended and replayed.  Two
versions and two tasks let an update follow a failed one; SSH limits are small enough
that every buffer, window and deadline is passed.  Two presses are the least that can
make something twice, and three versions let one's own change, another one and somebody
else's follow each other; more tabs than two only queue for the same lock, two
sessions let an old one be restored over a new one, and a third lets both tabs sign in
at once; three devices for two workers make a worker take a second device, two runs
overlap, and a third meets the timer of the first.  Deadlock is checked in the runs
`ufw`, `tokens` and `updater`; the others end, since their calls are finite.

**Fairness.**  `ChangeGuard`: every SSH command has a timeout, so a run goes on;
clocks advance; systemd runs an elapsed timer.  No operator and no restart of the API
is assumed.  `Updater`: the event loop drives the task, its commands end, the health
check has a deadline, a starting container starts or fails.  `PackageRuns`: tasks
run, `apt-get` ends, uvicorn's supervisor restarts workers.  `SshExec`: the thread
runs, time passes, a command that can print or exit does.  `WebCache`: a fetch is
answered, and the timer of a polled query runs; nobody has to press anything.
`FleetBatch`: calls are answered or time out, and what was awaited goes on.
`BrowserSession`: the same, and strong fairness for taking the lock, since
`navigator.locks` grants it in the order of the requests: a tab that waits has its turn
however often the others ask.  All others are weak.

## 4. What each condition stands for

The environments that a property excludes, and what happens in them:

* **NeverStranded, GuardIsSwitch, LockoutEnds** need changes of one host not to
  overlap (a snapshot taken between two commands of another change restores a
  lockout), the window to outlast the run (`slow`: the timer restores in the middle of
  the batch and the rest of it runs unguarded), operators not to act on a change in
  flight (`early`: confirming it cancels the timer the change relies on), and commands
  not to outlive their connection (`late`: the guard is disarmed, then the command
  takes effect).  They hold with half-applied batches, lost replies, failed cancels,
  stacked guards, rival operators and crashes.
* **ConfirmedMeansDisarmed** also needs the cancel not to fail: its failure is only
  logged and the row says confirmed.
* **ConfirmedStaysInForce** also needs guards not to be stacked (an older timer
  restores an older snapshot over the change), the reply of an arming or of a restore
  not to be lost, no crash, and no second operator: one who confirms while another
  rolls back stops the timer between the restore and the cancel, and the change that
  was just undone is recorded as confirmed.
* **WholeBatchesRollBack** needs batches to fail as a whole: when one fails half-way the
  guard is disarmed and the first half stays, though the recorded detail says that
  nothing was left behind.
* **ResolvedIsFinal** needs operators to wait for the run: `_resolve` writes whatever
  the row says.
* Nothing makes `expired` rows true: a crash between a cancel and its row is recorded
  as "the host restored itself", and a guard left armed stays so until the API
  restarts, since the sweep is run by the lifespan only.
* **SafeChangesStay** needs requests that do not overlap (two deletes checked against
  the same ruleset), the default policy not to be `reject` (compared with `deny`
  only), rules for the port over udp or by host name not to be about, ufw not to
  reject the management rule (the enable in the same batch is executed all the same), and
  a move to stay within the list (past its end the rule is deleted and not put back, while
  the projection that was judged has it last).  It is about the step that undoes the
  change: a later request may remove the deny rule that was the reason.
  Edits and the offered management rule are excepted when a deny is involved: an edit
  without a position is appended, one with a position is inserted while the old rule
  still counts, and the management rule is appended behind the deny.
* **MoveAndEditKeepCount** needs positions within the list: a move past the end deletes
  the rule, and its insert fails.
* **OffIsNotEnforced** needs that nothing else installs the rule again, and no crash:
  one between the host and the row loses a disabled rule.
* **KilledIsRevoked, KilledStaysKilled** need requests that do not overlap: a login
  that commits between the SELECT and the UPDATE of a password change survives it.
  Logout ends one token and not its grace-window siblings, and as deployed ends none.
* **NoFalseAlarm** needs answers to arrive: a client that lost one and comes back after
  the grace window is taken for a thief, as intended.
* **VersionKeepsUp** needs updates that do not overlap, a migration in time (one that
  outlasts the health check completes unrecorded), no stranded api (the recovery starts
  it and nobody records it), a writable `.env` and no restart of the updater during the
  health check.
* **DumpedFirst** needs pg_dump not to fail inside the pipeline, whose status is
  gzip's, and no migration of somebody else's in progress.
* **FrontNotAheadOfSchema** needs the second `/update` to come after the
  first one's task has set the state.
* **FrontKeepsRunning, UpdateEnds** need docker to be able to start a container again
  and nobody else to interfere.
* **OneAptAtATime** needs one worker, no overlapping requests, no timeout and no crash:
  in each of these an `apt-get` runs that no `running` row stands for, or two requests
  pass the check together.
* **SweepSparesWatchedRuns** needs one worker process: the image starts two, and the
  sweep of one closes the watched run of the other.
* **CallEndsWithinLimit** needs the output to stay within the limit: a truncated command
  that never exits is waited for without a deadline.  The limit bounds the result, not
  the memory: the inner receive loops have neither limit nor deadline.
* **OwnChangeShown, OwnChangeAppears** need fetches to succeed, a refresh that restarts
  the fetch in flight (`unrestarted`: it does not restart the first load, nor one of a
  page that was left; `setQueryData` is overwritten by a fetch in flight), a form not
  left while its call is pending (its callbacks are those of an unmounted component),
  and a panel to be closed rather than left.  168 of the 323 encounters are not
  refreshed, most on other pages, which then show up to 30 seconds old data.  On the
  same page (`NotRefreshed`): the result of `testSms`; the counts of users and roles
  next to assignments; interfaces next to VLANs; site and tenant after a move; the
  device next to its firmware; the package list, which the polled run brings; and the
  preflight of the firewall, which nothing refreshes (`ufw-firewall.tsx:904`).
* **ErrorHidesNothing** needs calls not to be carried out after the browser gave up.
  Outside the firewall pages an error is taken to mean that nothing happened.  Creating
  and editing a firewall rule do not refresh after an error, and `EnableDialog` not the
  guards (`NotRefreshedOnError`).
* **MadeOnce** is about a call and every call that the operator repeats with it (`again`,
  all presses that are pending or have failed).  It needs answers to
  arrive, and a form not to be reopened while it is pending.  `PeersStep` makes a peer and then downloads its configuration: when that
  fails, pressing again makes a second peer (`vpn/wireguard/new/page.tsx:551`);
  `InterfaceStep` likewise.
* **EditsSurvive** needs that nobody else changes the same thing.  Fields that follow
  all of the data are overwritten by a neighbour that refreshes it (`OverwritesForm`):
  the identity form by the password, TOTP and OTP sections (`profile/page.tsx:111`), the
  NTP form by "Sync now" (`devices/[id]/system/page.tsx:261`), the SMS form by its test.
* **SavesOnTop** needs the operator to wait for the refreshed data before the next edit.
  The comment of a lease is copied once, when its row appears (`dhcp/page.tsx:383`).
* **LogoutSticks, SignInSticks, NoReplay** need that no refresh is in flight: its answer
  sets a token of the session that was left (`crossed`).  A logout whose request fails
  throws before the redirect, and the next request refreshes silently.  A lost answer
  makes a tab present a cookie that was replaced.  When two tabs sign in at once, the
  cookie is that of the answer that came last, and the other tab moves to that session
  with its next refresh: `SignInSticks` allows it, whichever session is the newer.
* **WithinLimit** needs the operator to stay, and to wait for the markers (`quick`): the
  timer of a finished run clears those of the next one (`fleet/page.tsx:170`), which
  enables the button during it, and a page that is left forgets its run.
* **OnlyApprovedUpgrades** needs that nothing changes between a device's check and its
  upgrade, which installs whatever is published then.

## 5. Proofs

Eight modules, one per component (SSH execution shares that of the package runs, which
are its callers), checked by TLAPS: each extends its component's module, states the inductive invariant as a conjunction of named parts, and
ends with the theorems.  TLC has checked each invariant on the run of the component.
The assumptions are those named in the modules: at least one guard, batches of at least one command, the
empty change admits NetFleet; natural limits and a window of at least one chunk;
meetings of the declared type with at least one call; at least one device and worker, a
version to upgrade to, and runs numbered from 1; at least one version to update to; a
finite set of worker processes that is not empty; a token that lives and a chain of at
least one hop; at least one session; a finite set of rules, the management rule among
them.  Environments and worlds are of their declared
type and otherwise arbitrary, so a theorem covers every combination of faults, not only
the ones a run enumerates.  An invariant that needs something not to happen is proved as
`Without(...) => ...`, which is inductive since the environment does not change.

### Lockout guard

* **TypeCorrect** — `Spec => []TypeOK` for the guard, in every environment.
* **GuardNeverStrands** — `Spec => []NeverStranded`, for any guards, operators, batch
  length and notion of admitting.  `NeverStranded` is not inductive: that a timer is
  armed when the ruleset stops admitting depends on where the runs are.
  `GuardInv` adds that every snapshot kept on the host admits NetFleet, that one run
  is in flight at a time, that a run past its arming has its timer armed, its snapshot
  kept and its window open, that a run that is arming sees a reachable host, and that
  operators act on ended runs only.  `Sheltered => GuardInv` is inductive since the
  environment does not change.
* **TimersLetIn** — `Spec => []NoTimerLocksOut`, from the same invariant.  (No run has it
  among its properties: `GuardIsSwitch` says it and more.)
* **ResolutionIsFinal** — `Spec => ResolvedIsFinal`.  `FinalInv` says that the row of a
  run in flight is armed, and that the right to resolve belongs to the one request
  whose `systemctl stop` found the timer: only that request goes on to write the row.
  This is what keeps two operators apart, although `_resolve` itself checks nothing.
* **ConfirmedIsDisarmed** — `Spec => []ConfirmedMeansDisarmed`, from both invariants and
  `ConfirmInv` (a guard about to be recorded as confirmed has a spent timer).
* **RollbackIsWhole** — `Spec => []WholeBatchesRollBack`.  `SingleInv` says that there is
  one timer, that of the run in flight if there is one; `RollbackInv`, that a change that
  is not applied yet (`Unapplied`) or was taken back (`Undone`) is neither in the ruleset
  nor in the snapshot of a timer that may still fire.
* **ConfirmedIsKept** — `Spec => []ConfirmedStaysInForce`.  `AppliedInv` follows a run: it
  has applied what its position says, ends with its change in the ruleset unless an
  operator is taking it back, and what is `Settled` is in the ruleset and in the snapshot
  of a timer that may still fire; `OneOperator` is what the absence of rivals gives.
* **GuardImplementsSwitch** — `Spec => GuardIsSwitch`, the refinement of `DeadManSwitch`:
  each step of a run, an operator, a timer or a crash maps to arming, trying, keeping or
  undoing one switch, or to none of them.  It says more than `NeverStranded`: which timer
  a command runs under (its own), when a timer may go (while NetFleet is let in), and what
  a restore does (puts back what was there at the arming, once).  Besides `GuardInv` it
  needs `KeptInv`, which holds in every environment: a directory without an armed timer is
  what a failed arming left behind, and no row, hence no request of an operator, names it.
  The property is stated with `Sheltered` inside, which TLC can check;
  **ShelteredGuardIsSwitch** is `Spec /\ Sheltered => Switch!Spec`.
* **SwitchLeadsBack** — `Switch!Spec => []Switch!WayBack`: for a dead man's switch the
  promise is inductive as it stands, so that the strengthening in `GuardInv` is about
  whether the guard is one, and not about why one is safe.

### ufw rules

* **CheckedChangesStay** — `Spec => SafeChangesStay`, for rulesets of any length, any rules
  and positions and any number of requests, where the run has three rules and one request.
  That a check passed says nothing about the ruleset of the moment unless the two belong
  together: `Serial` (one request at a time) and `Judged` (what a checked request was
  accepted for still holds of the ruleset as it is now) carry the verdict from `Submit` to
  `Apply`, and `Reachable` (the ruleset in force admits NetFleet) is what makes the cases
  harmless in which the check is skipped.  Per operation it is then a comparison of the
  ruleset that was judged with the one the driver leaves.
* **CountIsKept** — the action property `MoveAndEditKeepCount`, from the same parts: a
  rule that is installed is deleted and put back at a position of the list, and the
  replacement of an edit is a rule that was not there.
* **OffStaysOff** — `Spec => []OffIsNotEnforced`.  `Offered` says that only operations the
  behaviour has are under way, and `Applied` that a rule about to be recorded as switched
  off is no longer in the ruleset: the row is written a step after the host was changed.
* **UfwTyped** — no rule is installed twice, and a stored position is one of a ruleset
  (for that `Stored` bounds the position a `disable` carries).  It needs `Rules` to be
  finite, which the lists of a host are.

These rest on lemmas about the ruleset as a sequence: what `FirstIn`, `Inserted` and
`Deleted` do to length, members and order.  No induction over sequences is needed, since
first match is characterised by its index: the rule there matches and none before it does.
The proof is why `SafeChangesStay` is about the step that undoes a change, and has the
condition on moves: as an invariant over the last answer, or for moves past the end, it is
false, and a run with one request and moves within the list cannot tell.

### SSH execution

* **ResultBounded**, **ResultComplete** — for every limit, window, timeout and amount of
  output, a result is within the limit, and holds everything the command printed
  unless it is marked truncated.  `ExecInv` accounts for every chunk: printed =
  not yet printed + in the channel + in the buffer, as long as nothing was cut.
### Query cache and pages

* **RefreshedIsShown**, **ErrorsAreShown** — for *every* operation,
  also of pages not written yet: if its refreshed keys cover a query (after an error:
  those of `onError`), `OwnChangeShown` (`ErrorHidesNothing`) holds for it.  Neither is
  inductive: what is on the screen depends on fetches in flight.  `Inv` says that
  what is on the screen and not loading was loaded and is not marked since, and that
  unmarked data, as well as an answer on its way, are at least as new as what the
  operator was told (after an error: as what the failed call had changed).
* **NothingIsMadeTwice** — `MadeOnce` for every operation whose button is disabled while
  its call is pending and whose creating call is its last (`MakesLast`).  `CallsInv` says
  that a call that made something cannot fail any more, and that only failed calls are
  repeated.
* **SavesAreOnTop** — `SavesOnTop` for every draft but those copied once when the page
  appears (`mounted`).  `BaseInv`: the fields are at least as new as what was seen.
* **TypingSurvives** — `EditsSurvive` for every form whose fields do not follow the data,
  or whose neighbours do not change what the fields follow.  `EditInv`: a form has one
  call at a time, and nobody edits while it is pending.
* The conditions on the meeting are what a page has to do; that it is enough is the
  theorem, and which pages do it is what the run checks.

### Fleet batches

* **PoolIsBatch** — `Spec => RunsAreBatches`, the refinement of
  `Batch`, for any devices, workers and runs, in every environment.  `PoolInv` says that
  an occupied worker has a device below the index, and that no two workers of a run have
  the same; `IdleHasNone`, that a run that has not started has none.  `Take` maps to `Begin`, whose
  bound holds because the worker that takes has no device, so at most `Limit - 1` others
  do (an injection of the running devices into the workers); `Settle` maps to `End`;
  everything else stutters.
* **UpgradesApproved** — `Spec => []OnlyApprovedUpgrades`.  `UpgradeInv` adds that, while
  nothing races, what a worker was told to be published still is (`AnswerHolds`), and that
  one about to upgrade has compared it with what was approved (`TriggersApproved`).
* **PageLimit** — `Spec => []WithinLimit`.  `OneAtATime` says that one run goes on, that
  the page knows it, and that for "Update all" the page shows it until its timer has
  fired; `OnlyRunsWork`, that workers have devices only during their run.
* **SummaryHolds** — `Spec => []SummaryIsTrue`, in every environment.  `SummaryInv` says
  that the counter is the number of devices marked as failed, that a device taken from
  the list has its outcome or is marked as running and has a worker, and that a worker
  stops when nothing is left.

### Refresh tokens

* **EndedIsRevoked**, **EndedStaysEnded** — `Spec => []KilledIsRevoked` and the action
  property `KilledStaysKilled`, for any browsers, tabs, tokens, hops, grace window and
  lifetime.  `KillInv`: requests follow each other (`Serial`) and so write what they have
  read (`SeenIsLive`), the tokens of an ended session are revoked and so are those they
  were rotated to, and no request is about to mint from one (`DeadStayDead`).  That the
  walk along a chain of successors never leaves the ended session is shown with a least
  counterexample.
* **NoTheftSuspected** — `Spec => []NoFalseAlarm`.  `AlarmInv`: a token belongs to one
  browser, an answer carries a token nobody has presented, a browser holds a rotated token
  only while the answer with the newer one is on its way, and time does not pass then, so
  that whatever is presented was rotated just now, if at all.

### Self-updater

* **FrontStaysBehind**, **FrontIsKept**, **VersionIsKept**, **DumpComesFirst** — the four
  safety properties, for any number of updates and versions.  None is inductive, for what
  schema, images and VERSION are to each other depends on the step the update is at.
  `UpdaterInv`: a serving api has migrated the schema to its version; without `double` one
  update acts at a time, has installed the api it waits for, and worker, web and VERSION
  follow the schema; api starts because an update waits for it or with the recorded
  version; worker and web that do not run are about to be recovered; a dump is of the
  schema the run began with.

### Package runs

* **SweepIsSafe**, **AptIsAlone** — `SweepSparesWatchedRuns` and `OneAptAtATime`, for any
  number of runs and processes.  `RunsInv`: a task has a process that is up, a run has no
  row before its commit, and without faults its row is `running` as long as it works, one
  run works at a time, and an `apt-get` has its watcher.

### Browser session

* **PostsOnce** — `Spec => []EffectOnce`, in every world.  `GoodCall` bounds the effects of
  a request together with the retries it has left, and says that what may not be repeated
  is not sent any more once it took effect.
* **NoCookieIsReplayed** — `Spec => []NoReplay`.  `LockInv` is mutual exclusion: one tab
  holds the lock (`OneHolds`), and presents the cookie of the jar (`Presented`);
  `RotationInv` says that the cookie in the jar is replaced only by the answer that is on
  its way to the tab with the lock.
* **LogoutIsKept** — `Spec => []LogoutSticks`.  `OutInv`: after a logout there is no cookie,
  no refresh brings one, and the tab has no token.
* **SignInIsKept** — the action property `SignInSticks`, from `LockInv` and
  `RefusedHasEnded`: a refresh that ends sets a token of the session in the jar, and a
  refusal is about a session that has ended.

`TypeOK` is proved of each of these components, of SSH execution as a part of `ExecInv`,
of the others as a theorem of its own (**TypeCorrect**, **TypesKept**, **TokensTyped**, **UpdaterTypes**, **RunsTyped**,
**SessionTyped**, **UfwTyped**).

### Only model-checked

* Liveness (`LockoutEnds`, `UpdateEnds`, `RunEnds`, `CallEndsWithinLimit`,
  `OwnChangeAppears`, `WaitersGoOn`): TLAPS does not reason about fairness and ENABLED.
* `OwnChangeShown` and `ErrorHidesNothing` of operations that put their answer into the
  cache (`sets`), and the properties of the pages outside the conditions of the theorems
  above: creating operations without a lock or with a call after the creating one,
  `mounted` drafts, and forms that follow data which their own page changes.  They hold
  for the meetings of the run, for reasons that are particular to them.

## 6. Plan

Built first, because they act on machines that nobody may be able to reach: the guard,
then the rules it protects, then what every host call rests on, then sessions and
updates; then the front end, which is the larger half of the code.  Next, in this order:

1. `LoginMfa`: attempt counters, lockout, expiry of codes, the two-step login.
2. `AccessRequests`: create, approve, deny, cancel with concurrent reviewers; the
   last-administrator rule; the first-run setup; scope resolution as a function with
   a reference definition.
3. `SshKeyRotation`, `SiteToSite`, `Backups`: several steps on several systems with
   crashes between them.
4. `Firmware` (the maintenance window as a function against a reference),
   `Scheduler`, `MigrationLocks`.
5. `ChangeGuard` under `UfwRules`: the guard composed with the operations instead of
   its effect.
