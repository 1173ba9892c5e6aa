------------------------------- MODULE WebCache -------------------------------
(***************************************************************************)
(* What one operation of a page does to one cached query that shows what   *)
(* the operation changes.  The behaviour of the query cache is that of     *)
(* TanStack Query 5 as components/providers.tsx sets it up: data is fresh  *)
(* for 30 seconds, a refresh marks the entry and fetches it again if it is *)
(* on the screen, a refetch replaces one in flight unless that is the      *)
(* first load, and an entry that is not on the screen is fetched again     *)
(* when it is shown, if it is marked or old.                               *)
(*                                                                         *)
(* A meeting is the query and the operation with what the page tables say  *)
(* about them; the set of all of them is computed from the tables.         *)
(*                                                                         *)
(* The state of the server is a version number: the number of changes made *)
(* to what the query reads.                                                *)
(***************************************************************************)
EXTENDS Naturals, Sequences

CONSTANTS
  Meetings,       \* which queries and operations meet, see MeetingType
  Environments,   \* what else may happen, sets of kinds
  Presses,        \* how often the operator presses the button at most
  MaxVersion      \* how many changes the server sees at most

\* What may happen around the page:
\*   others       somebody else, or the device by itself, changes what the
\*                query reads
\*   offline      a fetch fails, and its retry
\*   lost         a change is made and its answer is lost or an error
\*   late         the browser gives up on a call that is executed later
\*   unrestarted  a change is answered during a fetch that its refresh does
\*                not restart: the first load, or one of a page that was left
\*   reopens      a form is left and opened again while its call is pending
\*   hasty        the operator types while a save is pending, or starts the
\*                next edit while the refresh after it is still loading
\*   walks_away   a panel that refreshes on closing is left without closing
Kinds == {"others", "offline", "lost", "late", "unrestarted", "reopens", "hasty", "walks_away"}

DraftKinds == {"none", "blank", "opened", "mounted", "hydrated", "by field", "untouched"}

PropertyNames ==
  {"OwnChangeShown", "ErrorHidesNothing", "MadeOnce", "EditsSurvive", "SavesOnTop"}

MeetingType ==
  [together : BOOLEAN,     \* the button and the list are on the same page
   covered  : BOOLEAN,     \* a refreshed key is a prefix of the query's
   onError  : BOOLEAN,     \* the same after an error
   sets     : BOOLEAN,     \* the answer is put into the cache
   deferred : BOOLEAN,     \* the refresh waits for a panel to be closed
   locked   : BOOLEAN,     \* the button is disabled while a call is pending
   leaves   : BOOLEAN,     \* on success another page is shown
   lenient  : BOOLEAN,     \* errors between the first and last call are passed over
   guarded  : BOOLEAN,     \* an error may come after the effect
   saves    : BOOLEAN,     \* the operation sends the draft
   polls    : {"never", "sometimes", "always"},
   steps    : Seq({"makes", "writes", "other"}),
   draft    : DraftKinds,
   disturbs : BOOLEAN,     \* the change touches what the draft is copied from
   waived   : SUBSET PropertyNames]

ASSUME MeetingAssumption == \A m \in Meetings : m \in MeetingType /\ m.steps # << >>
ASSUME EnvironmentAssumption == Environments \subseteq SUBSET Kinds
ASSUME VersionAssumption == MaxVersion \in Nat \ {0}

VARIABLES
  meet,     \* the meeting
  env,      \* what may happen
  server,   \* the version the server is at
  cache,    \* the entry of the query
  shown,    \* a component with the query is mounted
  form,     \* the draft
  calls,    \* the calls of the operation, one record per press
  told,     \* the newest version the operator was told of
  failed    \* the newest version behind an error the operator was shown

vars == <<meet, env, server, cache, shown, form, calls, told, failed>>

Versions == 0 .. MaxVersion

\* idle: not pressed; sent: on its way; applied: done on the server, not
\* answered; panel: the answer is shown in a panel; late: the browser gave up.
Stages == {"idle", "sent", "applied", "panel", "done", "failed", "late"}

CacheType ==
  [data : Versions, marked : BOOLEAN, old : BOOLEAN,
   fetch : {"none", "asked", "answered"}, got : Versions]

FormType == [state : {"idle", "edited", "saving"}, base : Versions, seen : Versions]

CallType ==
  [stage : Stages, step : Nat, wrote : Versions, here : BOOLEAN, made : BOOLEAN,
   again : SUBSET Presses]

TypeOK ==
  /\ meet \in MeetingType /\ env \subseteq Kinds
  /\ server \in Versions /\ told \in Versions /\ failed \in Versions
  /\ cache \in CacheType /\ shown \in BOOLEAN /\ form \in FormType
  /\ calls \in [Presses -> CallType]

NewForm == [state |-> "idle", base |-> 0, seen |-> 0]

NewCall ==
  [stage |-> "idle", step |-> 1, wrote |-> 0, here |-> FALSE, made |-> FALSE, again |-> {}]

Init ==
  /\ meet \in Meetings /\ env \in Environments
  /\ server = 1 /\ told = 0 /\ failed = 0
  /\ cache = [data |-> 0, marked |-> FALSE, old |-> FALSE, fetch |-> "none", got |-> 0]
  /\ shown = FALSE /\ form = NewForm
  /\ calls = [p \in Presses |-> NewCall]

Later(a, b) == IF a > b THEN a ELSE b

\* The page of the operation is on the screen.
OnPage == shown = meet.together

Pending(p) == calls[p].stage \in {"sent", "applied"}

NoPanel == \A p \in Presses : calls[p].stage # "panel"

\* What is remembered of a call that is over.
Over(p, stage) ==
  [calls EXCEPT ![p] = [NewCall EXCEPT !.stage = stage, !.made = calls[p].made,
                                       !.again = calls[p].again]]

-----------------------------------------------------------------------------
(* The query *)

Ask(c) == [c EXCEPT !.fetch = "asked", !.got = 0]

\* Mounting fetches what is missing, marked or old, unless a fetch is under way.
OnMount(c) ==
  IF c.fetch = "none" /\ (c.data = 0 \/ c.marked \/ c.old) THEN Ask(c) ELSE c

\* A row that was mounted with data keeps the copy it made then.
CopyOnMount(data) ==
  IF meet.draft = "mounted" /\ form.base = 0 THEN [form EXCEPT !.base = data] ELSE form

\* Changing the page unmounts the form of the page that is left, and the
\* buttons forget which calls are pending.
LeavesPage ==
  /\ \A p \in Presses : calls[p].stage = "panel" => "walks_away" \in env
  /\ form' = NewForm
  /\ calls' = [p \in Presses |->
                [calls[p] EXCEPT !.here = FALSE,
                                 !.stage = IF @ = "panel" THEN "done" ELSE @]]

Visit ==
  /\ ~shown /\ shown' = TRUE
  /\ cache' = OnMount(cache)
  /\ IF meet.together
     THEN form' = CopyOnMount(cache.data) /\ UNCHANGED calls
     ELSE LeavesPage
  /\ UNCHANGED <<meet, env, server, told, failed>>

Leave ==
  /\ shown /\ shown' = FALSE
  /\ IF meet.together THEN LeavesPage ELSE UNCHANGED <<form, calls>>
  /\ UNCHANGED <<meet, env, server, cache, told, failed>>

\* Thirty seconds after the data arrived.
GoesStale ==
  /\ cache.data # 0 /\ ~cache.old
  /\ cache' = [cache EXCEPT !.old = TRUE]
  /\ UNCHANGED <<meet, env, server, shown, form, calls, told, failed>>

\* An entry that nobody shows is dropped after five minutes.
Dropped ==
  /\ ~shown /\ cache.fetch = "none" /\ cache.data # 0
  /\ cache' = [cache EXCEPT !.data = 0, !.marked = FALSE, !.old = FALSE]
  /\ UNCHANGED <<meet, env, server, shown, form, calls, told, failed>>

Poll ==
  /\ shown /\ meet.polls # "never" /\ cache.fetch = "none"
  /\ cache' = Ask(cache)
  /\ UNCHANGED <<meet, env, server, shown, form, calls, told, failed>>

\* The connection comes back: what is on the screen and old is read again.
Reconnect ==
  /\ shown /\ cache.fetch = "none" /\ (cache.old \/ cache.marked \/ cache.data = 0)
  /\ cache' = Ask(cache)
  /\ UNCHANGED <<meet, env, server, shown, form, calls, told, failed>>

ServerReads ==
  /\ cache.fetch = "asked"
  /\ cache' = [cache EXCEPT !.fetch = "answered", !.got = server]
  /\ UNCHANGED <<meet, env, server, shown, form, calls, told, failed>>

\* Fields that follow the data are filled again when the data is not what it was.
Refills(got) ==
  /\ got # cache.data
  /\ meet.draft \in {"hydrated", "by field"}
  /\ meet.disturbs \/ "others" \in env

Arrive ==
  /\ cache.fetch = "answered"
  /\ cache' = [cache EXCEPT !.fetch = "none", !.data = cache.got, !.got = 0, !.marked = FALSE, !.old = FALSE]
  /\ form' = IF Refills(cache.got) THEN NewForm ELSE CopyOnMount(cache.got)
  /\ UNCHANGED <<meet, env, server, shown, calls, told, failed>>

FetchFails ==
  /\ "offline" \in env /\ cache.fetch # "none"
  /\ cache' = [cache EXCEPT !.fetch = "none", !.got = 0]
  /\ UNCHANGED <<meet, env, server, shown, form, calls, told, failed>>

-----------------------------------------------------------------------------
(* The form *)

\* A refresh set off by a change is under way.
Refreshing == cache.marked /\ cache.fetch # "none"

\* The fields are filled with the data there is, seen is the newest version the
\* operator knows of.  Nothing keeps the operator from editing on top of older
\* data but the refresh that the page started, or did not start.
Edit ==
  /\ OnPage /\ NoPanel /\ meet.draft # "none" /\ form.state = "idle"
  /\ meet.draft # "blank" => cache.data # 0 /\ (Refreshing => "hasty" \in env)
  /\ \A p \in Presses :
       meet.saves /\ Pending(p) => (IF calls[p].here THEN "hasty" ELSE "reopens") \in env
  /\ form' = [state |-> "edited",
              base  |-> IF meet.draft = "mounted" THEN form.base ELSE cache.data,
              seen  |-> Later(cache.data, told)]
  /\ UNCHANGED <<meet, env, server, cache, shown, calls, told, failed>>

\* The operator goes on typing while the form is being saved.
Type ==
  /\ "hasty" \in env /\ OnPage /\ form.state = "saving"
  /\ form' = [form EXCEPT !.state = "edited"]
  /\ UNCHANGED <<meet, env, server, cache, shown, calls, told, failed>>

\* The form is closed, or what was in the fields is typed again.  A form that
\* remembers that it was touched does so until it is saved or left.
Discard ==
  /\ OnPage /\ form.state = "edited" /\ meet.draft # "untouched"
  /\ form' = NewForm
  /\ UNCHANGED <<meet, env, server, cache, shown, calls, told, failed>>

-----------------------------------------------------------------------------
(* The operation *)

Press(p) ==
  /\ OnPage /\ calls[p].stage = "idle"
  /\ \A q \in Presses : q < p => calls[q].stage # "idle"
  /\ \A q \in Presses : calls[q].stage # "panel"
  /\ meet.saves => form.state = "edited"
  /\ \A q \in Presses : Pending(q) =>
       IF calls[q].here THEN ~meet.locked ELSE "reopens" \in env
  /\ calls' = [calls EXCEPT ![p] =
       [NewCall EXCEPT !.stage = "sent", !.here = TRUE,
                       !.again = {q \in Presses : Pending(q) \/ calls[q].stage = "failed"}]]
  /\ form' = IF meet.saves THEN [form EXCEPT !.state = "saving"] ELSE form
  /\ UNCHANGED <<meet, env, server, cache, shown, told, failed>>

\* The server executes the call.
Effect(p, stage) ==
  LET kind == meet.steps[calls[p].step]
  IN  IF kind = "other"
      THEN /\ calls' = [calls EXCEPT ![p].stage = stage]
           /\ UNCHANGED server
      ELSE /\ server < MaxVersion
           /\ server' = server + 1
           /\ calls' = [calls EXCEPT ![p].stage = stage, ![p].wrote = server + 1,
                                     ![p].made = @ \/ kind = "makes"]

Apply(p) ==
  /\ calls[p].stage = "sent"
  /\ Effect(p, "applied")
  /\ UNCHANGED <<meet, env, cache, shown, form, told, failed>>

NextCall(p) ==
  /\ calls[p].stage = "applied" /\ calls[p].step < Len(meet.steps)
  /\ calls' = [calls EXCEPT ![p].stage = "sent", ![p].step = @ + 1]
  /\ UNCHANGED <<meet, env, server, cache, shown, form, told, failed>>

\* invalidateQueries
Refreshed(c) ==
  IF shown
  THEN IF c.data = 0 /\ c.fetch # "none" THEN c ELSE [Ask(c) EXCEPT !.marked = TRUE]
  ELSE IF c.data = 0 THEN c ELSE [c EXCEPT !.marked = TRUE]

\* The refresh restarts whatever fetch is in flight.
Restarts == cache.fetch = "none" \/ (shown /\ cache.data # 0)

\* What a successful operation does to the cache.
Settled(p) ==
  IF meet.sets THEN [cache EXCEPT !.data = calls[p].wrote, !.marked = FALSE, !.old = FALSE]
  ELSE IF meet.covered THEN Refreshed(cache) ELSE cache

Undisturbed ==
  \/ "unrestarted" \in env
  \/ IF meet.sets THEN cache.fetch = "none" ELSE meet.covered => Restarts

\* The form the call was sent from is closed, or emptied, or filled again from
\* the new data.
FormAfterSuccess(p) ==
  IF meet.sets /\ Refills(calls[p].wrote) THEN NewForm
  ELSE IF ~meet.saves \/ ~calls[p].here THEN form
  ELSE IF meet.draft \in {"hydrated", "by field"} /\ form.state = "edited" THEN form
  ELSE [NewForm EXCEPT !.base = IF meet.draft = "mounted" THEN calls[p].wrote ELSE 0]

Succeeds(p) ==
  /\ calls[p].stage = "applied" /\ calls[p].step = Len(meet.steps)
  /\ ~meet.deferred /\ Undisturbed
  /\ cache' = Settled(p)
  /\ IF meet.leaves /\ meet.together /\ calls[p].here
     THEN form' = NewForm /\ shown' = FALSE
     ELSE form' = FormAfterSuccess(p) /\ UNCHANGED shown
  /\ calls' = Over(p, "done")
  /\ told' = Later(told, calls[p].wrote)
  /\ UNCHANGED <<meet, env, server, failed>>

\* The answer is shown first; the refresh comes with the closing of the panel.
ShowsPanel(p) ==
  /\ calls[p].stage = "applied" /\ calls[p].step = Len(meet.steps) /\ meet.deferred
  /\ calls' = [calls EXCEPT ![p].stage = IF calls[p].here THEN "panel" ELSE "done"]
  /\ calls[p].here \/ "walks_away" \in env
  /\ form' = FormAfterSuccess(p)
  /\ told' = Later(told, calls[p].wrote)
  /\ UNCHANGED <<meet, env, server, cache, shown, failed>>

ClosePanel(p) ==
  /\ calls[p].stage = "panel" /\ OnPage /\ Undisturbed
  /\ calls' = Over(p, "done")
  /\ cache' = Settled(p)
  /\ UNCHANGED <<meet, env, server, shown, form, told, failed>>

\* The browser handles an error: the message is shown, the fields are kept.
HandlesError(p) ==
  /\ meet.onError => "unrestarted" \in env \/ Restarts
  /\ cache' = IF meet.onError THEN Refreshed(cache) ELSE cache
  /\ form' = IF form.state = "saving" /\ calls[p].here
             THEN [form EXCEPT !.state = "edited"] ELSE form
  /\ failed' = Later(failed, calls[p].wrote)
  /\ UNCHANGED <<meet, env, server, shown, told>>

\* An error between the first and the last call of a lenient operation.
PassedOver(p) == meet.lenient /\ calls[p].step > 1 /\ calls[p].step < Len(meet.steps)

Reject(p) ==
  /\ calls[p].stage = "sent" /\ ~PassedOver(p)
  /\ calls' = Over(p, "failed")
  /\ HandlesError(p)

PassOver(p) ==
  /\ calls[p].stage = "sent" /\ PassedOver(p)
  /\ calls' = [calls EXCEPT ![p].step = Len(meet.steps)]
  /\ UNCHANGED <<meet, env, server, cache, shown, form, told, failed>>

\* The change was made; the answer is an error, or none.
LoseAnswer(p) ==
  /\ "lost" \in env /\ calls[p].stage = "applied" /\ ~PassedOver(p)
  /\ calls' = Over(p, "failed")
  /\ HandlesError(p)

\* The browser gives up, the call does not.
GiveUp(p) ==
  /\ "late" \in env /\ calls[p].stage = "sent" /\ ~PassedOver(p)
  /\ calls' = [calls EXCEPT ![p].stage = "late"]
  /\ HandlesError(p)

ApplyLate(p) ==
  /\ calls[p].stage = "late"
  /\ Effect(p, "failed")
  /\ UNCHANGED <<meet, env, cache, shown, form, told, failed>>

OthersChange ==
  /\ "others" \in env /\ server < MaxVersion
  /\ server' = server + 1
  /\ UNCHANGED <<meet, env, cache, shown, form, calls, told, failed>>

-----------------------------------------------------------------------------
Operate(p) ==
  \/ Press(p) \/ Apply(p) \/ NextCall(p) \/ Succeeds(p) \/ ShowsPanel(p) \/ ClosePanel(p)
  \/ Reject(p) \/ PassOver(p) \/ LoseAnswer(p) \/ GiveUp(p) \/ ApplyLate(p)

Next ==
  \/ Visit \/ Leave \/ GoesStale \/ Dropped \/ Poll \/ Reconnect \/ ServerReads \/ Arrive
  \/ FetchFails \/ Edit \/ Type \/ Discard \/ OthersChange
  \/ \E p \in Presses : Operate(p)

\* A request that was sent is read and answered, and the timer of a polled
\* query runs.  Nobody has to press anything.
Fairness == WF_vars(ServerReads) /\ WF_vars(Arrive) /\ WF_vars(meet.polls = "always" /\ Poll)

Spec == Init /\ [][Next]_vars /\ Fairness

-----------------------------------------------------------------------------
(* Properties *)

Without(kinds) == env \intersect kinds = {}

Holds(property) == property \notin meet.waived

\* What the operator was told has been done is on the screen, as soon as the
\* screen is not loading and no panel is in front of it: every operation
\* refreshes what it changed on its own page, and what it refreshes elsewhere
\* is not shown as fresh from before (invalidateQueries in the onSuccess of
\* every mutation).
OwnChangeShown ==
  Holds("OwnChangeShown") /\ Without({"offline", "unrestarted", "reopens", "walks_away"})
    => (shown /\ cache.fetch = "none" /\ NoPanel => cache.data >= told)

\* After an error the screen does not hide an effect the operation had.  For
\* the firewall changes that run inside the lockout guard this includes errors
\* after the effect (the onError of components/ufw-firewall.tsx).
ErrorHidesNothing ==
  Holds("ErrorHidesNothing") /\ Without({"late", "offline", "unrestarted"})
    /\ (meet.guarded \/ Without({"lost"}))
    => (shown /\ cache.fetch = "none" => cache.data >= failed)

\* One thing the operator wanted is not made twice, by a call and by one it
\* repeats: the button of a creating operation is disabled while its call is
\* pending, and a call that failed made nothing, so that pressing again is safe.
MadeOnce ==
  Holds("MadeOnce") /\ Without({"lost", "late", "reopens"})
    => \A p \in Presses : calls[p].made => \A q \in calls[p].again : ~calls[q].made

\* What the operator typed into a form stays until the operator sends, discards
\* or leaves it: data that arrives does not overwrite it (the useEffect of the
\* forms that follow the data).  A form that follows the data is overwritten by
\* a refresh that failed after one save and succeeds during the next edit.
EditsSurvive ==
  [][ Holds("EditsSurvive") /\ Without(Kinds \ {"offline", "walks_away"})
        /\ (meet.draft \in {"hydrated", "by field"} => "offline" \notin env)
        /\ form.state = "edited" /\ form'.state # "edited"
      => Discard \/ Visit \/ Leave \/ ~shown' \/ \E p \in Presses : Press(p) ]_vars

\* The fields one starts to edit hold what one was told was saved, so that
\* saving again does not take it back: every operation next to a form refreshes
\* what the form is filled from, and the form is filled when it is opened or
\* whenever the data changes (startEditing and the useEffect of the forms, the
\* invalidateQueries of the operations around them).
SavesOnTop ==
  Holds("SavesOnTop") /\ Without({"hasty", "offline", "unrestarted", "reopens", "walks_away"})
    /\ meet.draft \notin {"none", "blank"}
    => (form.state = "edited" => form.base >= form.seen)

\* A change the operator was told of appears without a further click, also where
\* only the polling of the list brings it.
OwnChangeAppears ==
  (/\ Holds("OwnChangeShown") \/ meet.polls = "always"
   /\ Without({"offline", "unrestarted", "reopens", "walks_away"})
   /\ shown /\ NoPanel)
  ~> (cache.data >= told \/ ~shown \/ ~NoPanel)
=============================================================================
