--------------------------- MODULE WebCacheProofs ---------------------------
(***************************************************************************)
(* Theorems about WebCache, for every table of pages: an operation that    *)
(* refreshes a query never leaves the query's old data on the screen, and  *)
(* one that refreshes it after an error, too, hides no effect behind the   *)
(* error.  The inductive invariant Inv says what the cache must remember   *)
(* for that: data that is shown and not loading was loaded and is not      *)
(* marked, and unmarked data, as well as an answer that is on its way, are *)
(* at least as new as what the operator was told.  Further, a locked       *)
(* operation makes nothing twice (CallsInv), edits start from the newest   *)
(* data (BaseInv), and what is typed survives the data that arrives        *)
(* (EditInv).                                                              *)
(***************************************************************************)
EXTENDS WebCache, TLAPS

Counts ==
  /\ server >= 1 /\ told <= server /\ failed <= server
  /\ \A p \in Presses : calls[p].wrote <= server

\* The server always has something to answer.
Answered == cache.fetch = "answered" => cache.got # 0

\* What is on the screen and not loading was loaded and not marked since.
Loaded == shown /\ cache.fetch = "none" => cache.data # 0 /\ ~cache.marked

\* Nothing older than v will be taken for current.
Current(v) ==
  /\ cache.data # 0 /\ ~cache.marked => cache.data >= v
  /\ cache.fetch = "answered" => cache.got >= v

Calm == Without({"offline", "unrestarted", "reopens", "walks_away"})

Inv ==
  /\ TypeOK /\ Counts /\ Answered
  /\ ~meet.sets /\ "offline" \notin env => Loaded
  /\ ~meet.sets /\ meet.covered /\ Calm /\ NoPanel => Current(told)
  /\ ~meet.sets /\ meet.onError /\ Without({"offline", "unrestarted"}) => Current(failed)

-----------------------------------------------------------------------------
\* Later is the larger of two versions.
LEMMA LaterFact ==
  ASSUME NEW a \in Versions, NEW b \in Versions
  PROVE  /\ Later(a, b) \in {a, b} /\ Later(a, b) \in Versions
         /\ Later(a, b) >= a /\ Later(a, b) >= b
  BY VersionAssumption DEF Versions, Later

\* An empty form and a new call have their types.
LEMMA NewTypes == NewForm \in FormType /\ NewCall \in CallType
  BY VersionAssumption DEF NewForm, FormType, NewCall, CallType, Stages, Versions

\* Init implies the invariant.
LEMMA InitInv == Init => Inv
<1> SUFFICES ASSUME Init PROVE Inv
  OBVIOUS
<1>1. meet \in MeetingType /\ env \subseteq Kinds
  BY MeetingAssumption, EnvironmentAssumption DEF Init
<1>2. server \in Versions /\ told \in Versions /\ failed \in Versions /\ cache \in CacheType
  BY VersionAssumption DEF Init, CacheType, Versions
<1>3. shown \in BOOLEAN /\ form \in FormType /\ calls \in [Presses -> CallType]
  BY NewTypes DEF Init
<1>4. TypeOK
  BY <1>1, <1>2, <1>3 DEF TypeOK
<1>5. Counts
  BY DEF Init, Counts, NewCall
<1>6. Answered /\ Loaded /\ Current(told) /\ Current(failed)
  BY DEF Init, Answered, Loaded, Current
<1> QED
  BY <1>4, <1>5, <1>6 DEF Inv

\* Asking, mounting and refreshing yield cache entries.
LEMMA CacheHelpers ==
  ASSUME TypeOK, NEW c \in CacheType
  PROVE  Ask(c) \in CacheType /\ OnMount(c) \in CacheType /\ Refreshed(c) \in CacheType
<1>1. 0 \in Versions
  BY VersionAssumption DEF Versions
<1>2. Ask(c) \in CacheType
  BY <1>1 DEF Ask, CacheType
<1> QED
  BY <1>2 DEF OnMount, Refreshed, CacheType

\* So do ending a call, settling the cache and closing the form.
LEMMA CallHelpers ==
  ASSUME TypeOK, NEW p \in Presses
  PROVE  /\ calls[p] \in CallType
         /\ \A st \in Stages : Over(p, st) \in [Presses -> CallType]
         /\ Settled(p) \in CacheType /\ FormAfterSuccess(p) \in FormType
<1>1. calls[p] \in CallType
  BY DEF TypeOK
<1>2. ASSUME NEW st \in Stages PROVE Over(p, st) \in [Presses -> CallType]
  <2>1. [NewCall EXCEPT !.stage = st, !.made = calls[p].made, !.again = calls[p].again]
           \in CallType
    BY <1>1, NewTypes DEF CallType
  <2> QED
    BY <2>1 DEF TypeOK, Over
<1>3. Settled(p) \in CacheType
  BY <1>1, CacheHelpers DEF Settled, TypeOK, CacheType, CallType
<1>4. FormAfterSuccess(p) \in FormType
  <2>1. 0 \in Versions
    BY VersionAssumption DEF Versions
  <2>2. \A v \in Versions : [NewForm EXCEPT !.base = v] \in FormType
    BY NewTypes DEF FormType
  <2> QED
    BY <1>1, <2>1, <2>2, NewTypes DEF FormAfterSuccess, TypeOK, CallType
<1> QED
  BY <1>1, <1>2, <1>3, <1>4

\* A form that copies what is on the screen when it appears.
LEMMA FormHelpers ==
  ASSUME TypeOK, NEW v \in Versions
  PROVE  CopyOnMount(v) \in FormType
  BY DEF TypeOK, CopyOnMount, FormType

\* Leaving a page forgets which calls are pending, not what they did.
LEMMA LeavesPageFact ==
  ASSUME TypeOK, LeavesPage
  PROVE  /\ form' \in FormType /\ calls' \in [Presses -> CallType]
         /\ \A p \in Presses : calls'[p].wrote = calls[p].wrote
         /\ "walks_away" \in env \/ (NoPanel /\ NoPanel')
<1>1. form' \in FormType
  BY NewTypes DEF LeavesPage
<1>2. ASSUME NEW p \in Presses
      PROVE  /\ calls'[p] \in CallType /\ calls'[p].wrote = calls[p].wrote
             /\ calls[p].stage # "panel" => calls'[p].stage # "panel"
  <2> DEFINE st == IF calls[p].stage = "panel" THEN "done" ELSE calls[p].stage
  <2>1. calls[p] \in CallType
    BY DEF TypeOK
  <2>2. calls'[p] = [calls[p] EXCEPT !.here = FALSE, !.stage = st]
    BY DEF LeavesPage
  <2>3. st \in Stages /\ (calls[p].stage # "panel" => st # "panel")
    BY <2>1 DEF CallType, Stages
  <2> HIDE DEF st
  <2> QED
    BY <2>1, <2>2, <2>3 DEF CallType
<1>3. calls' \in [Presses -> CallType]
  BY <1>2 DEF LeavesPage
<1> QED
  BY <1>1, <1>2, <1>3 DEF LeavesPage, NoPanel

\* A refresh that restarts the fetch in flight leaves nothing to be taken for
\* current.
LEMMA RefreshedFact ==
  ASSUME TypeOK, Restarts
  PROVE  /\ Refreshed(cache).fetch \in {"asked", "none"}
         /\ Refreshed(cache).data = 0 \/ Refreshed(cache).marked
  BY DEF TypeOK, CacheType, Restarts, Refreshed, Ask

\* A refresh of what is on the screen loads it.
LEMMA RefreshedLoads ==
  ASSUME TypeOK, shown
  PROVE  Refreshed(cache).fetch # "none"
  BY DEF TypeOK, CacheType, Refreshed, Ask

-----------------------------------------------------------------------------
(* One lemma per kind of action *)

\* The actions that load the query change nothing but the cache.
LEMMA QuerySteps ==
  ASSUME Inv,
         GoesStale \/ Dropped \/ Poll \/ Reconnect \/ ServerReads \/ FetchFails
  PROVE  Inv'
<1> USE DEF Inv
<1>1. /\ cache' \in CacheType
      /\ UNCHANGED <<meet, env, server, shown, form, calls, told, failed>>
  <2>1. 0 \in Versions /\ Ask(cache) \in CacheType
    BY VersionAssumption, CacheHelpers DEF Versions, TypeOK
  <2> QED
    BY <2>1 DEF GoesStale, Dropped, Poll, Reconnect, ServerReads, FetchFails, TypeOK, CacheType
<1>2. TypeOK' /\ Counts' /\ Calm' = Calm /\ NoPanel' = NoPanel
      /\ Without({"offline", "unrestarted"})' = Without({"offline", "unrestarted"})
  BY <1>1 DEF TypeOK, Counts, Calm, NoPanel, Without
<1>3. Answered'
  <2>1. server # 0 /\ cache'.fetch = "answered" =>
          cache'.got = server \/ (cache.fetch = "answered" /\ cache'.got = cache.got)
    BY DEF GoesStale, Dropped, Poll, Reconnect, ServerReads, FetchFails, Ask, TypeOK, CacheType
  <2>2. server # 0
    BY VersionAssumption DEF Counts, TypeOK, Versions
  <2> QED
    BY <2>1, <2>2 DEF Answered
<1>4. "offline" \in env \/ ~FetchFails
  BY DEF FetchFails
<1>5. ASSUME ~meet.sets, "offline" \notin env PROVE Loaded'
  BY <1>4, <1>5, <1>1 DEF Loaded, GoesStale, Dropped, Poll, Reconnect, ServerReads, Ask, TypeOK,
     CacheType
<1>6. ASSUME NEW v \in Versions, v <= server, Current(v), ~FetchFails
      PROVE  /\ (cache'.data # 0 /\ ~cache'.marked => cache'.data >= v)
             /\ (cache'.fetch = "answered" => cache'.got >= v)
  BY <1>6, <1>1 DEF Current, GoesStale, Dropped, Poll, Reconnect, ServerReads, Ask, TypeOK,
     CacheType, Versions
<1>7. Calm \/ Without({"offline", "unrestarted"}) => ~FetchFails
  BY <1>4 DEF Calm, Without
<1>8. ~meet.sets /\ meet.covered /\ Calm /\ NoPanel => Current(told)'
  BY <1>1, <1>6, <1>7 DEF TypeOK, Counts, Current
<1>9. ~meet.sets /\ meet.onError /\ Without({"offline", "unrestarted"}) => Current(failed)'
  BY <1>1, <1>6, <1>7 DEF TypeOK, Counts, Current
<1> QED
  BY <1>1, <1>2, <1>3, <1>5, <1>8, <1>9

\* The data arrives.
LEMMA ArriveStep == ASSUME Inv, Arrive PROVE Inv'
<1> USE DEF Inv
<1>1. /\ cache' \in CacheType /\ form' \in FormType
      /\ UNCHANGED <<meet, env, server, shown, calls, told, failed>>
  <2>1. 0 \in Versions /\ cache.got \in Versions
    BY VersionAssumption DEF Versions, TypeOK, CacheType
  <2> QED
    BY <2>1, NewTypes, FormHelpers DEF Arrive, TypeOK, CacheType
<1>2. TypeOK' /\ Counts' /\ Calm' = Calm /\ NoPanel' = NoPanel
      /\ Without({"offline", "unrestarted"})' = Without({"offline", "unrestarted"})
  BY <1>1 DEF TypeOK, Counts, Calm, NoPanel, Without
<1> QED
  BY <1>1, <1>2 DEF Arrive, Answered, Loaded, Current, TypeOK, CacheType

\* A page with the query is opened, or left.
LEMMA PageSteps == ASSUME Inv, Visit \/ Leave PROVE Inv'
<1> USE DEF Inv
<1>1. UNCHANGED <<meet, env, server, told, failed>> /\ shown' \in BOOLEAN
  BY DEF Visit, Leave
<1>2. cache' \in {cache, OnMount(cache)} /\ cache' \in CacheType
  BY CacheHelpers DEF Visit, Leave, TypeOK
<1>3. \/ LeavesPage
      \/ form' \in FormType /\ calls' = calls
  <2>1. cache.data \in Versions
    BY DEF TypeOK, CacheType
  <2> QED
    BY <2>1, FormHelpers DEF Visit, Leave, TypeOK
<1>4. /\ form' \in FormType /\ calls' \in [Presses -> CallType]
      /\ \A p \in Presses : calls'[p].wrote = calls[p].wrote
      /\ "walks_away" \in env \/ (NoPanel' => NoPanel)
  BY <1>3, LeavesPageFact DEF TypeOK, NoPanel
<1>5. TypeOK' /\ Counts'
  BY <1>1, <1>2, <1>4 DEF TypeOK, Counts
<1>6. cache'.fetch \in {cache.fetch, "asked"} /\ cache'.data = cache.data
      /\ cache'.marked = cache.marked /\ (cache'.fetch # "asked" => cache'.got = cache.got)
  BY <1>2 DEF OnMount, Ask, TypeOK, CacheType
<1>7. Answered'
  BY <1>6 DEF Answered
<1>8. Loaded'
  <2>1. CASE Visit
    <3>1. OnMount(cache).fetch = "none" => cache.data # 0 /\ ~cache.marked
      BY DEF OnMount, Ask, TypeOK, CacheType
    <3> QED
      BY <2>1, <3>1, <1>6 DEF Loaded, Visit
  <2>2. CASE Leave
    BY <2>2 DEF Loaded, Leave
  <2> QED
    BY <2>1, <2>2
<1>9. ASSUME NEW v \in Versions, Current(v)
      PROVE  /\ (cache'.data # 0 /\ ~cache'.marked => cache'.data >= v)
             /\ (cache'.fetch = "answered" => cache'.got >= v)
  BY <1>9, <1>6 DEF Current
<1>10. ~meet.sets /\ meet.covered /\ Calm /\ NoPanel' => Current(told)'
  BY <1>1, <1>4, <1>9 DEF TypeOK, Current, Calm, Without
<1>11. ~meet.sets /\ meet.onError /\ Without({"offline", "unrestarted"}) => Current(failed)'
  BY <1>1, <1>9 DEF TypeOK, Current
<1>12. Calm' = Calm
       /\ Without({"offline", "unrestarted"})' = Without({"offline", "unrestarted"})
  BY <1>1 DEF Calm, Without
<1> QED
  BY <1>1, <1>5, <1>7, <1>8, <1>10, <1>11, <1>12

\* Editing, and what others do, touch neither the cache nor the calls.
LEMMA FormSteps == ASSUME Inv, Edit \/ Type \/ Discard \/ OthersChange PROVE Inv'
<1> USE DEF Inv
<1>1. UNCHANGED <<meet, env, cache, shown, calls, told, failed>>
  BY DEF Edit, Type, Discard, OthersChange
<1>2. server' \in Versions /\ server' >= server
  BY VersionAssumption DEF Edit, Type, Discard, OthersChange, TypeOK, Versions
<1>3. form' \in FormType
  <2>1. Later(cache.data, told) \in Versions /\ cache.data \in Versions
    BY LaterFact DEF TypeOK, CacheType
  <2>2. CASE Edit
    BY <2>1, <2>2 DEF Edit, TypeOK, FormType
  <2> QED
    BY <2>2, NewTypes DEF Type, Discard, OthersChange, TypeOK, FormType
<1>4. TypeOK'
  BY <1>1, <1>2, <1>3 DEF TypeOK
<1>5. Counts'
  BY <1>1, <1>2, VersionAssumption DEF TypeOK, Counts, Versions, CallType
<1> QED
  BY <1>1, <1>4, <1>5 DEF Answered, Loaded, Current, Calm, NoPanel, Without

-----------------------------------------------------------------------------
(* The calls of an operation *)

\* Pressing, going on to the next call and being executed by the server leave
\* the cache alone; the version the call wrote is the server's newest.
LEMMA SendSteps ==
  ASSUME Inv, NEW p \in Presses,
         Press(p) \/ Apply(p) \/ NextCall(p) \/ PassOver(p) \/ ApplyLate(p)
  PROVE  Inv'
<1> USE DEF Inv
<1>1. UNCHANGED <<meet, env, cache, shown, told, failed>>
  BY DEF Press, Apply, NextCall, PassOver, ApplyLate
<1>2. server' \in Versions /\ server' >= server /\ server \in Nat
  BY VersionAssumption DEF Press, Apply, NextCall, PassOver, ApplyLate, Effect, TypeOK, Versions
<1>3. form' \in FormType
  BY DEF Press, Apply, NextCall, PassOver, ApplyLate, TypeOK, FormType
<1>4. /\ calls' = [calls EXCEPT ![p] = calls'[p]] /\ calls'[p] \in CallType
      /\ calls'[p].wrote <= server' /\ calls'[p].stage # "panel"
  <2>1. calls[p] \in CallType /\ calls[p].wrote <= server /\ calls[p].stage \in Stages
    BY DEF TypeOK, CallType, Counts
  <2>2. CASE Press(p)
    <3>1. PICK b \in SUBSET Presses : calls' = [calls EXCEPT ![p] =
            [NewCall EXCEPT !.stage = "sent", !.here = TRUE, !.again = b]]
      BY <2>2 DEF Press
    <3>2. [NewCall EXCEPT !.stage = "sent", !.here = TRUE, !.again = b] \in CallType
      BY NewTypes DEF CallType, Stages
    <3>3. calls'[p] = [NewCall EXCEPT !.stage = "sent", !.here = TRUE, !.again = b]
      BY <3>1 DEF TypeOK
    <3>4. calls'[p].wrote = 0 /\ calls'[p].stage = "sent"
      BY <3>3 DEF NewCall
    <3>5. 0 <= server'
      BY <1>2, VersionAssumption DEF Versions
    <3> QED
      BY <3>1, <3>2, <3>3, <3>4, <3>5, Zenon
  <2>3. ASSUME NEW st \in {"applied", "failed"}, Effect(p, st)
        PROVE  /\ calls' = [calls EXCEPT ![p] = calls'[p]] /\ calls'[p] \in CallType
               /\ calls'[p].wrote <= server' /\ calls'[p].stage # "panel"
    <3>1. CASE meet.steps[calls[p].step] = "other"
      BY <2>1, <2>3, <3>1 DEF Effect, TypeOK, CallType, Stages
    <3>2. CASE meet.steps[calls[p].step] # "other"
      <4>1. server + 1 \in Versions /\ server' = server + 1
        BY <2>3, <3>2, VersionAssumption DEF Effect, TypeOK, Versions
      <4> QED
        BY <2>1, <2>3, <3>2, <4>1, <1>2 DEF Effect, TypeOK, CallType, Stages
    <3> QED
      BY <3>1, <3>2
  <2>4. CASE NextCall(p)
    BY <2>1, <2>4 DEF NextCall, TypeOK, CallType, Stages
  <2>5. CASE PassOver(p)
    <3>1. Len(meet.steps) \in Nat
      BY DEF TypeOK, MeetingType
    <3> QED
      BY <2>1, <2>5, <3>1 DEF PassOver, TypeOK, CallType, Stages
  <2> QED
    BY <2>2, <2>3, <2>4, <2>5 DEF Apply, ApplyLate
<1>5. calls' \in [Presses -> CallType] /\ \A q \in Presses : q # p => calls'[q] = calls[q]
  BY <1>4 DEF TypeOK
<1>6. TypeOK'
  BY <1>1, <1>2, <1>3, <1>5 DEF TypeOK
<1>7. Counts'
  BY <1>1, <1>2, <1>4, <1>5, VersionAssumption DEF TypeOK, Counts, Versions, CallType
<1>8. NoPanel' => NoPanel \/ calls[p].stage = "panel"
  BY <1>5 DEF NoPanel
<1>9. calls[p].stage # "panel"
  BY DEF Press, Apply, NextCall, PassOver, ApplyLate
<1> QED
  BY <1>1, <1>6, <1>7, <1>8, <1>9 DEF Answered, Loaded, Current, Calm, Without

\* A call that ends keeps to its types, and forgets the version it wrote.
LEMMA OverFact ==
  ASSUME Inv, NEW p \in Presses, NEW st \in Stages, st # "panel", calls' = Over(p, st)
  PROVE  /\ calls' \in [Presses -> CallType]
         /\ \A q \in Presses : calls'[q].wrote \in {0, calls[q].wrote}
         /\ calls[p].stage # "panel" /\ NoPanel' => NoPanel
<1> USE DEF Inv
<1>1. calls' \in [Presses -> CallType]
  BY CallHelpers
<1>2. calls'[p].wrote = 0
  BY DEF Over, TypeOK, NewCall
<1>3. \A q \in Presses : q # p => calls'[q] = calls[q]
  BY DEF Over, TypeOK
<1> QED
  BY <1>1, <1>2, <1>3 DEF NoPanel

\* Counting what the operator was told, or shown, after a call.
LEMMA LaterCounts ==
  ASSUME Inv, NEW p \in Presses
  PROVE  /\ Later(told, calls[p].wrote) \in Versions /\ Later(failed, calls[p].wrote) \in Versions
         /\ Later(told, calls[p].wrote) <= server /\ Later(failed, calls[p].wrote) <= server
<1>1. /\ calls[p].wrote \in Versions /\ told \in Versions /\ failed \in Versions
      /\ calls[p].wrote <= server /\ told <= server /\ failed <= server
  BY DEF Inv, TypeOK, CallType, Counts
<1> QED
  BY <1>1, LaterFact DEF Later

\* An operation that was executed refreshes the cache, with its last call or
\* with the closing of its panel.
LEMMA SuccessSteps ==
  ASSUME Inv, NEW p \in Presses, Succeeds(p) \/ ClosePanel(p)
  PROVE  Inv'
<1> USE DEF Inv
<1>1. /\ UNCHANGED <<meet, env, server, failed>> /\ cache' = Settled(p)
      /\ calls' = Over(p, "done") /\ Undisturbed
      /\ told' \in {told, Later(told, calls[p].wrote)} /\ shown' \in {shown, FALSE}
      /\ form' \in {form, NewForm, FormAfterSuccess(p)}
  BY DEF Succeeds, ClosePanel
<1>2. cache' \in CacheType /\ form' \in FormType
  BY <1>1, CallHelpers, NewTypes DEF TypeOK
<1>3. told' \in Versions /\ told' <= server
  BY <1>1, LaterCounts DEF TypeOK, Counts
<1>4. /\ calls' \in [Presses -> CallType]
      /\ \A q \in Presses : calls'[q].wrote \in {0, calls[q].wrote}
      /\ Succeeds(p) /\ NoPanel' => NoPanel
  <2>1. "done" \in Stages
    BY DEF Stages
  <2> QED
    BY <1>1, <2>1, OverFact DEF Succeeds
<1>5. TypeOK'
  BY <1>1, <1>2, <1>3, <1>4 DEF TypeOK
<1>6. Counts'
  BY <1>1, <1>3, <1>4, VersionAssumption DEF Counts, TypeOK, Versions
<1>7. meet.sets => cache'.fetch = cache.fetch /\ cache'.got = cache.got
  BY <1>1 DEF Settled, TypeOK, CacheType
<1>8. ASSUME ~meet.sets, ~meet.covered PROVE cache' = cache
  BY <1>1, <1>8 DEF Settled
<1>9. ASSUME ~meet.sets, meet.covered PROVE cache' = Refreshed(cache)
  BY <1>1, <1>9 DEF Settled
<1>10. cache'.fetch \in {cache.fetch, "asked"} /\ (cache'.fetch = "answered" => cache'.got = cache.got)
  BY <1>7, <1>8, <1>9 DEF Refreshed, Ask, TypeOK, CacheType
<1>11. Answered'
  BY <1>10 DEF Answered, TypeOK, CacheType
<1>12. ASSUME ~meet.sets, "offline" \notin env PROVE Loaded'
  <2>1. CASE ~meet.covered
    BY <1>1, <1>8, <1>12, <2>1 DEF Loaded
  <2>2. CASE meet.covered
    BY <1>1, <1>9, <1>12, <2>2, RefreshedLoads DEF Loaded
  <2> QED
    BY <2>1, <2>2
<1>13. ASSUME ~meet.sets, meet.covered, "unrestarted" \notin env
       PROVE  \A v : (cache'.data # 0 /\ ~cache'.marked => cache'.data >= v)
                     /\ (cache'.fetch = "answered" => cache'.got >= v)
  <2>1. Restarts
    BY <1>1, <1>13 DEF Undisturbed
  <2> QED
    BY <2>1, <1>9, <1>13, RefreshedFact
<1>14. ~meet.sets /\ meet.covered /\ Calm => Current(told)'
  BY <1>13 DEF Calm, Without, Current
<1>15. ~meet.sets /\ meet.onError /\ Without({"offline", "unrestarted"}) => Current(failed)'
  <2>1. Without({"offline", "unrestarted"}) => "unrestarted" \notin env
    BY DEF Without
  <2> QED
    BY <1>1, <1>8, <1>13, <2>1 DEF Current
<1>16. Calm' = Calm
       /\ Without({"offline", "unrestarted"})' = Without({"offline", "unrestarted"})
  BY <1>1 DEF Calm, Without
<1> QED
  BY <1>1, <1>5, <1>6, <1>11, <1>12, <1>14, <1>15, <1>16

\* The answer is shown in a panel, and the refresh waits.
LEMMA PanelStep == ASSUME Inv, NEW p \in Presses, ShowsPanel(p) PROVE Inv'
<1> USE DEF Inv
<1>1. UNCHANGED <<meet, env, server, cache, shown, failed>>
  BY DEF ShowsPanel
<1>2. form' \in FormType /\ told' \in Versions /\ told' <= server
  BY CallHelpers, LaterCounts DEF ShowsPanel
<1>3. /\ calls' \in [Presses -> CallType]
      /\ \A q \in Presses : calls'[q].wrote = calls[q].wrote
      /\ "walks_away" \notin env => ~NoPanel'
  BY DEF ShowsPanel, TypeOK, CallType, Stages, NoPanel
<1>4. TypeOK' /\ Counts'
  BY <1>1, <1>2, <1>3 DEF TypeOK, Counts
<1>5. Calm => "walks_away" \notin env
  BY DEF Calm, Without
<1> QED
  BY <1>1, <1>3, <1>4, <1>5 DEF Answered, Loaded, Current, Calm, Without

\* An error is shown.
LEMMA ErrorSteps ==
  ASSUME Inv, NEW p \in Presses, Reject(p) \/ LoseAnswer(p) \/ GiveUp(p)
  PROVE  Inv'
<1> USE DEF Inv
<1>1. /\ HandlesError(p) /\ UNCHANGED <<meet, env, server, shown, told>>
      /\ failed' = Later(failed, calls[p].wrote)
  BY DEF Reject, LoseAnswer, GiveUp, HandlesError
<1>2. /\ calls' \in [Presses -> CallType]
      /\ \A q \in Presses : calls'[q].wrote \in {0, calls[q].wrote}
      /\ NoPanel' => NoPanel
  <2>1. "failed" \in Stages /\ "late" \in Stages
    BY DEF Stages
  <2>2. CASE GiveUp(p)
    BY <2>1, <2>2 DEF GiveUp, TypeOK, CallType, NoPanel
  <2>3. CASE Reject(p) \/ LoseAnswer(p)
    BY <2>1, <2>3, OverFact DEF Reject, LoseAnswer
  <2> QED
    BY <2>2, <2>3
<1>3. cache' \in CacheType /\ form' \in FormType
  BY <1>1, CacheHelpers DEF HandlesError, TypeOK, FormType
<1>4. failed' \in Versions /\ failed' <= server
  BY <1>1, LaterCounts
<1>5. TypeOK'
  BY <1>1, <1>2, <1>3, <1>4 DEF TypeOK
<1>6. Counts'
  BY <1>1, <1>2, <1>4, VersionAssumption DEF Counts, TypeOK, Versions
<1>7. ASSUME ~meet.onError PROVE cache' = cache
  BY <1>1, <1>7 DEF HandlesError
<1>8. ASSUME meet.onError PROVE cache' = Refreshed(cache)
  BY <1>1, <1>8 DEF HandlesError
<1>9. Answered'
  BY <1>7, <1>8 DEF Answered, Refreshed, Ask, TypeOK, CacheType
<1>10. ASSUME ~meet.sets, "offline" \notin env PROVE Loaded'
  <2>1. CASE ~meet.onError
    BY <1>1, <1>7, <1>10, <2>1 DEF Loaded
  <2>2. CASE meet.onError
    BY <1>1, <1>8, <1>10, <2>2, RefreshedLoads DEF Loaded
  <2> QED
    BY <2>1, <2>2
<1>11. ASSUME meet.onError, "unrestarted" \notin env
       PROVE  \A v : (cache'.data # 0 /\ ~cache'.marked => cache'.data >= v)
                     /\ (cache'.fetch = "answered" => cache'.got >= v)
  <2>1. Restarts
    BY <1>1, <1>11 DEF HandlesError
  <2> QED
    BY <2>1, <1>8, <1>11, RefreshedFact
<1>12. ~meet.sets /\ meet.covered /\ Calm /\ NoPanel' => Current(told)'
  <2>1. Calm => "unrestarted" \notin env
    BY DEF Calm, Without
  <2> QED
    BY <1>1, <1>2, <1>7, <1>11, <2>1 DEF Current
<1>13. ~meet.sets /\ meet.onError /\ Without({"offline", "unrestarted"}) => Current(failed)'
  <2>1. Without({"offline", "unrestarted"}) => "unrestarted" \notin env
    BY DEF Without
  <2> QED
    BY <1>11, <2>1 DEF Current
<1>14. Calm' = Calm
       /\ Without({"offline", "unrestarted"})' = Without({"offline", "unrestarted"})
  BY <1>1 DEF Calm, Without
<1> QED
  BY <1>1, <1>5, <1>6, <1>9, <1>10, <1>12, <1>13, <1>14

-----------------------------------------------------------------------------
\* Every step keeps the invariant.
LEMMA NextInv == Inv /\ [Next]_vars => Inv'
<1> SUFFICES ASSUME Inv, [Next]_vars PROVE Inv'
  OBVIOUS
<1>1. CASE UNCHANGED vars
  BY <1>1 DEF vars, Inv, TypeOK, Counts, Answered, Loaded, Current, Calm, NoPanel, Without
<1>2. ASSUME NEW p \in Presses, Operate(p) PROVE Inv'
  BY <1>2, SendSteps, SuccessSteps, PanelStep, ErrorSteps DEF Operate
<1> QED
  BY <1>1, <1>2, QuerySteps, ArriveStep, PageSteps, FormSteps DEF Next

\* The invariant holds in every reachable state.
THEOREM Invariance == Spec => []Inv
  BY InitInv, NextInv, PTL DEF Spec

\* The variables keep their types, however the tables are filled (the whole of
\* the query cache as the pages use it).
THEOREM TypesKept == Spec => []TypeOK
<1>1. Inv => TypeOK
  BY DEF Inv
<1> QED
  BY <1>1, Invariance, PTL

\* Whatever the tables say, an operation that refreshes a query (a key it passes
\* to invalidateQueries is a prefix of the query's) never leaves the query's
\* old data on the screen.
THEOREM RefreshedIsShown == Spec => [](meet.covered /\ ~meet.sets => OwnChangeShown)
<1>1. Inv => (meet.covered /\ ~meet.sets => OwnChangeShown)
  <2> SUFFICES ASSUME Inv, meet.covered, ~meet.sets, Calm, shown, cache.fetch = "none", NoPanel
               PROVE  cache.data >= told
    BY DEF OwnChangeShown, Calm
  <2>1. Loaded
    BY DEF Inv, Calm, Without
  <2>2. Current(told)
    BY DEF Inv
  <2> QED
    BY <2>1, <2>2 DEF Loaded, Current
<1> QED
  BY <1>1, Invariance, PTL

\* Whatever the tables say, an operation that refreshes a query after an error,
\* too (the onError of components/ufw-firewall.tsx), hides no effect it had.
THEOREM ErrorsAreShown == Spec => [](meet.onError /\ ~meet.sets => ErrorHidesNothing)
<1>1. Inv => (meet.onError /\ ~meet.sets => ErrorHidesNothing)
  <2> SUFFICES ASSUME Inv, meet.onError, ~meet.sets, Without({"late", "offline", "unrestarted"}),
                      shown, cache.fetch = "none"
               PROVE  cache.data >= failed
    BY DEF ErrorHidesNothing
  <2>1. "offline" \notin env /\ Without({"offline", "unrestarted"})
    BY DEF Without
  <2>2. Loaded /\ Current(failed)
    BY <2>1 DEF Inv
  <2> QED
    BY <2>2 DEF Loaded, Current
<1> QED
  BY <1>1, Invariance, PTL

-----------------------------------------------------------------------------
(* Pressing again *)

Sober == Without({"lost", "late", "reopens"})

Makes == \E i \in DOMAIN meet.steps : meet.steps[i] = "makes"

\* What makes something is the last call of an operation whose button is disabled
\* while it is pending.
MakesLast ==
  \A i \in DOMAIN meet.steps : meet.steps[i] = "makes" => meet.locked /\ i = Len(meet.steps)

\* A call that made something will not fail.
KeepsWhatItMade(c) ==
  c.made => Makes /\ (c.stage \in {"panel", "done"} \/ (c.stage = "applied" /\ c.step = Len(meet.steps)))

CallsInv ==
  /\ \A p \in Presses : calls[p].step \in DOMAIN meet.steps
  /\ Sober /\ MakesLast => \A p \in Presses :
       /\ calls[p].stage # "late" /\ KeepsWhatItMade(calls[p])
       /\ Makes => \A q \in calls[p].again : calls[q].stage = "failed"

-----------------------------------------------------------------------------
(* The draft *)

Still == Without(Kinds \ {"offline", "walks_away"})

\* One call of the form at a time, and while it is pending nobody edits.
EditInv ==
  Still /\ meet.saves =>
    /\ \A p \in Presses : Pending(p) /\ calls[p].here => form.state # "edited"
    /\ \A p, q \in Presses : Pending(p) /\ calls[p].here /\ Pending(q) /\ calls[q].here => p = q

\* Fields that are copied when the form is opened, or follow the data, next to an
\* operation that refreshes the data.
Fresh ==
  /\ meet.together /\ meet.covered /\ ~meet.sets /\ Calm /\ "hasty" \notin env
  /\ meet.draft \notin {"none", "blank", "mounted"}

BaseInv == Fresh => (form.state # "idle" => form.base >= form.seen)

-----------------------------------------------------------------------------
\* A step that changes one call.
LEMMA OneCall ==
  ASSUME TypeOK, TypeOK', CallsInv, UNCHANGED <<meet, env>>, NEW p \in Presses,
         calls' = [calls EXCEPT ![p] = calls'[p]], calls'[p].step \in DOMAIN meet.steps,
         Sober /\ MakesLast =>
           /\ calls'[p].stage # "late" /\ KeepsWhatItMade(calls'[p])
           /\ Makes => \A q \in calls'[p].again : calls[q].stage = "failed"
           /\ calls[p].stage # "failed" \/ calls'[p].stage = "failed"
  PROVE  CallsInv'
<1>1. \A q \in Presses : q # p => calls'[q] = calls[q]
  BY DEF TypeOK
<1>2. Sober' = Sober /\ MakesLast' = MakesLast /\ Makes' = Makes
  BY DEF Sober, Without, MakesLast, Makes
<1>3. \A q \in Presses : calls'[q].step \in DOMAIN meet.steps
  BY <1>1 DEF CallsInv
<1>4. ASSUME Sober, MakesLast, NEW q \in Presses
      PROVE  /\ calls'[q].stage # "late" /\ KeepsWhatItMade(calls'[q])
             /\ Makes => \A x \in calls'[q].again : calls'[x].stage = "failed"
  <2>1. calls'[q].stage # "late" /\ KeepsWhatItMade(calls'[q])
    BY <1>1, <1>4 DEF CallsInv
  <2>2. ASSUME Makes, NEW x \in calls'[q].again PROVE calls'[x].stage = "failed"
    <3>0. x \in Presses
      BY <2>2 DEF TypeOK, CallType
    <3>1. calls[x].stage = "failed"
      BY <1>1, <1>4, <2>2 DEF CallsInv
    <3>2. CASE x = p
      BY <1>4, <3>1, <3>2
    <3>3. CASE x # p
      BY <1>1, <3>0, <3>1, <3>3
    <3> QED BY <3>2, <3>3
  <2> QED BY <2>1, <2>2
<1> QED BY <1>2, <1>3, <1>4 DEF CallsInv, KeepsWhatItMade

\* Leaving a page keeps what the calls did.
LEMMA LeavingKeepsCalls ==
  ASSUME TypeOK, CallsInv, UNCHANGED <<meet, env>>, LeavesPage
  PROVE  CallsInv'
<1>1. \A p \in Presses :
        /\ calls'[p].step = calls[p].step /\ calls'[p].made = calls[p].made
        /\ calls'[p].again = calls[p].again
        /\ calls'[p].stage = IF calls[p].stage = "panel" THEN "done" ELSE calls[p].stage
  <2> SUFFICES ASSUME NEW p \in Presses
               PROVE  /\ calls'[p].step = calls[p].step /\ calls'[p].made = calls[p].made
                      /\ calls'[p].again = calls[p].again
                      /\ calls'[p].stage = IF calls[p].stage = "panel" THEN "done" ELSE calls[p].stage
    OBVIOUS
  <2> DEFINE st == IF calls[p].stage = "panel" THEN "done" ELSE calls[p].stage
  <2>1. calls[p] \in CallType
    BY DEF TypeOK
  <2>2. calls'[p] = [calls[p] EXCEPT !.here = FALSE, !.stage = st]
    BY DEF LeavesPage
  <2>3. calls'[p].stage = st
    <3> HIDE DEF st
    <3> QED BY <2>1, <2>2 DEF CallType
  <2>4. /\ calls'[p].step = calls[p].step /\ calls'[p].made = calls[p].made
        /\ calls'[p].again = calls[p].again
    <3> HIDE DEF st
    <3> QED BY <2>1, <2>2 DEF CallType
  <2> QED BY <2>3, <2>4
<1>2. Sober' = Sober /\ MakesLast' = MakesLast /\ Makes' = Makes
  BY DEF Sober, Without, MakesLast, Makes
<1>3. ASSUME NEW p \in Presses, KeepsWhatItMade(calls[p]) PROVE KeepsWhatItMade(calls[p])'
  BY <1>1, <1>2, <1>3 DEF KeepsWhatItMade
<1>4. ASSUME NEW p \in Presses PROVE \A q \in calls[p].again : q \in Presses
  BY DEF TypeOK, CallType
<1>5. ASSUME Sober, MakesLast, NEW p \in Presses
      PROVE  /\ calls'[p].stage # "late" /\ KeepsWhatItMade(calls[p])'
             /\ Makes => \A q \in calls'[p].again : calls'[q].stage = "failed"
  BY <1>1, <1>3, <1>4, <1>5 DEF CallsInv
<1> QED BY <1>1, <1>2, <1>5 DEF CallsInv

\* One step per action of a call.
LEMMA CallKept ==
  ASSUME Inv, TypeOK', CallsInv, NEW p \in Presses, Operate(p)
  PROVE  CallsInv'
<1>0. /\ calls \in [Presses -> CallType] /\ calls[p] \in CallType /\ meet.steps \in Seq({"makes", "writes", "other"})
      /\ calls[p].step \in DOMAIN meet.steps /\ DOMAIN meet.steps = 1 .. Len(meet.steps)
      /\ Len(meet.steps) \in Nat
  BY DEF Inv, TypeOK, CallsInv, MeetingType
<1>1. UNCHANGED <<meet, env>> /\ TypeOK
  BY DEF Inv, Operate, Press, Apply, NextCall, Succeeds, ShowsPanel, ClosePanel, Reject, PassOver, LoseAnswer,
         GiveUp, ApplyLate, HandlesError
<1>2. Sober /\ MakesLast =>
        /\ calls[p].stage # "late" /\ KeepsWhatItMade(calls[p])
        /\ Makes => \A q \in calls[p].again : calls[q].stage = "failed"
  BY DEF CallsInv
<1>3. CASE Press(p)
  <2> DEFINE b == {q \in Presses : Pending(q) \/ calls[q].stage = "failed"}
             rec == [NewCall EXCEPT !.stage = "sent", !.here = TRUE, !.again = b]
  <2>1. calls' = [calls EXCEPT ![p] = rec] /\ calls'[p] = rec /\ calls[p].stage = "idle"
    BY <1>0, <1>3 DEF Press
  <2>2. /\ calls'[p].stage = "sent" /\ calls'[p].step = 1 /\ ~calls'[p].made
        /\ calls'[p].again = b
    <3> HIDE DEF b
    <3>1. rec.stage = "sent" /\ rec.step = 1 /\ rec.made = FALSE /\ rec.again = b
      BY DEF NewCall
    <3> QED BY <2>1, <3>1
  <2>3. 1 \in DOMAIN meet.steps
    BY <1>0
  <2>4. ASSUME Sober, MakesLast, Makes PROVE \A q \in b : calls[q].stage = "failed"
    <3>1. meet.locked /\ "reopens" \notin env
      BY <2>4 DEF MakesLast, Makes, Sober, Without
    <3>2. \A q \in Presses : ~Pending(q)
      BY <1>3, <3>1 DEF Press
    <3> QED BY <3>2
  <2> HIDE DEF rec, b
  <2> QED BY <1>1, <2>1, <2>2, <2>3, <2>4, OneCall DEF KeepsWhatItMade
<1>4. ASSUME NEW st \in {"applied", "failed"}, Effect(p, st), calls[p].stage \in {"sent", "late"},
             st = "failed" => calls[p].stage = "late"
      PROVE  CallsInv'
  <2> DEFINE kind == meet.steps[calls[p].step]
  <2>1. /\ calls' = [calls EXCEPT ![p] = calls'[p]] /\ calls'[p].step = calls[p].step
        /\ calls'[p].stage = st /\ calls'[p].again = calls[p].again
        /\ calls'[p].made => calls[p].made \/ kind = "makes"
    BY <1>0, <1>4 DEF Effect, CallType
  <2>2. ASSUME Sober, MakesLast PROVE st = "applied" /\ KeepsWhatItMade(calls'[p])
    <3>1. st = "applied" /\ ~calls[p].made
      BY <1>2, <1>4, <2>2 DEF KeepsWhatItMade
    <3>2. kind = "makes" => Makes /\ calls[p].step = Len(meet.steps)
      BY <1>0, <2>2 DEF MakesLast, Makes
    <3> HIDE DEF kind
    <3> QED BY <2>1, <3>1, <3>2 DEF KeepsWhatItMade
  <2> HIDE DEF kind
  <2> QED BY <1>0, <1>1, <1>2, <1>4, <2>1, <2>2, OneCall
<1>5. CASE Apply(p) \/ ApplyLate(p)
  BY <1>4, <1>5 DEF Apply, ApplyLate
<1>6. CASE NextCall(p)
  <2>1. /\ calls' = [calls EXCEPT ![p] = calls'[p]] /\ calls'[p].step = calls[p].step + 1
        /\ calls'[p].stage = "sent" /\ calls'[p].again = calls[p].again
        /\ calls'[p].made = calls[p].made
    BY <1>0, <1>6 DEF NextCall, CallType
  <2>2. calls[p].stage = "applied" /\ calls[p].step < Len(meet.steps)
    BY <1>6 DEF NextCall
  <2>3. calls'[p].step \in DOMAIN meet.steps
    BY <1>0, <2>1, <2>2
  <2>4. Sober /\ MakesLast => ~calls[p].made
    BY <1>0, <1>2, <2>2 DEF KeepsWhatItMade
  <2> QED BY <1>1, <1>2, <2>1, <2>2, <2>3, <2>4, OneCall DEF KeepsWhatItMade
<1>7. CASE PassOver(p)
  <2>1. /\ calls' = [calls EXCEPT ![p] = calls'[p]] /\ calls'[p].step = Len(meet.steps)
        /\ calls'[p].stage = calls[p].stage /\ calls'[p].again = calls[p].again
        /\ calls'[p].made = calls[p].made /\ calls[p].stage = "sent"
    BY <1>0, <1>7 DEF PassOver, CallType
  <2>2. calls'[p].step \in DOMAIN meet.steps
    BY <1>0, <2>1
  <2>3. Sober /\ MakesLast => ~calls[p].made
    BY <1>2, <2>1 DEF KeepsWhatItMade
  <2> QED BY <1>1, <1>2, <2>1, <2>2, <2>3, OneCall DEF KeepsWhatItMade
<1>8. ASSUME NEW st \in {"done", "failed"}, calls' = Over(p, st),
             calls[p].stage \in {"sent", "applied", "panel"},
             Sober /\ st = "failed" => calls[p].stage = "sent"
      PROVE  CallsInv'
  <2> DEFINE rec == [NewCall EXCEPT !.stage = st, !.made = calls[p].made, !.again = calls[p].again]
  <2>1. calls' = [calls EXCEPT ![p] = rec] /\ calls'[p] = rec
    BY <1>0, <1>8 DEF Over
  <2>2. /\ calls'[p].stage = st /\ calls'[p].step = 1 /\ calls'[p].made = calls[p].made
        /\ calls'[p].again = calls[p].again
    <3>1. rec.stage = st /\ rec.step = 1 /\ rec.made = calls[p].made /\ rec.again = calls[p].again
      BY DEF NewCall
    <3> QED BY <2>1, <3>1
  <2>3. 1 \in DOMAIN meet.steps
    BY <1>0
  <2>4. Sober /\ MakesLast /\ st = "failed" => ~calls[p].made
    BY <1>2, <1>8 DEF KeepsWhatItMade
  <2> HIDE DEF rec
  <2> QED BY <1>1, <1>2, <1>8, <2>1, <2>2, <2>3, <2>4, OneCall DEF KeepsWhatItMade
<1>9. CASE Succeeds(p) \/ ClosePanel(p) \/ Reject(p) \/ LoseAnswer(p)
  <2>1. LoseAnswer(p) => ~Sober
    BY DEF LoseAnswer, Sober, Without
  <2> QED BY <1>8, <1>9, <2>1 DEF Succeeds, ClosePanel, Reject, LoseAnswer
<1>10. CASE ShowsPanel(p)
  <2>1. /\ calls' = [calls EXCEPT ![p] = calls'[p]] /\ calls'[p].step = calls[p].step
        /\ calls'[p].stage \in {"panel", "done"} /\ calls'[p].again = calls[p].again
        /\ calls'[p].made = calls[p].made /\ calls[p].stage = "applied"
    BY <1>0, <1>10 DEF ShowsPanel, CallType
  <2> QED BY <1>0, <1>1, <1>2, <2>1, OneCall DEF KeepsWhatItMade
<1>11. CASE GiveUp(p)
  <2>1. calls' = [calls EXCEPT ![p] = calls'[p]] /\ calls'[p].step = calls[p].step
    BY <1>0, <1>11 DEF GiveUp, CallType
  <2>2. ~Sober
    BY <1>11 DEF GiveUp, Sober, Without
  <2> QED BY <1>0, <1>1, <2>1, <2>2, OneCall
<1> QED BY <1>3, <1>5, <1>6, <1>7, <1>9, <1>10, <1>11 DEF Operate

\* One thing the operator wanted is not made twice, where what makes it is the last call
\* of an operation whose button is disabled while it is pending: a call that failed made
\* nothing.
THEOREM NothingIsMadeTwice == Spec => [](MakesLast => MadeOnce)
<1>1. Init => CallsInv
  <2> SUFFICES ASSUME Init PROVE CallsInv
    OBVIOUS
  <2>1. \A p \in Presses : /\ calls[p].step = 1 /\ calls[p].stage = "idle" /\ ~calls[p].made
                           /\ calls[p].again = {}
    BY DEF Init, NewCall
  <2>2. meet.steps \in Seq({"makes", "writes", "other"}) /\ meet.steps # << >>
    BY MeetingAssumption DEF Init, MeetingType
  <2>3. 1 \in DOMAIN meet.steps
    BY <2>2
  <2> QED BY <2>1, <2>3 DEF CallsInv, KeepsWhatItMade
<1>2. Inv /\ Inv' /\ CallsInv /\ [Next]_vars => CallsInv'
  <2> SUFFICES ASSUME Inv, Inv', CallsInv, [Next]_vars PROVE CallsInv'
    OBVIOUS
  <2>0. TypeOK /\ TypeOK'
    BY DEF Inv
  <2>1. CASE UNCHANGED <<meet, env, calls>>
    BY <2>1 DEF CallsInv, KeepsWhatItMade, Sober, MakesLast, Makes, Without
  <2>2. CASE Visit \/ Leave
    BY <2>0, <2>1, <2>2, LeavingKeepsCalls DEF Visit, Leave
  <2>3. ASSUME NEW p \in Presses, Operate(p) PROVE CallsInv'
    BY <2>0, <2>3, CallKept
  <2> QED BY <2>1, <2>2, <2>3 DEF Next, GoesStale, Dropped, Poll, Reconnect, ServerReads, Arrive, FetchFails,
                                  Edit, Type, Discard, OthersChange, vars
<1>3. Inv /\ CallsInv => (MakesLast => MadeOnce)
  <2> SUFFICES ASSUME Inv, CallsInv, MakesLast, Sober, NEW p \in Presses, calls[p].made,
                      NEW q \in calls[p].again
               PROVE  ~calls[q].made
    BY DEF MadeOnce, Sober
  <2>1. q \in Presses
    BY DEF Inv, TypeOK, CallType
  <2>2. calls[q].stage = "failed"
    BY DEF CallsInv, KeepsWhatItMade
  <2> QED BY <2>1, <2>2 DEF CallsInv, KeepsWhatItMade
<1>4. Spec => []CallsInv
  BY <1>1, <1>2, Invariance, PTL DEF Spec
<1> QED BY <1>3, <1>4, Invariance, PTL

-----------------------------------------------------------------------------
(* What is typed *)

ErrorOf(p) == Reject(p) \/ LoseAnswer(p) \/ GiveUp(p)

\* How the fields may change.
LEMMA FormMoves ==
  ASSUME Inv, [Next]_vars
  PROVE  /\ UNCHANGED <<meet, env>>
         /\ \/ form'.state = "idle"
            \/ /\ form'.state = form.state /\ form'.seen = form.seen
               /\ meet.draft # "mounted" => form'.base = form.base
            \/ Edit \/ Type
            \/ \E p \in Presses : Press(p)
            \/ \E p \in Presses : /\ ErrorOf(p) /\ calls[p].here /\ form.state = "saving"
                                  /\ form' = [form EXCEPT !.state = "edited"]
<1> DEFINE Same == /\ form'.state = form.state /\ form'.seen = form.seen
                   /\ meet.draft # "mounted" => form'.base = form.base
           Moves == \/ form'.state = "idle" \/ Same \/ Edit \/ Type
                    \/ \E p \in Presses : Press(p)
                    \/ \E p \in Presses : /\ ErrorOf(p) /\ calls[p].here /\ form.state = "saving"
                                          /\ form' = [form EXCEPT !.state = "edited"]
<1>0. form \in FormType /\ NewForm.state = "idle"
  BY DEF Inv, TypeOK, NewForm
<1>1. UNCHANGED <<meet, env>>
  BY DEF Next, Visit, Leave, GoesStale, Dropped, Poll, Reconnect, ServerReads, Arrive, FetchFails, Edit, Type,
         Discard, OthersChange, Operate, Press, Apply, NextCall, Succeeds, ShowsPanel, ClosePanel, Reject,
         PassOver, LoseAnswer, GiveUp, ApplyLate, HandlesError, vars
<1>2. ASSUME UNCHANGED form PROVE Moves
  BY <1>2
<1>3. ASSUME NEW v, form' = CopyOnMount(v) PROVE Same
  BY <1>0, <1>3 DEF CopyOnMount, FormType
<1>4. ASSUME Visit \/ Leave \/ Arrive \/ Discard PROVE Moves
  BY <1>0, <1>2, <1>3, <1>4 DEF Visit, Leave, Arrive, Discard, LeavesPage
<1>5. ASSUME NEW p \in Presses, Succeeds(p) \/ ShowsPanel(p) PROVE Moves
  <2>1. form' = NewForm \/ form' = FormAfterSuccess(p)
    BY <1>5 DEF Succeeds, ShowsPanel
  <2>2. FormAfterSuccess(p) = form \/ FormAfterSuccess(p).state = "idle"
    BY <1>0 DEF FormAfterSuccess, NewForm
  <2> QED BY <1>0, <2>1, <2>2
<1>6. ASSUME NEW p \in Presses, ErrorOf(p) PROVE Moves
  BY <1>2, <1>6 DEF ErrorOf, Reject, LoseAnswer, GiveUp, HandlesError
<1>7. ASSUME NEW p \in Presses, Operate(p) PROVE Moves
  BY <1>2, <1>5, <1>6, <1>7 DEF Operate, Apply, NextCall, ClosePanel, PassOver, ApplyLate, ErrorOf
<1>8. Moves
  <2> HIDE DEF Moves
  <2>1. UNCHANGED form => Moves
    BY DEF Moves
  <2>2. Edit \/ Type => Moves
    BY DEF Moves
  <2>3. Visit \/ Leave \/ Arrive \/ Discard => Moves
    BY <1>4 DEF Moves
  <2> QED BY <1>7, <2>1, <2>2, <2>3 DEF Next, GoesStale, Dropped, Poll, Reconnect, ServerReads, FetchFails,
                                        OthersChange, vars
<1> QED BY <1>1, <1>8

\* What was typed on top of what the screen shows stays so.
LEMMA BaseStep == Inv /\ BaseInv /\ [Next]_vars => BaseInv'
<1> SUFFICES ASSUME Inv, BaseInv, [Next]_vars, Fresh, form'.state # "idle"
             PROVE  form'.base >= form'.seen
  BY FormMoves DEF BaseInv, Fresh, Calm, Without
<1>0. "hasty" \notin env /\ meet.draft # "mounted"
  BY DEF Fresh
<1>1. form \in FormType /\ (form.state # "idle" => form.base >= form.seen)
  BY DEF Inv, TypeOK, BaseInv
<1>2. CASE Edit
  <2>1. /\ form'.base = cache.data /\ form'.seen = Later(cache.data, told)
        /\ NoPanel /\ cache.data # 0 /\ ~Refreshing /\ OnPage
    BY <1>2 DEF Edit, Fresh
  <2>2. cache.data \in Versions /\ told \in Versions
    BY DEF Inv, TypeOK, CacheType
  <2>3. Current(told) /\ Loaded
    BY <2>1 DEF Inv, Fresh, Calm, Without
  <2>4. ~cache.marked
    BY <2>1, <2>3 DEF Loaded, Refreshing, OnPage, Fresh
  <2>5. cache.data >= told
    BY <2>1, <2>3, <2>4 DEF Current
  <2> QED BY <2>1, <2>2, <2>5, VersionAssumption DEF Later, Versions
<1>3. ~Type
  BY <1>0 DEF Type
<1>4. ASSUME NEW q \in Presses, Press(q) PROVE form'.base >= form'.seen
  <2>1. form' = [form EXCEPT !.state = "saving"] \/ form' = form
    BY <1>4 DEF Press
  <2>2. meet.saves => form.state # "idle"
    BY <1>4 DEF Press
  <2>3. CASE meet.saves
    <3>1. form' = [form EXCEPT !.state = "saving"]
      BY <1>4, <2>3 DEF Press
    <3> QED BY <1>1, <2>2, <2>3, <3>1 DEF FormType
  <2>4. CASE ~meet.saves
    <3>1. form' = form
      BY <1>4, <2>4 DEF Press
    <3> QED BY <1>1, <3>1
  <2> QED BY <2>3, <2>4
<1>5. CASE form' = [form EXCEPT !.state = "edited"] /\ form.state = "saving"
  BY <1>1, <1>5 DEF FormType
<1>6. CASE form'.state = form.state /\ form'.seen = form.seen /\ form'.base = form.base
  BY <1>1, <1>6
<1> QED BY <1>0, <1>2, <1>3, <1>4, <1>5, <1>6, FormMoves

\* Whatever the tables say, the fields one starts to edit hold what one was told was saved,
\* next to an operation that refreshes the query they are filled from, unless they are
\* filled only once, when the row appears (setLeaseComment).
THEOREM SavesAreOnTop ==
  Spec => [](meet.together /\ meet.covered /\ ~meet.sets /\ meet.draft # "mounted" => SavesOnTop)
<1>1. Init => BaseInv
  BY DEF Init, BaseInv, NewForm
<1>2. BaseInv => (meet.together /\ meet.covered /\ ~meet.sets /\ meet.draft # "mounted" => SavesOnTop)
  BY DEF BaseInv, Fresh, Calm, SavesOnTop, Without
<1> QED BY <1>1, <1>2, BaseStep, Invariance, PTL DEF Spec

\* A pending call of the page on the screen was pending before, or has just been sent.
LEMMA PendingMoves ==
  ASSUME Inv, [Next]_vars, NEW q \in Presses, Pending(q)', calls'[q].here
  PROVE  (Pending(q) /\ calls[q].here) \/ Press(q)
<1>0. calls \in [Presses -> CallType] /\ calls[q] \in CallType
  BY DEF Inv, TypeOK
<1>1. CASE UNCHANGED calls
  BY <1>1 DEF Pending
<1>2. CASE LeavesPage
  <2>1. calls'[q] = [calls[q] EXCEPT !.here = FALSE,
                                     !.stage = IF @ = "panel" THEN "done" ELSE @]
    BY <1>2 DEF LeavesPage
  <2>2. calls'[q].here = FALSE
    BY <1>0, <2>1 DEF CallType
  <2> QED BY <2>2
<1>3. ASSUME NEW p \in Presses, Operate(p) PROVE (Pending(q) /\ calls[q].here) \/ Press(q)
  <2>1. ASSUME NEW st, calls' = Over(p, st) PROVE p # q
    <3> DEFINE rec == [NewCall EXCEPT !.stage = st, !.made = calls[p].made, !.again = calls[p].again]
    <3>1. rec.here = FALSE
      BY DEF NewCall
    <3>2. calls'[p] = rec
      BY <1>0, <2>1 DEF Over
    <3> QED BY <3>1, <3>2
  <2>2. p = q \/ calls'[q] = calls[q]
    BY <1>0, <1>3 DEF Operate, Press, Apply, NextCall, Succeeds, ShowsPanel, ClosePanel, Reject, PassOver,
                      LoseAnswer, GiveUp, ApplyLate, Effect, Over
  <2>3. CASE p # q
    BY <2>2, <2>3 DEF Pending
  <2>4. CASE p = q
    <3>1. CASE Press(p)
      BY <2>4, <3>1
    <3>2. CASE Apply(p) \/ NextCall(p) \/ PassOver(p)
      <4>1. calls[p].stage \in {"sent", "applied"}
        BY <3>2 DEF Apply, NextCall, PassOver
      <4>2. calls'[p].here = calls[p].here
        BY <1>0, <2>4, <3>2 DEF Apply, NextCall, PassOver, Effect, CallType
      <4> QED BY <2>4, <4>1, <4>2 DEF Pending
    <3>3. CASE ApplyLate(p)
      <4>1. calls'[p].stage = "failed"
        BY <1>0, <2>4, <3>3 DEF ApplyLate, Effect, CallType
      <4> QED BY <2>4, <4>1 DEF Pending
    <3>4. CASE ShowsPanel(p)
      <4>1. calls'[p].stage \in {"panel", "done"}
        BY <1>0, <2>4, <3>4 DEF ShowsPanel, CallType
      <4> QED BY <2>4, <4>1 DEF Pending
    <3>5. CASE GiveUp(p)
      <4>1. calls'[p].stage = "late"
        BY <1>0, <2>4, <3>5 DEF GiveUp, CallType
      <4> QED BY <2>4, <4>1 DEF Pending
    <3> QED BY <1>3, <2>1, <2>4, <3>1, <3>2, <3>3, <3>4, <3>5
            DEF Operate, Succeeds, ClosePanel, Reject, LoseAnswer
  <2> QED BY <2>3, <2>4
<1> QED BY <1>1, <1>2, <1>3 DEF Next, Visit, Leave, GoesStale, Dropped, Poll, Reconnect, ServerReads, Arrive,
                                FetchFails, Edit, Type, Discard, OthersChange, vars

\* A call that ends in an error is no longer pending.
LEMMA ErrorEnds ==
  ASSUME Inv, NEW p \in Presses, ErrorOf(p)
  PROVE  Pending(p) /\ ~Pending(p)'
<1>0. calls \in [Presses -> CallType] /\ calls[p] \in CallType
  BY DEF Inv, TypeOK
<1>1. CASE calls' = Over(p, "failed")
  <2>1. [NewCall EXCEPT !.stage = "failed", !.made = calls[p].made, !.again = calls[p].again].stage = "failed"
    BY DEF NewCall
  <2>2. calls'[p].stage = "failed"
    BY <1>0, <1>1, <2>1 DEF Over
  <2> QED BY <2>2 DEF ErrorOf, Reject, LoseAnswer, GiveUp, Pending
<1>2. CASE GiveUp(p)
  BY <1>0, <1>2 DEF GiveUp, Pending, CallType
<1> QED BY <1>1, <1>2 DEF ErrorOf, Reject, LoseAnswer

LEMMA EditStep == Inv /\ EditInv /\ [Next]_vars => EditInv'
<1> SUFFICES ASSUME Inv, EditInv, [Next]_vars PROVE EditInv'
  OBVIOUS
<1> UNCHANGED <<meet, env>>
  BY FormMoves
<1> SUFFICES ASSUME Still, meet.saves
             PROVE  /\ \A p \in Presses : Pending(p)' /\ calls'[p].here => form'.state # "edited"
                    /\ \A p, q \in Presses :
                         Pending(p)' /\ calls'[p].here /\ Pending(q)' /\ calls'[q].here => p = q
  BY DEF EditInv, Still, Without
<1>0. /\ form \in FormType /\ calls \in [Presses -> CallType]
      /\ "hasty" \notin env /\ "reopens" \notin env
  BY DEF Inv, TypeOK, Still, Without, Kinds
<1>1. /\ \A p \in Presses : Pending(p) /\ calls[p].here => form.state # "edited"
      /\ \A p, q \in Presses : Pending(p) /\ calls[p].here /\ Pending(q) /\ calls[q].here => p = q
  BY DEF EditInv
<1>2. ASSUME NEW p \in Presses, Press(p)
      PROVE  /\ form.state = "edited" /\ form'.state = "saving"
             /\ \A q \in Presses : q # p => calls'[q] = calls[q]
  BY <1>0, <1>2 DEF Press, FormType
<1>3. ASSUME NEW p \in Presses, Pending(p)', calls'[p].here PROVE form'.state # "edited"
  <2> SUFFICES ASSUME form'.state = "edited" PROVE FALSE
    OBVIOUS
  <2>1. Pending(p) /\ calls[p].here
    BY <1>2, <1>3, PendingMoves
  <2>2. form.state # "edited"
    BY <1>1, <2>1
  <2>3. ~Type /\ ~Edit
    BY <1>0, <2>1 DEF Type, Edit
  <2>4. \A q \in Presses : ~Press(q)
    BY <1>2
  <2>5. PICK q \in Presses : ErrorOf(q) /\ calls[q].here
    BY <2>2, <2>3, <2>4, FormMoves
  <2>6. p = q
    BY <1>1, <2>1, <2>5, ErrorEnds
  <2> QED BY <1>3, <2>5, <2>6, ErrorEnds
<1>4. ASSUME NEW p \in Presses, NEW q \in Presses, Pending(p)', calls'[p].here, Pending(q)', calls'[q].here
      PROVE  p = q
  <2>1. ASSUME NEW x \in Presses, NEW y \in Presses, Press(x), Pending(y)', calls'[y].here PROVE y = x
    BY <1>1, <1>2, <2>1 DEF Pending
  <2>2. CASE Press(p) \/ Press(q)
    BY <1>4, <2>1, <2>2
  <2>3. CASE ~Press(p) /\ ~Press(q)
    BY <1>1, <1>4, <2>3, PendingMoves
  <2> QED BY <2>2, <2>3
<1> QED BY <1>3, <1>4

\* What the operator typed stays until the operator sends, discards or leaves it, wherever
\* the fields do not follow data that the operation changes: an answer that arrives does
\* not overwrite them, and neither does the end of a call.
THEOREM TypingSurvives ==
  Spec /\ [](meet.draft \notin {"hydrated", "by field"} \/ ~meet.disturbs) => EditsSurvive
<1> DEFINE C == meet.draft \notin {"hydrated", "by field"} \/ ~meet.disturbs
           Body == Holds("EditsSurvive") /\ Without(Kinds \ {"offline", "walks_away"})
                     /\ (meet.draft \in {"hydrated", "by field"} => "offline" \notin env)
                     /\ form.state = "edited" /\ form'.state # "edited"
                   => Discard \/ Visit \/ Leave \/ ~shown' \/ \E p \in Presses : Press(p)
<1>1. Init => EditInv
  BY DEF Init, EditInv, Pending, NewCall
<1>2. Inv /\ EditInv /\ C /\ [Next]_vars => [Body]_vars
  <2> SUFFICES ASSUME Inv, EditInv, C, [Next]_vars, Still, form.state = "edited", form'.state # "edited",
                      ~Discard, ~Visit, ~Leave, shown', \A p \in Presses : ~Press(p)
               PROVE  FALSE
    BY DEF Still
  <2> HIDE DEF Body, C
  <2>0. form \in FormType /\ "others" \notin env
    <3>1. form \in FormType
      BY DEF Inv, TypeOK
    <3>2. "others" \in Kinds \ {"offline", "walks_away"}
      BY DEF Kinds
    <3> QED BY <3>1, <3>2 DEF Still, Without
  <2>1. \A v : ~Refills(v)
    BY <2>0 DEF Refills, C
  <2>2. form' # form
    OBVIOUS
  <2>3. ~Arrive
    BY <2>0, <2>1 DEF Arrive, CopyOnMount, FormType
  <2>4. ~Edit /\ ~Type
    BY DEF Edit, Type
  <2>5. ASSUME NEW p \in Presses, Operate(p) PROVE FALSE
    <3>1. ~ErrorOf(p)
      BY <2>2 DEF ErrorOf, Reject, LoseAnswer, GiveUp, HandlesError
    <3>2. Succeeds(p) \/ ShowsPanel(p)
      BY <2>2, <2>5, <3>1 DEF Operate, ErrorOf, Apply, NextCall, ClosePanel, PassOver, ApplyLate
    <3>3. form' = FormAfterSuccess(p) /\ calls[p].stage = "applied"
      BY <3>2 DEF Succeeds, ShowsPanel
    <3>4. ~(meet.saves /\ calls[p].here)
      BY <3>3 DEF EditInv, Pending
    <3> QED BY <2>1, <2>2, <3>3, <3>4 DEF FormAfterSuccess
  <2> QED BY <2>2, <2>3, <2>4, <2>5 DEF Next, GoesStale, Dropped, Poll, Reconnect, ServerReads, FetchFails,
                                        OthersChange, vars
<1>3. Spec => []EditInv
  BY <1>1, EditStep, Invariance, PTL DEF Spec
<1>4. EditsSurvive <=> [][Body]_vars
  BY DEF EditsSurvive
<1> HIDE DEF Body, C
<1>5. Spec /\ []C => [][Body]_vars
  BY <1>2, <1>3, Invariance, PTL DEF Spec
<1> QED BY <1>4, <1>5 DEF C
=============================================================================
