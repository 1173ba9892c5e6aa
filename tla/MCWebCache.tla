----------------------------- MODULE MCWebCache -----------------------------
(***************************************************************************)
(* The meetings of the page tables, for model checking WebCache.  Two      *)
(* meetings about which the tables say the same are one.                   *)
(***************************************************************************)
EXTENDS WebCache, RouterPages, HostPages, AdminPages, WebCalls

Pages ==
  {v \union Frame \union {DeviceLayout} : v \in RouterViews \union HostViews}
  \union {v \union Frame : v \in FleetViews \union AdminViews}

QueriesOf(page) == UNION {c.queries : c \in page}

AllQueries == UNION {QueriesOf(page) : page \in Pages}

\* Changes that run inside the lockout guard: the server may make the change,
\* undo it and answer with an error.
GuardedCalls ==
  {"createUfwRule", "deleteUfwRule", "editUfwRule", "moveUfwRule", "disableUfwRule",
   "enableUfwRule", "setUfwEnabled"}

\* On the same page, and not refreshed.
NotRefreshed ==
  {<<"testSms", <<"sms-settings">>>>,
   <<"deleteAssignment", <<"users">>>>, <<"deleteAssignment", <<"roles">>>>,
   <<"bulkCreateAssignments", <<"roles">>>>, <<"createUser", <<"roles">>>>,
   <<"createAccessRequest", <<"access-directory">>>>,
   <<"createVlan", <<"interfaces">>>>, <<"deleteVlan", <<"interfaces">>>>,
   <<"updateDeviceSite", <<"site">>>>, <<"updateDeviceSite", <<"tenant">>>>,
   <<"checkDeviceFirmware", <<"device">>>>, <<"triggerFirmwareUpgrade", <<"device">>>>,
   <<"createSiteToSite", <<"wg-lan-subnets">>>>,
   <<"createSiteToSite", <<"wg-endpoint-suggestions">>>>,
   <<"refreshPackages", <<"packages">>>>, <<"upgradePackages", <<"packages">>>>}
  \union {<<call, <<"ufw-preflight">>>> : call \in GuardedCalls \union {"rollbackGuard"}}

\* The firewall operations after whose errors a list is not read again.
NotRefreshedOnError ==
  {<<"createUfwRule", <<"ufw">>>>, <<"createUfwRule", <<"ufw-guards">>>>,
   <<"editUfwRule", <<"ufw">>>>, <<"editUfwRule", <<"ufw-guards">>>>,
   <<"setUfwEnabled", <<"ufw-guards">>>>}

\* Operations next to a form that follows the data they refresh.
OverwritesForm ==
  {<<"syncNtpNow", <<"ntp">>>>, <<"updateProfile", <<"me">>>>,
   <<"changePassword", <<"me">>>>, <<"enrollTotpConfirm", <<"me">>>>,
   <<"disableTotp", <<"me">>>>, <<"testSms", <<"sms-settings">>>>}

\* The wizards that make something before their last call.
MakesFirst == {"createWgInterface", "createWgPeer"}

\* The field of a lease is filled once.
FilledOnce == {"setLeaseComment", "makeLeaseStatic", "deleteLease"}

\* What a call is to a query; table is Calls.
Step(table, call, query) ==
  IF table[call].writes \intersect table[query.call].reads = {} THEN "other"
  ELSE IF table[call].makes THEN "makes" ELSE "writes"

Waived(op, query, together, covered, saves) ==
  LET meets(pairs) == <<op.calls[1], query.key>> \in pairs
  IN  {n \in PropertyNames :
         \/ n = "OwnChangeShown" /\ ~covered
              /\ (~together \/ op.leaves \/ meets(NotRefreshed))
         \/ n = "ErrorHidesNothing" /\ (~covered \/ Len(op.calls) > 1
                                        \/ meets(NotRefreshedOnError))
         \/ n = "MadeOnce" /\ Len(op.calls) > 1 /\ op.calls[1] \in MakesFirst
         \/ n = "EditsSurvive" /\ ~saves /\ meets(OverwritesForm)
         \/ n = "SavesOnTop" /\ (op.leaves \/ meets(NotRefreshed) \/ op.calls[1] \in FilledOnce)}

\* draft is that of the operation's own component, or of a neighbour.
Meeting(op, query, steps, together, draft, saves) ==
  LET covered == Covers(op.refreshes \union op.sets, query.key)
  IN  [together |-> together, covered |-> Covers(op.refreshes, query.key),
       onError  |-> Covers(op.onError, query.key), sets |-> Covers(op.sets, query.key),
       deferred |-> op.deferred, locked |-> op.locked, leaves |-> op.leaves,
       lenient  |-> op.lenient, guarded |-> op.calls[1] \in GuardedCalls,
       saves    |-> saves, polls |-> query.polls,
       steps    |-> steps,
       draft    |-> draft, disturbs |-> draft # "by field" \/ saves,
       waived   |-> Waived(op, query, together, covered, saves)]

\* The drafts that can be about a query: of the component itself, if it sends
\* one, and those of the page that are copied from the query.
Drafts(page, component, op, query) ==
  (IF op.saves /\ component.draft.kind = "blank" THEN {<<"blank", TRUE>>} ELSE {})
  \union {<<c.draft.kind, c = component /\ op.saves>> :
            c \in {c \in page : c.draft.key = query.key}}
  \union (IF op.saves THEN {} ELSE {<<"none", FALSE>>})

\* The queries that show what the operation changes, with its steps.
Met(table, queries, op) ==
  {<<q, [i \in DOMAIN op.calls |-> Step(table, op.calls[i], q)]>> : q \in
     {q \in queries : \E i \in DOMAIN op.calls : Step(table, op.calls[i], q) # "other"}}

MeetingsOf(page, component, op, met) ==
  LET here == QueriesOf(page)
  IN  UNION { {Meeting(op, m[1], m[2], m[1] \in here, d[1], d[2]) :
                 d \in IF m[1] \in here THEN Drafts(page, component, op, m[1])
                       ELSE {<<"none", FALSE>>}} :
              m \in met }

MCMeetings ==
  LET table   == Calls
      queries == AllQueries
  IN  UNION {UNION {UNION {MeetingsOf(page, c, op, Met(table, queries, op)) : op \in c.ops} :
                    c \in page} : page \in Pages}

MCEnvironments ==
  {{}, {"others", "lost"}, {"hasty", "walks_away"}, {"offline"},
   {"reopens", "late", "unrestarted"}}
=============================================================================
