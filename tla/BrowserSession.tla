---------------------------- MODULE BrowserSession ----------------------------
(***************************************************************************)
(* The session of a browser: the access token every tab keeps              *)
(* (lib/auth-storage.ts), the API client that refreshes it before a request*)
(* and after a 401 (lib/api.ts), the sign-in form (app/login/page.tsx), the*)
(* page the backend returns to after single sign-on                        *)
(* (app/auth/oidc/complete), and the layout that asks /auth/me and sends   *)
(* strangers to /login (app/dashboard/layout.tsx).  All tabs share one     *)
(* refresh cookie.                                                         *)
(*                                                                         *)
(* The server is external: it accepts the cookies of some sessions, rotates*)
(* the cookie at every refresh and answers 401 to a request without a valid*)
(* bearer.  A session may end at any time (RefreshTokens says when it      *)
(* really does).                                                           *)
(*                                                                         *)
(* world.env is what a behaviour has besides requests and sign-ins:        *)
(*   "network"    a request or its answer is lost, times out, or is        *)
(*                answered with a 502                                      *)
(*   "ends"       the server ends a session, or the account is switched off*)
(*   "reload"     a tab is reloaded                                        *)
(*   "impatient"  the form is reset while it waits for an answer           *)
(***************************************************************************)
EXTENDS Naturals

CONSTANTS
    Tabs,         \* the tabs of the browser
    MaxSessions,  \* bound on the sessions
    Worlds        \* environments, with the requests and the forms in use

EnvKinds == {"network", "ends", "reload", "impatient"}

\* What a tab asks for: /auth/me; a POST; a PUT or DELETE; POST /auth/logout; a
\* public GET of the login page; a file; and what the sign-in form asks.
Kinds == {"me", "post", "put", "logout", "probe", "download", "sign"}

ASSUME SessionsAssumption == MaxSessions \in Nat \ {0}
\* login: the tabs that are opened at /login; most: bound on the sessions there are.
WorldType ==
    [env : SUBSET EnvKinds, calls : SUBSET (Tabs \X Kinds), login : SUBSET Tabs,
     most : 1 .. MaxSessions]

ASSUME WorldsAssumption == \A w \in Worlds : w \in WorldType

VARIABLES
    world,     \* the environment, the same throughout a behaviour
    made,      \* the number of sessions signed in to so far
    alive,     \* the sessions whose cookie the server accepts
    jar,       \* the refresh cookie of the browser
    token,     \* the access token of each tab
    refresh,   \* refreshInFlight of each tab, with the cookie it presents or brings
    rejected,  \* lastRefreshRejected of each tab
    call,      \* the requests of each tab, by kind
    me,        \* the cached answer of /auth/me of each tab
    page,      \* what each tab shows
    form,      \* the sign-in form of each tab
    answered,  \* history: /auth/me was answered since the tab signed in
    out,       \* history: tabs whose operator logged out and did not sign in again
    crossed,   \* history: a sign-in or a logout met a refresh in flight
    replayed   \* history: a cookie was presented that had been replaced

vars == <<made, alive, jar, token, refresh, rejected, call, me, page, form,
          answered, out, crossed, replayed>>
allVars == <<world, vars>>

env == world.env
Sessions == 1 .. MaxSessions
Nobody == 0                  \* /auth/me said 401
Unknown == MaxSessions + 1   \* /auth/me was not answered

NoToken == [session |-> 0, age |-> "none"]
NoCookie == [session |-> 0, current |-> TRUE]
NoRefresh == [stage |-> "none", session |-> 0, current |-> TRUE]
NewCall == [stage |-> "idle", bearer |-> NoToken, cookie |-> 0, gives |-> 0,
            again |-> FALSE, left |-> 0, effects |-> 0]
NewForm == [phase |-> "password", temp |-> FALSE, choice |-> FALSE, asks |-> "none"]

RetryLimit == 2   \* of ky, for the requests it takes for repeatable

CookieType == [session : 0 .. MaxSessions, current : BOOLEAN]
TokenType == [session : 0 .. MaxSessions, age : {"none", "fresh", "soon", "expired"}]
RefreshType ==
    [stage : {"none", "queued", "asked", "granted", "refused", "failed"},
     session : 0 .. MaxSessions, current : BOOLEAN]
CallType ==
    [stage : {"idle", "before", "sent", "served", "denied", "after"},
     bearer : TokenType, cookie : 0 .. MaxSessions, gives : 0 .. MaxSessions,
     again : BOOLEAN, left : 0 .. RetryLimit, effects : 0 .. RetryLimit + 1]
FormType ==
    [phase : {"password", "choose", "totp", "otp"},
     temp : BOOLEAN,     \* mfaTempToken is set
     choice : BOOLEAN,   \* methods has more than one entry
     asks : {"none", "login", "send", "verify"}]

\* Every variable keeps its type.
TypeOK ==
    /\ world \in WorldType
    /\ made \in 0 .. MaxSessions /\ alive \subseteq Sessions /\ jar \in CookieType
    /\ token \in [Tabs -> TokenType] /\ refresh \in [Tabs -> RefreshType]
    /\ rejected \in [Tabs -> BOOLEAN] /\ call \in [Tabs -> [Kinds -> CallType]]
    /\ me \in [Tabs -> 0 .. Unknown] /\ page \in [Tabs -> {"login", "dashboard"}]
    /\ form \in [Tabs -> FormType] /\ answered \in [Tabs -> BOOLEAN]
    /\ out \subseteq Tabs /\ crossed \in BOOLEAN /\ replayed \in BOOLEAN

\* The browser is signed in.  The dashboard was opened some time ago, the login
\* page just now.
Init ==
    /\ world \in Worlds
    /\ made = 1 /\ alive = {1} /\ jar = [session |-> 1, current |-> TRUE]
    /\ \E age \in {"fresh", "soon", "expired"} :
          token = [t \in Tabs |->
                      IF t \in world.login THEN NoToken ELSE [session |-> 1, age |-> age]]
    /\ refresh = [t \in Tabs |-> NoRefresh]
    /\ rejected = [t \in Tabs |-> FALSE]
    /\ call = [t \in Tabs |-> [k \in Kinds |-> NewCall]]
    /\ me = [t \in Tabs |-> Unknown]
    /\ page = [t \in Tabs |-> IF t \in world.login THEN "login" ELSE "dashboard"]
    /\ form = [t \in Tabs |-> NewForm]
    /\ answered = [t \in Tabs |-> FALSE]
    /\ out = {} /\ crossed = FALSE /\ replayed = FALSE

--------------------------------------------------------------------------------
(* The token of a tab *)

\* getAccessToken: an expired token is cleared and not returned.
GetAccessToken(tok) == IF tok.age = "expired" THEN NoToken ELSE tok

\* isExpiringSoon(60_000)
IsExpiringSoon(t) == token[t].age # "fresh"

InUse(t) == \E k \in Kinds : <<t, k>> \in world.calls

\* Time passes: the last minute of a token, and its end.
TokenAges(t) ==
    /\ \E ages \in {<<"fresh", "soon">>, <<"soon", "expired">>} :
          /\ token[t].age = ages[1] /\ InUse(t)
          /\ token' = [token EXCEPT ![t].age = ages[2]]
    /\ UNCHANGED <<world, made, alive, jar, refresh, rejected, call, me, page, form,
                   answered, out, crossed, replayed>>

InFlight(t) == refresh[t].stage # "none"

\* tryRefresh: a refresh in flight is shared.
TryRefresh(t) == refresh' = [refresh EXCEPT ![t].stage = IF @ = "none" THEN "queued" ELSE @]

\* The requests that go through api (the file download is a plain fetch), and
\* those to whose 401 afterResponse does not react.
Hooked(k) == k # "download"
Skipped(k) == k = "sign"

\* Requests the server answers without a bearer.
Public(k) == k \in {"probe", "logout", "sign"}

RepeatableAnyway(k) == TRUE

\* The methods the default retry of ky repeats.
Repeatable(k) == k \in {"me", "put"}
\* A request goes out with the token, and with the cookie, which only the logout
\* looks at.
Sent(k, c, tok) ==
    [c EXCEPT !.stage = "sent",
              !.bearer = IF Public(k) THEN NoToken ELSE GetAccessToken(tok),
              !.cookie = IF k = "logout" THEN jar.session ELSE 0]

\* A request of kind k enters beforeRequest; proactive unless it is the login.
BeforeRequest(t, k, proactive) ==
    IF proactive /\ IsExpiringSoon(t)
    THEN /\ call' = [call EXCEPT ![t][k] = [NewCall EXCEPT !.stage = "before"]]
         /\ TryRefresh(t)
         /\ UNCHANGED token
    ELSE /\ call' = [call EXCEPT ![t][k] = Sent(k, NewCall, token[t])]
         /\ token' = [token EXCEPT ![t] = GetAccessToken(@)]
         /\ UNCHANGED refresh

\* A component of the page sends a request.  The dashboard shows nothing but its
\* frame until /auth/me is answered.
Issue(t, k) ==
    /\ <<t, k>> \in world.calls /\ k # "sign" /\ call[t][k].stage = "idle"
    /\ CASE k = "probe" -> page[t] = "login"
         [] k = "me"    -> page[t] = "dashboard"
         [] OTHER       -> page[t] = "dashboard" /\ me[t] \in Sessions
    /\ BeforeRequest(t, k, Hooked(k))
    /\ UNCHANGED <<world, made, alive, jar, rejected, me, page, form, answered, out,
                   crossed, replayed>>

--------------------------------------------------------------------------------
(* The refresh of a tab *)

LockedNever == FALSE

\* navigator.locks lets one tab in at a time; doRefresh then posts the cookie.
Locked == \E t \in Tabs : refresh[t].stage \in {"asked", "granted", "refused", "failed"}
DoRefresh(t) ==
    /\ refresh[t].stage = "queued" /\ ~Locked
    /\ refresh' = [refresh EXCEPT ![t] =
          [stage |-> "asked", session |-> jar.session, current |-> jar.current]]
    /\ UNCHANGED <<world, made, alive, jar, token, rejected, call, me, page, form,
                   answered, out, crossed, replayed>>

\* The server replaces the cookie.  One that was replaced before is still good
\* for a minute, and after that ends the session.
ServeRefresh(t) ==
    LET r == refresh[t] IN
    /\ r.stage = "asked"
    /\ \/ /\ r.session \in alive /\ r.current
          /\ refresh' = [u \in Tabs |->
                IF u = t THEN [r EXCEPT !.stage = "granted"]
                ELSE IF refresh[u].stage = "asked" /\ refresh[u].session = r.session
                THEN [refresh[u] EXCEPT !.current = FALSE] ELSE refresh[u]]
          /\ jar' = IF jar.session = r.session THEN [jar EXCEPT !.current = FALSE] ELSE jar
          /\ UNCHANGED <<alive, replayed>>
       \/ /\ r.session \in alive /\ ~r.current
          /\ replayed' = TRUE
          /\ \/ /\ refresh' = [refresh EXCEPT ![t].stage = "granted", ![t].current = TRUE]
                /\ UNCHANGED alive
             \/ /\ refresh' = [refresh EXCEPT ![t].stage = "refused"]
                /\ alive' = alive \ {r.session}
          /\ UNCHANGED jar
       \/ /\ r.session \notin alive
          /\ refresh' = [refresh EXCEPT ![t].stage = "refused"]
          /\ UNCHANGED <<alive, jar, replayed>>
    /\ UNCHANGED <<world, made, token, rejected, call, me, page, form, answered, out, crossed>>

\* The refresh, or its answer with the new cookie, is lost.
RefreshFails(t) ==
    /\ "network" \in env
    /\ refresh[t].stage \in {"asked", "granted", "refused"}
    /\ refresh' = [refresh EXCEPT ![t].stage = "failed"]
    /\ UNCHANGED <<world, made, alive, jar, token, rejected, call, me, page, form,
                   answered, out, crossed, replayed>>

\* Those who wait for a refresh of the tab.
Waiting(t, stage) == {k \in Kinds : call[t][k].stage = stage}

ForgetsOnFailure(t) == refresh[t].stage # "granted" /\ Waiting(t, "after") # {}

\* The session is forgotten after a failed refresh only if the server said no.
Forgets(t) == refresh[t].stage = "refused" /\ Waiting(t, "after") # {}
\* A request whose 401 brought a refresh: with a token it is sent again, by ky
\* itself and not by api; without one the 401 is its answer.
Resumed(k, c, granted, tok) ==
    IF granted
    THEN [c EXCEPT !.stage = "sent", !.bearer = tok, !.again = TRUE,
                   !.left = IF Repeatable(k) THEN RetryLimit ELSE 0]
    ELSE NewCall

\* tryRefresh that does not hand its result to those who joined it.
RefreshEndsAlone(t) ==
    /\ refresh[t].stage \in {"granted", "refused", "failed"}
    /\ refresh' = [refresh EXCEPT ![t] = NoRefresh]
    /\ UNCHANGED <<world, made, alive, jar, token, rejected, call, me, page, form,
                   answered, out, crossed, replayed>>

\* doRefresh returns: the cookie of the answer is in the jar, the token is set,
\* and everything that waited in this tab goes on, in the order it waited in.
RefreshEnds(t) ==
    LET granted == refresh[t].stage = "granted"
        set == IF granted THEN [session |-> refresh[t].session, age |-> "fresh"] ELSE token[t]
        left == IF Forgets(t) THEN NoToken ELSE set
    IN
    /\ refresh[t].stage \in {"granted", "refused", "failed"}
    /\ refresh' = [refresh EXCEPT ![t] = NoRefresh]
    /\ rejected' = [rejected EXCEPT ![t] = refresh[t].stage = "refused"]
    /\ jar' = IF granted THEN [session |-> refresh[t].session, current |-> refresh[t].current]
              ELSE jar
    /\ \E seen \in {set, left} :
          call' = [call EXCEPT ![t] = [k \in Kinds |->
              CASE call[t][k].stage = "before" -> Sent(k, call[t][k], seen)
                [] call[t][k].stage = "after"  -> Resumed(k, call[t][k], granted, set)
                [] OTHER -> call[t][k]]]
    /\ token' = [token EXCEPT ![t] = IF Waiting(t, "before") = {} THEN left
                                     ELSE GetAccessToken(left)]
    /\ LET denied == ~granted /\ call[t]["me"].stage = "after" IN
          /\ me' = IF denied THEN [me EXCEPT ![t] = Nobody] ELSE me
          /\ answered' = IF denied THEN [answered EXCEPT ![t] = TRUE] ELSE answered
    /\ UNCHANGED <<world, made, alive, page, form, out, crossed, replayed>>

--------------------------------------------------------------------------------
(* Requests and their answers *)

\* The server carries the request out or answers 401: without a bearer, with one
\* that expired on the way, or of an account that was switched off.  What a
\* logout revokes is kept only if the endpoint commits.
Serve(t, k) ==
    LET c == call[t][k]
        bad == c.bearer.age \in {"none", "soon"} \/ c.bearer.session \notin alive
    IN
    /\ k # "sign" /\ c.stage = "sent"
    /\ \/ /\ ~Public(k) /\ bad
          /\ call' = [call EXCEPT ![t][k].stage = "denied"]
          /\ UNCHANGED alive
       \/ /\ Public(k) \/ c.bearer.age # "none"
          /\ call' = [call EXCEPT ![t][k].stage = "served",
                                  ![t][k].effects = IF k \in {"post", "put"} THEN @ + 1 ELSE @]
          /\ alive' \in {alive, IF k = "logout" THEN alive \ {c.cookie} ELSE alive}
    /\ UNCHANGED <<world, made, jar, token, refresh, rejected, me, page, form, answered,
                   out, crossed, replayed>>

\* The layout and every page that shows the user have the answer of fetchMe.
Learns(t, who) ==
    /\ me' = [me EXCEPT ![t] = who]
    /\ answered' = [answered EXCEPT ![t] = TRUE]

\* afterResponse on a 401: refresh and try again, once.
Unauthorized(t, k) ==
    /\ call[t][k].stage = "denied" /\ ~Skipped(k)
    /\ IF Hooked(k) /\ ~call[t][k].again
       THEN /\ call' = [call EXCEPT ![t][k].stage = "after"]
            /\ TryRefresh(t)
            /\ UNCHANGED <<me, answered>>
       ELSE /\ call' = [call EXCEPT ![t][k] = NewCall]
            /\ IF k = "me" THEN Learns(t, Nobody) ELSE UNCHANGED <<me, answered>>
            /\ UNCHANGED refresh
    /\ UNCHANGED <<world, made, alive, jar, token, rejected, page, form, out, crossed, replayed>>

Crosses == crossed' = (crossed \/ \E t \in Tabs : InFlight(t))

\* Only the token is cleared, as if the server were not asked.
LoggedOutLocally(t) ==
    /\ token' = [token EXCEPT ![t] = NoToken]
    /\ page' = [page EXCEPT ![t] = "login"]
    /\ form' = [form EXCEPT ![t] = NewForm]
    /\ out' = out \union {t}
    /\ Crosses
    /\ UNCHANGED <<jar, me, answered>>

\* logout: the answer deletes the cookie; the token is cleared, and onLogout
\* leaves for /login.
LoggedOut(t) ==
    /\ jar' = NoCookie
    /\ token' = [token EXCEPT ![t] = NoToken]
    /\ page' = [page EXCEPT ![t] = "login"]
    /\ form' = [form EXCEPT ![t] = NewForm]
    /\ out' = out \union {t}
    /\ Crosses
    /\ UNCHANGED <<me, answered>>

Receive(t, k) ==
    /\ k # "sign" /\ call[t][k].stage = "served"
    /\ call' = [call EXCEPT ![t][k] = [NewCall EXCEPT !.effects = call[t][k].effects]]
    /\ CASE k = "me"     -> /\ Learns(t, call[t][k].bearer.session)
                            /\ UNCHANGED <<jar, token, page, form, out, crossed>>
         [] k = "logout" -> LoggedOut(t)
         [] OTHER        -> UNCHANGED <<jar, token, page, form, out, crossed, me, answered>>
    /\ UNCHANGED <<world, made, alive, refresh, rejected, replayed>>

\* The request or its answer is lost.  api does not retry; the request that
\* afterResponse sends again is retried by ky.  fetchMe throws, and is asked
\* again later.  logout clears the token and throws, so that the page stays.
RequestFails(t, k) ==
    LET c == call[t][k] IN
    /\ "network" \in env
    /\ c.stage \in {"sent", "served", "denied"}
    /\ IF c.left > 0
       THEN /\ call' = [call EXCEPT ![t][k].stage = "sent", ![t][k].left = @ - 1]
            /\ UNCHANGED <<token, form>>
       ELSE /\ call' = [call EXCEPT ![t][k] = [NewCall EXCEPT !.effects = c.effects]]
            /\ token' = IF k = "logout" THEN [token EXCEPT ![t] = NoToken] ELSE token
            /\ form' = IF k = "sign" THEN [form EXCEPT ![t].asks = "none"] ELSE form
    /\ UNCHANGED <<world, made, alive, jar, refresh, rejected, me, page, answered, out,
                   crossed, replayed>>

--------------------------------------------------------------------------------
(* The sign-in form *)

Asks(t, what) ==
    /\ <<t, "sign">> \in world.calls
    /\ page[t] = "login" /\ call[t]["sign"].stage = "idle"
    /\ form' = [form EXCEPT ![t].asks = what]
    /\ BeforeRequest(t, "sign", what # "login")
    /\ UNCHANGED <<world, made, alive, jar, rejected, me, page, answered, out, crossed, replayed>>

OnSubmitPassword(t) == form[t].phase = "password" /\ Asks(t, "login")

OnlyForm == <<world, made, alive, jar, token, refresh, rejected, call, me, page, answered,
              out, crossed, replayed>>

\* The authenticator needs no code; the others are sent one first.
PickMethod(t) ==
    /\ form[t].phase = "choose" /\ form[t].temp
    /\ \/ /\ page[t] = "login" /\ call[t]["sign"].stage = "idle"
          /\ form' = [form EXCEPT ![t].phase = "totp"]
          /\ UNCHANGED OnlyForm
       \/ Asks(t, "send")

\* onSubmitTotp, onSubmitOtp
OnSubmitCode(t) == form[t].phase \in {"totp", "otp"} /\ form[t].temp /\ Asks(t, "verify")

\* "Use a different account" and "Use a different factor" are never disabled.
MayReset(t) ==
    /\ page[t] = "login" /\ form[t].phase # "password"
    /\ "impatient" \in env \/ call[t]["sign"].stage = "idle"

ResetToPassword(t) ==
    /\ MayReset(t)
    /\ form' = [form EXCEPT ![t].phase = "password", ![t].temp = FALSE, ![t].choice = FALSE]
    /\ UNCHANGED OnlyForm

OtherFactor(t) ==
    /\ MayReset(t) /\ form[t].phase # "choose" /\ form[t].choice
    /\ form' = [form EXCEPT ![t].phase = "choose"]
    /\ UNCHANGED OnlyForm

\* The server refuses, asks for a second factor, sends a code, or signs in.
ServeSign(t) ==
    LET c == call[t]["sign"] IN
    /\ c.stage = "sent"
    /\ \/ /\ call' = [call EXCEPT ![t]["sign"].stage = "denied"]
          /\ UNCHANGED <<made, alive>>
       \/ /\ form[t].asks \in {"login", "send"}
          /\ call' = [call EXCEPT ![t]["sign"].stage = "served"]
          /\ UNCHANGED <<made, alive>>
       \/ /\ form[t].asks \in {"login", "verify"} /\ made < world.most
          /\ made' = made + 1 /\ alive' = alive \union {made + 1}
          /\ call' = [call EXCEPT ![t]["sign"].stage = "served", ![t]["sign"].gives = made + 1]
    /\ UNCHANGED <<world, jar, token, refresh, rejected, me, page, form, answered, out,
                   crossed, replayed>>

\* setAccessToken and router.replace(next).  The query cache, with the last
\* answer of /auth/me, stays as it is.
SignsIn(t, s) ==
    /\ jar' = [session |-> s, current |-> TRUE]
    /\ token' = [token EXCEPT ![t] = [session |-> s, age |-> "fresh"]]
    /\ page' = [page EXCEPT ![t] = "dashboard"]
    /\ form' = [form EXCEPT ![t] = NewForm]
    /\ answered' = [answered EXCEPT ![t] = FALSE]
    /\ out' = {}
    /\ Crosses

\* The answer of login, sendOtpCode, verifyTotp or verifyLoginOtp.
ReceiveSign(t) ==
    LET c == call[t]["sign"]
        asks == form[t].asks
        stays == UNCHANGED <<jar, token, page, answered, out, crossed>>
    IN
    /\ c.stage \in {"served", "denied"}
    /\ call' = [call EXCEPT ![t]["sign"] = NewCall]
    /\ \/ /\ c.stage = "denied"
          /\ form' = [form EXCEPT ![t].asks = "none"] /\ stays
       \/ /\ c.gives # 0
          /\ SignsIn(t, c.gives)
       \/ /\ c.stage = "served" /\ c.gives = 0 /\ asks = "login"
          /\ \E phase \in {"choose", "totp", "otp"} :
                form' = [form EXCEPT ![t] = [phase |-> phase, temp |-> TRUE,
                                              choice |-> phase = "choose", asks |-> "none"]]
          /\ stays
       \/ /\ c.stage = "served" /\ asks = "send"
          /\ form' = [form EXCEPT ![t].phase = "otp", ![t].asks = "none"] /\ stays
    /\ UNCHANGED <<world, made, alive, refresh, rejected, me, replayed>>

--------------------------------------------------------------------------------
(* Pages *)

\* The effect of DashboardLayout: /auth/me said 401.
Redirect(t) ==
    /\ page[t] = "dashboard" /\ me[t] = Nobody
    /\ page' = [page EXCEPT ![t] = "login"]
    /\ UNCHANGED <<world, made, alive, jar, token, refresh, rejected, call, me, form,
                   answered, out, crossed, replayed>>

\* A page is loaded anew: sessionStorage keeps a token that has not expired, and
\* the rest of the tab is gone, with the answers it waited for.
Loaded(t, tok) ==
    /\ token' = [token EXCEPT ![t] = GetAccessToken(tok)]
    /\ refresh' = [refresh EXCEPT ![t] = NoRefresh]
    /\ rejected' = [rejected EXCEPT ![t] = FALSE]
    /\ call' = [call EXCEPT ![t] = [k \in Kinds |-> NewCall]]
    /\ me' = [me EXCEPT ![t] = Unknown]
    /\ answered' = [answered EXCEPT ![t] = FALSE]
    /\ form' = [form EXCEPT ![t] = NewForm]

Reload(t) ==
    /\ "reload" \in env
    /\ Loaded(t, token[t])
    /\ UNCHANGED <<world, made, alive, jar, page, out, crossed, replayed>>

\* Single sign-on leaves the application and comes back with a token.
OidcComplete(t) ==
    /\ page[t] = "login" /\ made < world.most /\ <<t, "sign">> \in world.calls
    /\ made' = made + 1 /\ alive' = alive \union {made + 1}
    /\ Loaded(t, [session |-> made + 1, age |-> "fresh"])
    /\ jar' = [session |-> made + 1, current |-> TRUE]
    /\ page' = [page EXCEPT ![t] = "dashboard"]
    /\ out' = {}
    /\ Crosses
    /\ UNCHANGED <<world, replayed>>

SessionEnds ==
    /\ "ends" \in env
    /\ \E s \in alive : alive' = alive \ {s}
    /\ UNCHANGED <<world, made, jar, token, refresh, rejected, call, me, page, form,
                   answered, out, crossed, replayed>>

Next ==
    \/ \E t \in Tabs :
          \/ TokenAges(t)
          \/ DoRefresh(t) \/ ServeRefresh(t) \/ RefreshFails(t) \/ RefreshEnds(t)
          \/ \E k \in Kinds :
                Issue(t, k) \/ Serve(t, k) \/ Unauthorized(t, k) \/ Receive(t, k) \/ RequestFails(t, k)
          \/ OnSubmitPassword(t) \/ PickMethod(t) \/ OnSubmitCode(t)
          \/ ResetToPassword(t) \/ OtherFactor(t) \/ ServeSign(t) \/ ReceiveSign(t)
          \/ Redirect(t) \/ Reload(t) \/ OidcComplete(t)
    \/ SessionEnds

RefreshStep(t) == DoRefresh(t) \/ ServeRefresh(t) \/ RefreshEnds(t)
CallStep(t, k) == Serve(t, k) \/ Unauthorized(t, k) \/ Receive(t, k)
SignStep(t) == ServeSign(t) \/ ReceiveSign(t)

\* A request is answered, or ky gives up after its timeout; the browser grants
\* the lock in the order it was asked for, so that every tab has its turn however
\* often the others ask; a settled promise resumes those who wait for it.
Fairness ==
    \A t \in Tabs :
       /\ WF_vars(RefreshStep(t)) /\ SF_vars(DoRefresh(t)) /\ WF_vars(SignStep(t))
       /\ \A k \in Kinds \ {"sign"} : WF_vars(CallStep(t, k))

Spec == Init /\ [][Next]_allVars /\ Fairness

--------------------------------------------------------------------------------
(* Properties *)

\* However often a request is sent again after a 401 or a lost answer, a POST
\* takes effect once (afterResponse of api).
EffectOnce == \A t \in Tabs : call[t]["post"].effects <= 1

\* A sign-in that meets no refresh sticks: a token that still works is dropped only
\* by a logout or when the server accepts no cookie of this browser, and is replaced
\* only by a sign-in in its own tab or by a token of the session the cookie belongs
\* to: when two tabs sign in at once, that of the answer that came last (clear and
\* setAccessToken in api).
SignInSticks ==
    [][~crossed' => \A t \in Tabs :
          token[t].age \in {"fresh", "soon"} =>
             \/ token'[t].session \in {token[t].session, jar.session}
             \/ jar.session \notin alive
             \/ call[t]["logout"].stage # "idle"
             \/ ReceiveSign(t) \/ OidcComplete(t)]_vars

\* A tab that logged out has no token until somebody signs in again, unless a
\* refresh was in flight when it did (logout, tryRefresh).
LogoutSticks == \A t \in out : ~crossed => token[t] = NoToken

\* As long as no answer is lost, no tab presents a cookie that another tab's
\* refresh has replaced (the lock in tryRefresh).
NoReplay == replayed => env \intersect {"network", "reload"} # {} \/ crossed

\* Requests that wait for a refresh go on, also those that joined one in flight
\* and those of a tab that waits for the lock of another (tryRefresh).
WaitersGoOn ==
    \A t \in Tabs : LET waits == \E k \in Kinds : call[t][k].stage \in {"before", "after"}
                    IN  waits ~> ~waits

\* The layout sends to /login only those the server refused (fetchMe, and
\* lastRefreshRejected in api).
OnlyRefusalSignsOut ==
    [][\A t \in Tabs : Redirect(t) => rejected[t] \/ jar.session \notin alive]_vars

\* The layout sends to /login only on an answer about the session one signed in to.
SignInIsHonoured == [][\A t \in Tabs : Redirect(t) => answered[t]]_vars
================================================================================
