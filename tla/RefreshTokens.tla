----------------------------- MODULE RefreshTokens -----------------------------
(***************************************************************************)
(* The refresh tokens of one user: issue_refresh_token,                    *)
(* rotate_refresh_token, _chain_is_live, revoke_refresh_token,             *)
(* _revoke_all_for_user and change_own_password of services/auth.py, and   *)
(* the endpoints of api/v1/auth.py that call them.                         *)
(*                                                                         *)
(* A request reads the token table, decides, and writes; PostgreSQL runs   *)
(* read committed, so another request may commit between the two and the   *)
(* UPDATEs of the later one overwrite.  Whether what a request wrote stays *)
(* depends on the endpoint: db_session closes the session without a commit,*)
(* so an endpoint that does not commit is rolled back after it answered.   *)
(* Login and change-password commit; /refresh and /logout do not.          *)
(*                                                                         *)
(* env is what a behaviour has besides logins and refreshes:               *)
(*   "commits"  /refresh and /logout do commit.  The deployed program does *)
(*              not; it is what the service layer expects of its callers   *)
(*              and what its unit tests do                                 *)
(*   "logout", "password"  the user logs out, or changes the password      *)
(*   "late"     a request is under way while others are served: it reaches *)
(*              the API, or its answer the browser, after theirs           *)
(*   "overlap"  requests of the user are served at the same time           *)
(*   "lost"     the answer of a request does not arrive                    *)
(***************************************************************************)
EXTENDS Naturals

CONSTANTS
    Browsers,   \* cookie jars
    Tabs,       \* request senders
    MaxTokens,  \* bound on the tokens ever issued
    MaxTime,    \* bound on the clock
    Grace,      \* REFRESH_REUSE_GRACE_SECONDS, in ticks
    Ttl,        \* REFRESH_TOKEN_TTL, in ticks
    MaxHops,    \* _MAX_CHAIN_HOPS
    Worlds      \* environments, with the browser of every tab and bounds of their own

EnvKinds == {"commits", "logout", "password", "late", "overlap", "lost"}
None == 0
Tokens == 1 .. MaxTokens
Times == 0 .. MaxTime
Never == MaxTime + 1
AllKinds == {"refresh", "logout", "password"}

ASSUME BoundsAssumption ==
    /\ MaxTokens \in Nat /\ MaxTime \in Nat /\ Grace \in Nat
    /\ Ttl \in Nat \ {0} /\ MaxHops \in Nat \ {0}
ASSUME WorldsAssumption ==
    Worlds \subseteq [env : SUBSET EnvKinds, jar : [Tabs -> Browsers], tokens : 0 .. MaxTokens, until : Times]

VARIABLES
    world,      \* the environment, the same throughout a behaviour
    now,        \* the clock
    active,     \* users.is_active
    issued,     \* number of raw tokens handed out
    stored,     \* tokens with a row in refresh_tokens
    revoked,    \* revoked_at, or Never
    replaced,   \* replaced_by_id, or None
    expires,    \* expires_at
    session,    \* session_id
    cookie,     \* the refresh cookie in each jar, or None
    phase,      \* where the request of each tab is
    kind,       \* what it asks for
    tok,        \* the token it presented
    live,       \* the tokens it read as not revoked
    answer,     \* the token its answer carries, or None
    origin,     \* history: the token a token was minted from, or None
    killed,     \* history: tokens of sessions that were ended
    alarms      \* history: reuse was detected

table == <<issued, stored, revoked, replaced, expires, session, origin>>
request == <<phase, kind, tok, live, answer>>
vars == <<now, active, table, cookie, request, killed, alarms>>
allVars == <<world, vars>>

env == world.env
jar == world.jar

Phases == {"idle", "sent", "minting", "revoking", "closing", "changing", "answered"}

Init ==
    /\ world \in Worlds
    /\ now = 0
    /\ active = TRUE
    /\ issued = 0
    /\ stored = {}
    /\ revoked = [t \in Tokens |-> Never]
    /\ replaced = [t \in Tokens |-> None]
    /\ expires = [t \in Tokens |-> 0]
    /\ session = [t \in Tokens |-> None]
    /\ origin = [t \in Tokens |-> None]
    /\ cookie = [b \in Browsers |-> None]
    /\ phase = [p \in Tabs |-> "idle"]
    /\ kind = [p \in Tabs |-> "refresh"]
    /\ tok = [p \in Tabs |-> None]
    /\ live = [p \in Tabs |-> {}]
    /\ answer = [p \in Tabs |-> None]
    /\ killed = {}
    /\ alarms = 0

--------------------------------------------------------------------------------
(* The token table *)

Goto(p, where) == phase' = [phase EXCEPT ![p] = where]

\* A request is sent when the one before it has been answered, or earlier.
MaySend == env \cap {"late", "overlap"} # {} \/ \A r \in Tabs : phase[r] = "idle"

\* Between the reads of a request and its writes.
Serving == {"minting", "revoking", "closing", "changing"}

\* Without "overlap" the API reads for a request when it has written for the one before.
MayRead == "overlap" \in env \/ \A r \in Tabs : phase[r] \notin Serving

\* The request of a tab is over.
Close(p) ==
    /\ phase' = [phase EXCEPT ![p] = "idle"]
    /\ kind' = [kind EXCEPT ![p] = "refresh"]
    /\ tok' = [tok EXCEPT ![p] = None]
    /\ live' = [live EXCEPT ![p] = {}]
    /\ answer' = [answer EXCEPT ![p] = None]

LiveTokens == {t \in stored : revoked[t] = Never}

\* One hop of the chain; the walk stays where it ends.
Successor(t) == IF revoked[t] # Never /\ replaced[t] # None THEN replaced[t] ELSE t

\* Mutant of ChainIsLive: looks one hop ahead, and takes a successor that was itself
\* rotated for the sign of a live session.
NextIsLive(t) ==
    LET next == Successor(t)
    IN  replaced[next] # None \/ (revoked[next] = Never /\ expires[next] > now)

\* _chain_is_live: the newest token of the chain is neither revoked nor expired.
ChainIsLive(t) ==
    LET walk[n \in 0 .. MaxHops - 1] == IF n = 0 THEN t ELSE Successor(walk[n - 1])
        tip == walk[MaxHops - 1]
    IN  revoked[tip] = Never /\ expires[tip] > now

\* The row of a new token of session s, minted from token from.
Insert(t, s, from, until) ==
    /\ stored' = stored \cup {t}
    /\ expires' = [expires EXCEPT ![t] = until]
    /\ session' = [session EXCEPT ![t] = s]
    /\ origin' = [origin EXCEPT ![t] = from]

Least(a, b) == IF a < b THEN a ELSE b

\* _finalize_login: issue_refresh_token starts a session; the cookie is set.
Login(b) ==
    /\ \E p \in Tabs : jar[p] = b
    /\ active
    /\ issued < world.tokens
    /\ MayRead
    /\ issued' = issued + 1
    /\ Insert(issued + 1, issued + 1, None, now + Ttl)
    /\ cookie' = [cookie EXCEPT ![b] = issued + 1]
    /\ UNCHANGED <<now, active, revoked, replaced, request, killed, alarms>>

\* A tab presents the cookie of its browser.
Send(p, k) ==
    /\ k = "refresh" \/ k \in env
    /\ phase[p] = "idle"
    /\ cookie[jar[p]] # None
    /\ MaySend
    /\ kind' = [kind EXCEPT ![p] = k]
    /\ tok' = [tok EXCEPT ![p] = cookie[jar[p]]]
    /\ Goto(p, "sent")
    /\ UNCHANGED <<now, active, table, cookie, live, answer, killed, alarms>>

--------------------------------------------------------------------------------
(* rotate_refresh_token *)

Rotated(t) == revoked[t] # Never /\ replaced[t] # None

\* Mutant of Replayed: a token that was rotated at all counts as replayed.
ReplayedAtOnce(t) == Rotated(t)

\* A token rotated away longer ago than the grace window.
Replayed(t) == Rotated(t) /\ now - revoked[t] > Grace

\* The checks that let a token mint another one.
Accepted(t) ==
    /\ t \in stored
    /\ revoked[t] # Never => Rotated(t) /\ ~Replayed(t) /\ ChainIsLive(t)
    /\ expires[t] > now
    /\ active

\* The reads and the decision.
ReadRefresh(p) ==
    /\ phase[p] = "sent"
    /\ kind[p] = "refresh"
    /\ MayRead
    /\ live' = [live EXCEPT ![p] = LiveTokens]
    /\ \/ tok[p] \in stored /\ Replayed(tok[p]) /\ Goto(p, "revoking")
       \/ Accepted(tok[p]) /\ Goto(p, "minting")
       \/ /\ ~Accepted(tok[p]) /\ ~(tok[p] \in stored /\ Replayed(tok[p]))
          /\ Goto(p, "answered")
    /\ UNCHANGED <<now, active, table, cookie, kind, tok, answer, killed, alarms>>

\* The new row; a token that was live when it was read is revoked and linked to it,
\* a grace-window sibling is linked to nothing and expires with its parent.
Mint(p) ==
    /\ phase[p] = "minting"
    /\ issued < world.tokens
    /\ issued' = issued + 1
    /\ answer' = [answer EXCEPT ![p] = issued + 1]
    /\ IF "commits" \in env
         THEN LET t == tok[p]
                  wasLive == t \in live[p]
              IN  /\ Insert(issued + 1, session[t], t,
                            IF wasLive THEN now + Ttl ELSE Least(now + Ttl, expires[t]))
                  /\ revoked' = [revoked EXCEPT ![t] = IF wasLive THEN now ELSE @]
                  /\ replaced' = [replaced EXCEPT ![t] = IF wasLive THEN issued + 1 ELSE @]
         ELSE UNCHANGED <<stored, revoked, replaced, expires, session, origin>>
    /\ Goto(p, "answered")
    /\ UNCHANGED <<now, active, cookie, kind, tok, live, killed, alarms>>

\* Mutant of RevokeSeen: revokes the token of the request and not the others.
RevokePresented(p) == revoked' = [revoked EXCEPT ![tok[p]] = now]

\* _revoke_all_for_user: the tokens its SELECT found.
RevokeSeen(p) == revoked' = [t \in Tokens |-> IF t \in live[p] THEN now ELSE revoked[t]]

\* Reuse detected: every session of the user ends, and the request fails.
RevokeAll(p) ==
    /\ phase[p] = "revoking"
    /\ IF "commits" \in env THEN RevokeSeen(p) ELSE UNCHANGED revoked
    /\ killed' = killed \cup stored
    /\ alarms' = 1
    /\ Goto(p, "answered")
    /\ UNCHANGED <<now, active, issued, stored, replaced, expires, session, origin,
                   cookie, kind, tok, live, answer>>

--------------------------------------------------------------------------------
(* Logout and password change *)

\* Both requests read before they write.
ReadOther(p) ==
    /\ phase[p] = "sent"
    /\ MayRead
    /\ \/ kind[p] = "logout" /\ Goto(p, "closing")
       \/ kind[p] = "password" /\ active /\ Goto(p, "changing")
       \/ kind[p] = "password" /\ ~active /\ Goto(p, "answered")
    /\ live' = [live EXCEPT ![p] = LiveTokens]
    /\ UNCHANGED <<now, active, table, cookie, kind, tok, answer, killed, alarms>>

\* revoke_refresh_token: a token read as live is revoked, and only that token.
\* The user has ended the session it belongs to.
Logout(p) ==
    /\ phase[p] = "closing"
    /\ revoked' = IF "commits" \in env /\ tok[p] \in live[p]
                    THEN [revoked EXCEPT ![tok[p]] = now] ELSE revoked
    /\ killed' = killed \cup {t \in stored : tok[p] \in stored /\ session[t] = session[tok[p]]}
    /\ cookie' = [cookie EXCEPT ![jar[p]] = None]
    /\ Close(p)
    /\ UNCHANGED <<now, active, issued, stored, replaced, expires, session, origin,
                   alarms>>

\* change_own_password revokes every token; the endpoint issues a new one in the
\* same session and commits.
ChangePassword(p) ==
    /\ phase[p] = "changing"
    /\ issued < world.tokens
    /\ issued' = issued + 1
    /\ Insert(issued + 1, IF tok[p] \in stored THEN session[tok[p]] ELSE issued + 1,
              None, now + Ttl)
    /\ RevokeSeen(p)
    /\ killed' = killed \cup stored
    /\ answer' = [answer EXCEPT ![p] = issued + 1]
    /\ Goto(p, "answered")
    /\ UNCHANGED <<now, active, replaced, cookie, kind, tok, live, alarms>>

\* The answer arrives: a success sets the cookie.  An error leaves it: the cookie
\* deletion is on a response object that the raised exception discards.
Receive(p) ==
    /\ phase[p] = "answered"
    /\ cookie' = [cookie EXCEPT ![jar[p]] = IF answer[p] = None THEN @ ELSE answer[p]]
    /\ Close(p)
    /\ UNCHANGED <<now, active, table, killed, alarms>>

Lose(p) ==
    /\ "lost" \in env
    /\ phase[p] = "answered"
    /\ Close(p)
    /\ UNCHANGED <<now, active, table, cookie, killed, alarms>>

--------------------------------------------------------------------------------
(* The clock, and the administrator who deactivates the user *)

\* A request is short compared with the grace window.
Tick ==
    /\ now < MaxTime /\ now < world.until
    /\ \A p \in Tabs : phase[p] = "idle"
    /\ now' = now + 1
    /\ UNCHANGED <<active, table, cookie, request, killed, alarms>>

SetActive ==
    /\ active' = ~active
    /\ UNCHANGED <<now, table, cookie, request, killed, alarms>>

Serve(p) ==
    \/ ReadRefresh(p) \/ Mint(p) \/ RevokeAll(p) \/ ReadOther(p) \/ Logout(p)
    \/ ChangePassword(p) \/ Receive(p) \/ Lose(p)

Step ==
    \/ \E b \in Browsers : Login(b)
    \/ \E p \in Tabs : Serve(p) \/ \E k \in AllKinds : Send(p, k)
    \/ Tick
    \/ SetActive

Next == Step /\ UNCHANGED world

Spec == Init /\ [][Next]_allVars

--------------------------------------------------------------------------------
(* Properties *)

\* The type invariant of the token table, the cookies and the requests.
TypeOK ==
    /\ now \in Times
    /\ active \in BOOLEAN
    /\ issued \in 0 .. MaxTokens
    /\ stored \subseteq 1 .. issued
    /\ revoked \in [Tokens -> Times \cup {Never}]
    /\ replaced \in [Tokens -> {None} \cup Tokens]
    /\ expires \in [Tokens -> 0 .. MaxTime + Ttl]
    /\ session \in [Tokens -> {None} \cup Tokens]
    /\ origin \in [Tokens -> {None} \cup Tokens]
    /\ cookie \in [Browsers -> {None} \cup Tokens]
    /\ phase \in [Tabs -> Phases]
    /\ kind \in [Tabs -> AllKinds]
    /\ tok \in [Tabs -> {None} \cup Tokens]
    /\ live \in [Tabs -> SUBSET Tokens]
    /\ answer \in [Tabs -> {None} \cup Tokens]
    /\ killed \subseteq Tokens
    /\ alarms \in {0, 1}

\* The environment of this behaviour does none of kinds.
Without(kinds) == env \cap kinds = {}

\* The comment in rotate_refresh_token: once a password change or reuse detection has
\* ended a session, no token of it can mint another one: not even one that reaches the
\* API late, several rotations behind the token that was live, and was rotated within the
\* grace window.  It holds as long as the API serves one request of the user at a time.
\* (A logout revokes one token, and a grace-window sibling of it lives on.)
KilledStaysKilled ==
    [][Without({"overlap", "logout"}) =>
         \A t \in stored' \ stored : origin'[t] \notin killed]_vars

\* The docstring of change_own_password: it revokes every refresh token the user has at
\* that moment, so that the other sessions are kicked out.
OthersAreKickedOut == \A t \in killed : revoked[t] # Never

\* That holds of change_own_password and of reuse detection where the API serves one
\* request of the user at a time, however late the requests and their answers arrive.
\* (A token that another request commits between the SELECT and the UPDATE is missed.)
KilledIsRevoked == Without({"overlap", "logout"}) => OthersAreKickedOut

\* Two tabs that refresh with the same cookie, or log out, are not taken for a theft:
\* without lost answers reuse detection never revokes the sessions of the user.
NoFalseAlarm == Without({"lost"}) => alarms = 0

\* The cookie a browser got from a successful answer names a token that exists.
CookieIsStored == \A b \in Browsers : cookie[b] # None => cookie[b] \in stored

================================================================================
