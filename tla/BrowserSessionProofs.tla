------------------------- MODULE BrowserSessionProofs -------------------------
(***************************************************************************)
(* What is proved of BrowserSession for any number of tabs, of sessions and*)
(* for every world: a POST takes effect once, a logout and a sign-in stick,*)
(* and no tab presents a cookie that another one has replaced.             *)
(***************************************************************************)
EXTENDS BrowserSession, TLAPS

-----------------------------------------------------------------------------
(* The inductive invariant *)

\* What a request of kind k may be in the middle of, when made sessions exist: it takes
\* effect once for every time it is sent, and is sent again only by ky.
GoodCall(k, c, m) ==
    /\ c \in CallType /\ c.gives <= m
    /\ c.left > 0 => c.again
    /\ c.effects + c.left <= RetryLimit + 1
    /\ c.stage \in {"before", "sent", "denied", "after"} => c.effects + c.left <= RetryLimit
    /\ c.stage \in {"before", "after"} \/ (c.stage \in {"sent", "denied"} /\ ~c.again)
         => c.effects = 0
    /\ ~Repeatable(k) => /\ c.left = 0 /\ c.effects <= 1
                         /\ c.stage \in {"sent", "denied"} => c.effects = 0

GoodCalls == \A t \in Tabs, k \in Kinds : GoodCall(k, call[t][k], made)

\* The tabs that hold the lock.
Busy(t) == refresh[t].stage \in {"asked", "granted", "refused", "failed"}

\* Sessions are numbered in the order they were signed in to.
Numbered ==
    /\ alive \subseteq 1 .. made /\ jar.session <= made
    /\ \A t \in Tabs : refresh[t].session <= made

OneHolds == \A t, u \in Tabs : Busy(t) /\ Busy(u) => t = u

\* A refresh is about the session whose cookie the browser has.
Presented == ~crossed => \A t \in Tabs : Busy(t) => refresh[t].session = jar.session

\* A session that was refused has ended.
RefusedHasEnded ==
    \A t \in Tabs : refresh[t].stage = "refused" => refresh[t].session \notin alive

LockInv == Numbered /\ OneHolds /\ Presented /\ RefusedHasEnded

\* The cookie in the jar is replaced only by the answer that is on its way.
RotationInv ==
    env \cap {"network", "reload"} = {} /\ ~crossed =>
       /\ ~replayed
       /\ \A t \in Tabs : refresh[t].stage \in {"asked", "granted"} => refresh[t].current
       /\ jar.current \/ \E t \in Tabs : refresh[t].stage = "granted"

\* After a logout the browser has no cookie, and no refresh brings one.
OutInv ==
    out # {} /\ ~crossed =>
       /\ jar.session = 0
       /\ \A t \in Tabs : Busy(t) => refresh[t].session = 0 /\ refresh[t].stage # "granted"
       /\ \A t \in out : token[t] = NoToken

-----------------------------------------------------------------------------
(* Types *)

LEMMA Blanks ==
  /\ NoToken \in TokenType /\ NoCookie \in CookieType /\ NoRefresh \in RefreshType
  /\ NewCall \in CallType /\ NewForm \in FormType
  /\ \A k \in Kinds, m \in Nat : GoodCall(k, NewCall, m)
<1>1. 0 \in 0 .. MaxSessions
  BY SessionsAssumption
<1>2. /\ NoToken \in TokenType /\ NoCookie \in CookieType /\ NoRefresh \in RefreshType
  BY <1>1 DEF NoToken, TokenType, NoCookie, CookieType, NoRefresh, RefreshType
<1>3. NewForm \in FormType
  BY DEF NewForm, FormType
<1>4. NewCall \in CallType
  BY <1>1, <1>2 DEF NewCall, CallType, RetryLimit
<1>5. /\ NewCall.gives = 0 /\ NewCall.left = 0 /\ NewCall.effects = 0 /\ NewCall.stage = "idle"
      /\ NewCall.again = FALSE
  BY DEF NewCall
<1> QED BY <1>2, <1>3, <1>4, <1>5 DEF GoodCall, RetryLimit

LEMMA TokenKept ==
  ASSUME NEW tok \in TokenType
  PROVE  GetAccessToken(tok) \in TokenType
BY Blanks DEF GetAccessToken

\* Sending a request that had no effect yet.
LEMMA SentIsGood ==
  ASSUME TypeOK, NEW k \in Kinds, NEW c, NEW tok \in TokenType, GoodCall(k, c, made),
         c.stage \in {"idle", "before"}, c.effects = 0
  PROVE  GoodCall(k, Sent(k, c, tok), made)
<1> DEFINE b == IF Public(k) THEN NoToken ELSE GetAccessToken(tok)
           j == IF k = "logout" THEN jar.session ELSE 0
           rec == [c EXCEPT !.stage = "sent", !.bearer = b, !.cookie = j]
<1>1. /\ b \in TokenType /\ j \in 0 .. MaxSessions
      /\ c \in CallType /\ c.left \in 0 .. RetryLimit
  BY Blanks, TokenKept, SessionsAssumption DEF TypeOK, CookieType, GoodCall, CallType
<1>2. Sent(k, c, tok) = rec
  BY DEF Sent
<1> HIDE DEF b, j
<1>3. /\ rec \in CallType /\ rec.stage = "sent" /\ rec.gives = c.gives /\ rec.left = c.left
      /\ rec.effects = c.effects /\ rec.again = c.again
  BY <1>1 DEF CallType
<1> HIDE DEF rec
<1> QED BY <1>1, <1>2, <1>3 DEF GoodCall, RetryLimit

\* A change of one request.
LEMMA OneCall ==
  ASSUME TypeOK, GoodCalls, NEW t \in Tabs, NEW k \in Kinds, NEW c,
         call' = [call EXCEPT ![t] = [call[t] EXCEPT ![k] = c]],
         made' \in Nat, made' >= made, GoodCall(k, c, made')
  PROVE  call' \in [Tabs -> [Kinds -> CallType]] /\ GoodCalls'
<1>1. c \in CallType
  BY DEF GoodCall
<1>2. call \in [Tabs -> [Kinds -> CallType]] /\ made \in Nat
  BY SessionsAssumption DEF TypeOK
<1>3. \A u \in Tabs, j \in Kinds : call'[u][j] = IF u = t /\ j = k THEN c ELSE call[u][j]
  BY <1>2
<1>4. call' \in [Tabs -> [Kinds -> CallType]]
  BY <1>1, <1>2
<1>5. ASSUME NEW u \in Tabs, NEW j \in Kinds PROVE GoodCall(j, call'[u][j], made')
  <2>1. CASE u = t /\ j = k
    BY <1>3, <2>1
  <2>2. CASE ~(u = t /\ j = k)
    <3>1. call'[u][j] = call[u][j] /\ GoodCall(j, call[u][j], made)
      BY <1>3, <2>2 DEF GoodCalls
    <3>2. call[u][j].gives \in Nat
      BY <1>2, SessionsAssumption DEF CallType
    <3> QED BY <1>2, <3>1, <3>2 DEF GoodCall
  <2> QED BY <2>1, <2>2
<1> QED BY <1>4, <1>5 DEF GoodCalls
LEMMA RefreshTyped ==
  ASSUME TypeOK, NEW t \in Tabs, TryRefresh(t)
  PROVE  refresh' \in [Tabs -> RefreshType]
<1>1. /\ refresh \in [Tabs -> RefreshType] /\ refresh[t] \in RefreshType
      /\ refresh[t].stage \in {"none", "queued", "asked", "granted", "refused", "failed"}
  BY DEF TypeOK, RefreshType
<1> DEFINE st == IF refresh[t].stage = "none" THEN "queued" ELSE refresh[t].stage
           rec == [refresh[t] EXCEPT !.stage = st]
<1>2. refresh' = [refresh EXCEPT ![t] = rec]
  BY DEF TryRefresh
<1>3. st \in {"none", "queued", "asked", "granted", "refused", "failed"}
  BY <1>1
<1> HIDE DEF st
<1>4. rec \in RefreshType
  BY <1>1, <1>3 DEF RefreshType
<1> HIDE DEF rec
<1> QED BY <1>1, <1>2, <1>4

\* The parts of the type that a request touches.
Half == /\ call \in [Tabs -> [Kinds -> CallType]] /\ GoodCalls
        /\ token \in [Tabs -> TokenType] /\ refresh \in [Tabs -> RefreshType]

LEMMA BeforeRequestGood ==
  ASSUME TypeOK, GoodCalls, NEW t \in Tabs, NEW k \in Kinds, NEW p, BeforeRequest(t, k, p),
         made' = made
  PROVE  Half'
<1>0. /\ token \in [Tabs -> TokenType] /\ token[t] \in TokenType /\ made \in Nat
      /\ refresh \in [Tabs -> RefreshType] /\ call \in [Tabs -> [Kinds -> CallType]]
  BY SessionsAssumption DEF TypeOK
<1>m. made' \in Nat /\ made' >= made
  BY <1>0
<1>1. CASE p /\ IsExpiringSoon(t)
  <2> DEFINE rec == [NewCall EXCEPT !.stage = "before"]
  <2>1. call' = [call EXCEPT ![t] = [call[t] EXCEPT ![k] = rec]] /\ TryRefresh(t) /\ UNCHANGED token
    BY <1>1 DEF BeforeRequest
  <2>2. /\ rec \in CallType /\ rec.stage = "before" /\ rec.gives = 0 /\ rec.left = 0
        /\ rec.effects = 0 /\ rec.again = FALSE
    <3>1. NewCall \in CallType /\ NewCall.gives = 0 /\ NewCall.left = 0 /\ NewCall.effects = 0
          /\ NewCall.again = FALSE
      BY Blanks DEF NewCall
    <3> QED BY <3>1 DEF CallType
  <2> HIDE DEF rec
  <2>3. GoodCall(k, rec, made')
    BY <1>0, <2>2 DEF GoodCall, RetryLimit
  <2>4. call' \in [Tabs -> [Kinds -> CallType]] /\ GoodCalls'
    BY <1>m, <2>1, <2>3, OneCall
  <2> QED BY <1>0, <2>1, <2>4, RefreshTyped DEF Half
<1>2. CASE ~(p /\ IsExpiringSoon(t))
  <2> DEFINE rec == Sent(k, NewCall, token[t])
  <2>1. /\ call' = [call EXCEPT ![t] = [call[t] EXCEPT ![k] = rec]] /\ UNCHANGED refresh
        /\ token' = [token EXCEPT ![t] = GetAccessToken(token[t])]
    BY <1>2 DEF BeforeRequest
  <2>2. NewCall.stage = "idle" /\ NewCall.effects = 0
    BY DEF NewCall
  <2>3. GoodCall(k, rec, made')
    BY <1>0, <2>2, Blanks, SentIsGood
  <2> HIDE DEF rec
  <2>4. call' \in [Tabs -> [Kinds -> CallType]] /\ GoodCalls'
    BY <1>m, <2>1, <2>3, OneCall
  <2>5. GetAccessToken(token[t]) \in TokenType
    BY <1>0, TokenKept
  <2> QED BY <1>0, <2>1, <2>4, <2>5 DEF Half
<1> QED BY <1>1, <1>2
\* A request with another stage.
LEMMA StageChanged ==
  ASSUME NEW k \in Kinds, NEW c, NEW m \in Nat, GoodCall(k, c, m),
         NEW st \in {"served", "denied", "after"},
         st = "denied" => c.stage = "sent", st = "after" => c.stage = "denied" /\ ~c.again
  PROVE  GoodCall(k, [c EXCEPT !.stage = st], m)
<1> DEFINE rec == [c EXCEPT !.stage = st]
<1>1. /\ rec \in CallType /\ rec.stage = st /\ rec.gives = c.gives /\ rec.left = c.left
      /\ rec.effects = c.effects /\ rec.again = c.again
  BY DEF GoodCall, CallType
<1> HIDE DEF rec
<1>2. GoodCall(k, rec, m)
  BY <1>1 DEF GoodCall
<1> QED BY <1>2 DEF rec

\* A request that is over, of which only the number of its effects is remembered.
LEMMA Ended ==
  ASSUME NEW k \in Kinds, NEW c, NEW m \in Nat, GoodCall(k, c, m)
  PROVE  GoodCall(k, [NewCall EXCEPT !.effects = c.effects], m)
<1> DEFINE rec == [NewCall EXCEPT !.effects = c.effects]
<1>1. c.effects \in 0 .. RetryLimit + 1 /\ c.left \in 0 .. RetryLimit
  BY DEF GoodCall, CallType
<1>2. /\ NewCall \in CallType /\ NewCall.gives = 0 /\ NewCall.left = 0 /\ NewCall.again = FALSE
      /\ NewCall.stage = "idle"
  BY Blanks DEF NewCall
<1>3. /\ rec \in CallType /\ rec.stage = "idle" /\ rec.gives = 0 /\ rec.left = 0
      /\ rec.effects = c.effects /\ rec.again = FALSE
  BY <1>1, <1>2 DEF CallType
<1> HIDE DEF rec
<1>4. GoodCall(k, rec, m)
  BY <1>1, <1>3 DEF GoodCall, RetryLimit
<1> QED BY <1>4 DEF rec

LEMMA ServeGood ==
  ASSUME TypeOK, GoodCalls, NEW t \in Tabs, NEW k \in Kinds, Serve(t, k)
  PROVE  call' \in [Tabs -> [Kinds -> CallType]] /\ GoodCalls'
<1> DEFINE c == call[t][k]
<1>1. /\ made' \in Nat /\ made' >= made /\ made' = made /\ made \in Nat
      /\ GoodCall(k, c, made) /\ c \in CallType /\ c.stage = "sent"
      /\ call \in [Tabs -> [Kinds -> CallType]]
  BY SessionsAssumption DEF TypeOK, GoodCalls, Serve
<1>2. CASE call' = [call EXCEPT ![t][k].stage = "denied"]
  <2> DEFINE rec == [c EXCEPT !.stage = "denied"]
  <2>1. call' = [call EXCEPT ![t] = [call[t] EXCEPT ![k] = rec]]
    BY <1>2
  <2>2. GoodCall(k, rec, made')
    BY <1>1, StageChanged
  <2> HIDE DEF rec
  <2> QED BY <1>1, <2>1, <2>2, OneCall
<1>3. CASE call' = [call EXCEPT ![t][k].stage = "served",
                                ![t][k].effects = IF k \in {"post", "put"} THEN @ + 1 ELSE @]
  <2> DEFINE n == IF k \in {"post", "put"} THEN c.effects + 1 ELSE c.effects
             rec == [c EXCEPT !.stage = "served", !.effects = n]
  <2>1. call' = [call EXCEPT ![t] = [call[t] EXCEPT ![k] = rec]]
    BY <1>1, <1>3 DEF CallType
  <2>2. /\ c.effects \in 0 .. 3 /\ c.left \in 0 .. 2 /\ c.effects + c.left <= 2
        /\ ~Repeatable(k) => c.left = 0 /\ c.effects = 0
        /\ c.gives <= made /\ (c.left > 0 => c.again)
    BY <1>1 DEF GoodCall, CallType, RetryLimit
  <2>3. /\ n \in 0 .. 3 /\ n + c.left <= 3 /\ (~Repeatable(k) => n <= 1)
    BY <2>2
  <2> HIDE DEF n
  <2>4. /\ rec \in CallType /\ rec.stage = "served" /\ rec.gives = c.gives /\ rec.left = c.left
        /\ rec.effects = n /\ rec.again = c.again
    <3>1. n \in 0 .. RetryLimit + 1
      BY <2>3 DEF RetryLimit
    <3> HIDE DEF c
    <3> QED BY <1>1, <3>1 DEF CallType
  <2> HIDE DEF rec, c
  <2>5. GoodCall(k, rec, made')
    BY <1>1, <2>2, <2>3, <2>4 DEF GoodCall, RetryLimit
  <2> QED BY <1>1, <2>1, <2>5, OneCall
<1> QED BY <1>2, <1>3 DEF Serve

LEMMA UnauthorizedGood ==
  ASSUME TypeOK, GoodCalls, NEW t \in Tabs, NEW k \in Kinds, Unauthorized(t, k)
  PROVE  Half'
<1> DEFINE c == call[t][k]
<1>1. /\ made' \in Nat /\ made' >= made /\ made' = made /\ made \in Nat
      /\ GoodCall(k, c, made) /\ c.stage = "denied" /\ UNCHANGED token
      /\ token \in [Tabs -> TokenType] /\ refresh \in [Tabs -> RefreshType]
  BY SessionsAssumption DEF TypeOK, GoodCalls, Unauthorized
<1>2. CASE Hooked(k) /\ ~c.again
  <2> DEFINE rec == [c EXCEPT !.stage = "after"]
  <2>1. call' = [call EXCEPT ![t] = [call[t] EXCEPT ![k] = rec]] /\ TryRefresh(t)
    BY <1>2 DEF Unauthorized
  <2>2. GoodCall(k, rec, made')
    BY <1>1, <1>2, StageChanged
  <2> HIDE DEF rec
  <2>3. call' \in [Tabs -> [Kinds -> CallType]] /\ GoodCalls'
    BY <1>1, <2>1, <2>2, OneCall
  <2> QED BY <1>1, <2>1, <2>3, RefreshTyped DEF Half
<1>3. CASE ~(Hooked(k) /\ ~c.again)
  <2>1. call' = [call EXCEPT ![t] = [call[t] EXCEPT ![k] = NewCall]] /\ UNCHANGED refresh
    BY <1>3 DEF Unauthorized
  <2>2. GoodCall(k, NewCall, made')
    BY <1>1, Blanks
  <2>3. call' \in [Tabs -> [Kinds -> CallType]] /\ GoodCalls'
    BY <1>1, <2>1, <2>2, OneCall
  <2> QED BY <1>1, <2>1, <2>3 DEF Half
<1> QED BY <1>2, <1>3

LEMMA ReceiveGood ==
  ASSUME TypeOK, GoodCalls, NEW t \in Tabs, NEW k \in Kinds, Receive(t, k)
  PROVE  Half'
<1> DEFINE rec == [NewCall EXCEPT !.effects = call[t][k].effects]
<1>1. /\ made' \in Nat /\ made' >= made /\ made' = made /\ made \in Nat
      /\ GoodCall(k, call[t][k], made) /\ UNCHANGED refresh
      /\ token \in [Tabs -> TokenType] /\ refresh \in [Tabs -> RefreshType]
  BY SessionsAssumption DEF TypeOK, GoodCalls, Receive
<1>2. call' = [call EXCEPT ![t] = [call[t] EXCEPT ![k] = rec]]
  BY DEF Receive
<1>3. GoodCall(k, rec, made')
  BY <1>1, Ended
<1>4. token' = token \/ token' = [token EXCEPT ![t] = NoToken]
  BY DEF Receive, LoggedOut
<1>5. token' \in [Tabs -> TokenType]
  BY <1>1, <1>4, Blanks
<1> HIDE DEF rec
<1>6. call' \in [Tabs -> [Kinds -> CallType]] /\ GoodCalls'
  BY <1>1, <1>2, <1>3, OneCall
<1> QED BY <1>1, <1>5, <1>6 DEF Half

LEMMA RequestFailsGood ==
  ASSUME TypeOK, GoodCalls, NEW t \in Tabs, NEW k \in Kinds, RequestFails(t, k)
  PROVE  Half'
<1> DEFINE c == call[t][k]
<1>1. /\ made' \in Nat /\ made' >= made /\ made' = made /\ made \in Nat
      /\ GoodCall(k, c, made) /\ UNCHANGED refresh /\ c \in CallType
      /\ token \in [Tabs -> TokenType] /\ refresh \in [Tabs -> RefreshType]
      /\ call \in [Tabs -> [Kinds -> CallType]]
  BY SessionsAssumption DEF TypeOK, GoodCalls, RequestFails
<1>2. token' = token \/ token' = [token EXCEPT ![t] = NoToken]
  BY DEF RequestFails
<1>3. token' \in [Tabs -> TokenType]
  BY <1>1, <1>2, Blanks
<1>4. CASE c.left > 0
  <2> DEFINE rec == [c EXCEPT !.stage = "sent", !.left = c.left - 1]
  <2>1. call' = [call EXCEPT ![t][k].stage = "sent", ![t][k].left = @ - 1]
    BY <1>4 DEF RequestFails
  <2>2. call' = [call EXCEPT ![t] = [call[t] EXCEPT ![k] = rec]]
    BY <1>1, <2>1 DEF CallType
  <2>3. /\ c.effects \in 0 .. 3 /\ c.left \in 0 .. 2 /\ c.effects + c.left <= 3
        /\ Repeatable(k) /\ c.again /\ c.gives <= made
    BY <1>1, <1>4 DEF GoodCall, CallType, RetryLimit
  <2>4. /\ rec \in CallType /\ rec.stage = "sent" /\ rec.gives = c.gives /\ rec.left = c.left - 1
        /\ rec.effects = c.effects /\ rec.again = c.again
    <3> DEFINE l == c.left - 1
    <3>1. l \in 0 .. RetryLimit
      BY <1>4, <2>3 DEF RetryLimit
    <3> HIDE DEF c, l
    <3> QED BY <1>1, <3>1 DEF CallType, l
  <2> HIDE DEF rec, c
  <2>5. GoodCall(k, rec, made')
    BY <1>1, <2>3, <2>4 DEF GoodCall, RetryLimit
  <2>6. call' \in [Tabs -> [Kinds -> CallType]] /\ GoodCalls'
    BY <1>1, <2>2, <2>5, OneCall
  <2> QED BY <1>1, <1>3, <2>6 DEF Half
<1>5. CASE ~(c.left > 0)
  <2> DEFINE rec == [NewCall EXCEPT !.effects = c.effects]
  <2>1. call' = [call EXCEPT ![t] = [call[t] EXCEPT ![k] = rec]]
    BY <1>5 DEF RequestFails
  <2>2. GoodCall(k, rec, made')
    BY <1>1, Ended
  <2> HIDE DEF rec
  <2>3. call' \in [Tabs -> [Kinds -> CallType]] /\ GoodCalls'
    BY <1>1, <2>1, <2>2, OneCall
  <2> QED BY <1>1, <1>3, <2>3 DEF Half
<1> QED BY <1>4, <1>5
\* A request that is sent again after a refresh had no effect yet.
LEMMA ResumedIsGood ==
  ASSUME NEW k \in Kinds, NEW c, NEW m \in Nat, GoodCall(k, c, m), c.stage = "after",
         NEW tok \in TokenType, NEW g
  PROVE  GoodCall(k, Resumed(k, c, g, tok), m)
<1>1. CASE g
  <2> DEFINE l == IF Repeatable(k) THEN RetryLimit ELSE 0
             rec == [c EXCEPT !.stage = "sent", !.bearer = tok, !.again = TRUE, !.left = l]
  <2>1. Resumed(k, c, g, tok) = rec
    BY <1>1 DEF Resumed
  <2>2. l \in 0 .. RetryLimit /\ (~Repeatable(k) => l = 0) /\ l <= 2
    BY DEF RetryLimit
  <2>3. c \in CallType /\ c.effects = 0 /\ c.gives <= m
    BY DEF GoodCall
  <2> HIDE DEF l
  <2>4. /\ rec \in CallType /\ rec.stage = "sent" /\ rec.gives = c.gives /\ rec.left = l
        /\ rec.effects = 0 /\ rec.again = TRUE
    BY <2>2, <2>3 DEF CallType
  <2> HIDE DEF rec
  <2>5. l \in Nat
    BY <2>2 DEF RetryLimit
  <2>6. GoodCall(k, rec, m)
    BY <2>2, <2>3, <2>4, <2>5 DEF GoodCall, RetryLimit
  <2> QED BY <2>1, <2>6
<1>2. CASE ~g
  BY <1>2, Blanks DEF Resumed
<1> QED BY <1>1, <1>2

LEMMA RefreshEndsGood ==
  ASSUME TypeOK, GoodCalls, NEW t \in Tabs, RefreshEnds(t)
  PROVE  Half' /\ jar' \in CookieType
<1> DEFINE granted == refresh[t].stage = "granted"
           set == IF granted THEN [session |-> refresh[t].session, age |-> "fresh"] ELSE token[t]
           left == IF Forgets(t) THEN NoToken ELSE set
<1>1. /\ made' = made /\ made \in Nat /\ refresh[t] \in RefreshType
      /\ token \in [Tabs -> TokenType] /\ refresh \in [Tabs -> RefreshType]
      /\ call \in [Tabs -> [Kinds -> CallType]] /\ jar \in CookieType
  BY SessionsAssumption DEF TypeOK, RefreshEnds
<1>2. [session |-> refresh[t].session, age |-> "fresh"] \in TokenType
  BY <1>1 DEF RefreshType, TokenType
<1>3. set \in TokenType /\ left \in TokenType
  BY <1>1, <1>2, Blanks
<1>4. /\ refresh' = [refresh EXCEPT ![t] = NoRefresh]
      /\ token' = [token EXCEPT ![t] = IF Waiting(t, "before") = {} THEN left
                                       ELSE GetAccessToken(left)]
      /\ jar' = IF granted THEN [session |-> refresh[t].session, current |-> refresh[t].current]
                ELSE jar
  BY DEF RefreshEnds
<1>5. PICK seen \in {set, left} :
        call' = [call EXCEPT ![t] = [k \in Kinds |->
              CASE call[t][k].stage = "before" -> Sent(k, call[t][k], seen)
                [] call[t][k].stage = "after"  -> Resumed(k, call[t][k], granted, set)
                [] OTHER -> call[t][k]]]
  BY DEF RefreshEnds
<1>6. seen \in TokenType
  BY <1>3
<1>7. jar' \in CookieType
  BY <1>1, <1>4 DEF RefreshType, CookieType
<1> HIDE DEF set, left, granted
<1>8. refresh' \in [Tabs -> RefreshType] /\ token' \in [Tabs -> TokenType]
  BY <1>1, <1>3, <1>4, Blanks, TokenKept
<1>9. ASSUME NEW u \in Tabs, NEW k \in Kinds PROVE GoodCall(k, call'[u][k], made')
  <2>1. GoodCall(k, call[u][k], made)
    BY DEF GoodCalls
  <2>2. CASE u # t
    BY <1>1, <1>5, <2>1, <2>2
  <2>3. CASE u = t /\ call[t][k].stage = "before"
    <3>1. call'[u][k] = Sent(k, call[t][k], seen)
      BY <1>1, <1>5, <2>3
    <3> DEFINE c == call[t][k]
    <3>2. GoodCall(k, c, made) /\ c.stage = "before" /\ c.effects = 0
      BY <2>1, <2>3 DEF GoodCall
    <3> HIDE DEF c
    <3>3. GoodCall(k, Sent(k, c, seen), made)
      BY <1>6, <3>2, SentIsGood
    <3> QED BY <1>1, <3>1, <3>3 DEF c
  <2>4. CASE u = t /\ call[t][k].stage = "after"
    <3>1. call'[u][k] = Resumed(k, call[t][k], granted, set)
      BY <1>1, <1>5, <2>4
    <3> QED BY <1>1, <1>3, <2>1, <2>4, <3>1, ResumedIsGood
  <2>5. CASE u = t /\ call[t][k].stage \notin {"before", "after"}
    <3>1. call'[u][k] = call[t][k]
      BY <1>1, <1>5, <2>5
    <3> QED BY <1>1, <2>1, <2>5, <3>1
  <2> QED BY <2>2, <2>3, <2>4, <2>5
<1>10. call' \in [Tabs -> [Kinds -> CallType]]
  <2> DEFINE row == [k \in Kinds |->
              CASE call[t][k].stage = "before" -> Sent(k, call[t][k], seen)
                [] call[t][k].stage = "after"  -> Resumed(k, call[t][k], granted, set)
                [] OTHER -> call[t][k]]
  <2>1. call' = [call EXCEPT ![t] = row] /\ call'[t] = row
    BY <1>1, <1>5
  <2>2. \A k \in Kinds : row[k] \in CallType
    BY <1>9, <2>1 DEF GoodCall
  <2>3. DOMAIN row = Kinds /\ row = [k \in Kinds |-> row[k]]
    OBVIOUS
  <2> HIDE DEF row
  <2>4. row \in [Kinds -> CallType]
    BY <2>2, <2>3
  <2> QED BY <1>1, <2>1, <2>4
<1> QED BY <1>7, <1>8, <1>9, <1>10 DEF Half, GoodCalls

LEMMA ServeSignGood ==
  ASSUME TypeOK, GoodCalls, NEW t \in Tabs, ServeSign(t)
  PROVE  /\ call' \in [Tabs -> [Kinds -> CallType]] /\ GoodCalls'
         /\ made' \in 0 .. MaxSessions /\ alive' \subseteq Sessions
<1> DEFINE c == call[t]["sign"]
<1>0. "sign" \in Kinds
  BY DEF Kinds
<1>1. /\ made \in Nat /\ made \in 0 .. MaxSessions /\ alive \subseteq Sessions
      /\ GoodCall("sign", c, made) /\ c \in CallType /\ c.stage = "sent"
      /\ call \in [Tabs -> [Kinds -> CallType]]
      /\ world.most \in 1 .. MaxSessions
  BY <1>0, SessionsAssumption DEF TypeOK, GoodCalls, ServeSign, WorldType
<1>2. ASSUME NEW st \in {"denied", "served"}, call' = [call EXCEPT ![t]["sign"].stage = st],
             UNCHANGED made
      PROVE  call' \in [Tabs -> [Kinds -> CallType]] /\ GoodCalls'
  <2> DEFINE rec == [c EXCEPT !.stage = st]
  <2>1. call' = [call EXCEPT ![t] = [call[t] EXCEPT !["sign"] = rec]]
    BY <1>2
  <2>2. GoodCall("sign", rec, made')
    BY <1>0, <1>1, <1>2, StageChanged
  <2>3. made' \in Nat /\ made' >= made
    BY <1>1, <1>2
  <2> HIDE DEF rec
  <2> QED BY <1>0, <2>1, <2>2, <2>3, OneCall
<1>3. ASSUME made < world.most, made' = made + 1, alive' = alive \union {made + 1},
             call' = [call EXCEPT ![t]["sign"].stage = "served", ![t]["sign"].gives = made + 1]
      PROVE  /\ call' \in [Tabs -> [Kinds -> CallType]] /\ GoodCalls'
             /\ made' \in 0 .. MaxSessions /\ alive' \subseteq Sessions
  <2> DEFINE rec == [c EXCEPT !.stage = "served", !.gives = made + 1]
  <2>1. call' = [call EXCEPT ![t] = [call[t] EXCEPT !["sign"] = rec]]
    BY <1>0, <1>1, <1>3 DEF CallType
  <2>2. /\ made' \in Nat /\ made' >= made /\ made + 1 \in 0 .. MaxSessions
        /\ made + 1 \in 1 .. MaxSessions
    BY <1>1, <1>3, SessionsAssumption
  <2>3. /\ rec \in CallType /\ rec.stage = "served" /\ rec.gives = made + 1 /\ rec.left = c.left
        /\ rec.effects = c.effects /\ rec.again = c.again
    <3> HIDE DEF c
    <3> QED BY <1>1, <2>2 DEF CallType
  <2> HIDE DEF rec, c
  <2>4. GoodCall("sign", rec, made')
    BY <1>1, <1>3, <2>2, <2>3 DEF GoodCall
  <2>5. call' \in [Tabs -> [Kinds -> CallType]] /\ GoodCalls'
    BY <1>0, <2>1, <2>2, <2>4, OneCall
  <2> QED BY <1>1, <1>3, <2>2, <2>5 DEF Sessions
<1> QED BY <1>1, <1>2, <1>3 DEF ServeSign

\* A tab whose requests are all gone.
LEMMA LoadedGood ==
  ASSUME TypeOK, GoodCalls, NEW t \in Tabs, NEW tok \in TokenType, Loaded(t, tok),
         made' \in Nat, made' >= made
  PROVE  Half'
<1> DEFINE row == [k \in Kinds |-> NewCall]
<1>1. /\ token \in [Tabs -> TokenType] /\ refresh \in [Tabs -> RefreshType] /\ made \in Nat
      /\ call \in [Tabs -> [Kinds -> CallType]]
  BY SessionsAssumption DEF TypeOK
<1>2. row \in [Kinds -> CallType] /\ \A k \in Kinds : row[k] = NewCall
  BY Blanks
<1>3. /\ token' = [token EXCEPT ![t] = GetAccessToken(tok)]
      /\ refresh' = [refresh EXCEPT ![t] = NoRefresh]
      /\ call' = [call EXCEPT ![t] = row]
  BY DEF Loaded
<1> HIDE DEF row
<1>4. /\ token' \in [Tabs -> TokenType] /\ refresh' \in [Tabs -> RefreshType]
      /\ call' \in [Tabs -> [Kinds -> CallType]]
  BY <1>1, <1>2, <1>3, Blanks, TokenKept
<1>5. ASSUME NEW u \in Tabs, NEW k \in Kinds PROVE GoodCall(k, call'[u][k], made')
  <2>1. GoodCall(k, NewCall, made')
    BY Blanks
  <2>2. GoodCall(k, call[u][k], made')
    <3>1. GoodCall(k, call[u][k], made) /\ call[u][k].gives \in Nat
      BY <1>1, SessionsAssumption DEF GoodCalls, CallType
    <3> QED BY <1>1, <3>1 DEF GoodCall
  <2>3. call'[u][k] = NewCall \/ call'[u][k] = call[u][k]
    BY <1>1, <1>2, <1>3
  <2> QED BY <2>1, <2>2, <2>3
<1> QED BY <1>4, <1>5 DEF Half, GoodCalls
\* The other parts of the type.
Rest == /\ world \in WorldType
        /\ made \in 0 .. MaxSessions /\ alive \subseteq Sessions /\ jar \in CookieType
        /\ rejected \in [Tabs -> BOOLEAN] /\ me \in [Tabs -> 0 .. Unknown]
        /\ page \in [Tabs -> {"login", "dashboard"}] /\ form \in [Tabs -> FormType]
        /\ answered \in [Tabs -> BOOLEAN]
        /\ out \subseteq Tabs /\ crossed \in BOOLEAN /\ replayed \in BOOLEAN

LEMMA Halves == TypeOK /\ GoodCalls <=> Rest /\ Half
BY DEF TypeOK, Rest, Half

\* A form keeps its type in every step of its tab.
LEMMA FormTyped ==
  ASSUME TypeOK, NEW t \in Tabs, NEW f \in FormType, form' = [form EXCEPT ![t] = f]
  PROVE  form' \in [Tabs -> FormType]
BY DEF TypeOK

LEMMA AsksGood ==
  ASSUME TypeOK, GoodCalls, NEW t \in Tabs, NEW what \in {"login", "send", "verify"},
         Asks(t, what)
  PROVE  Rest' /\ Half'
<1>1. Half'
  <2>1. BeforeRequest(t, "sign", what # "login") /\ made' = made /\ "sign" \in Kinds
    BY DEF Asks, Kinds
  <2> QED BY <2>1, BeforeRequestGood
<1>2. form' \in [Tabs -> FormType]
  <2>1. form[t] \in FormType
    BY DEF TypeOK
  <2>2. [form[t] EXCEPT !.asks = what] \in FormType
    BY <2>1 DEF FormType
  <2>3. form' = [form EXCEPT ![t] = [form[t] EXCEPT !.asks = what]]
    BY DEF Asks
  <2> QED BY <2>2, <2>3, FormTyped
<1>3. Rest'
  BY <1>2 DEF Asks, Rest, TypeOK
<1> QED BY <1>1, <1>3

LEMMA FormStepGood ==
  ASSUME TypeOK, GoodCalls, NEW t \in Tabs,
         \/ OnSubmitPassword(t) \/ PickMethod(t) \/ OnSubmitCode(t)
         \/ ResetToPassword(t) \/ OtherFactor(t)
  PROVE  Rest' /\ Half'
<1>1. \A what \in {"login", "send", "verify"} : Asks(t, what) => Rest' /\ Half'
  BY AsksGood
<1>2. ASSUME NEW f \in FormType, form' = [form EXCEPT ![t] = f], UNCHANGED OnlyForm
      PROVE  Rest' /\ Half'
  <2>1. form' \in [Tabs -> FormType]
    BY <1>2, FormTyped
  <2> QED BY <1>2, <2>1 DEF OnlyForm, Rest, Half, TypeOK, GoodCalls
<1>3. form[t] \in FormType
  BY DEF TypeOK
<1>4. ASSUME NEW ph \in {"password", "choose", "totp", "otp"}
      PROVE  [form[t] EXCEPT !.phase = ph] \in FormType
  BY <1>3 DEF FormType
<1>5. [form[t] EXCEPT !.phase = "password", !.temp = FALSE, !.choice = FALSE] \in FormType
  BY <1>3 DEF FormType
<1>6. CASE OnSubmitPassword(t) \/ OnSubmitCode(t)
  BY <1>1, <1>6 DEF OnSubmitPassword, OnSubmitCode
<1>7. CASE PickMethod(t)
  BY <1>1, <1>2, <1>4, <1>7 DEF PickMethod
<1>8. CASE ResetToPassword(t)
  <2>1. form' = [form EXCEPT ![t] = [form[t] EXCEPT !.phase = "password", !.temp = FALSE, !.choice = FALSE]]
    BY <1>3, <1>8 DEF ResetToPassword, FormType, TypeOK
  <2> QED BY <1>2, <1>5, <1>8, <2>1 DEF ResetToPassword
<1>9. CASE OtherFactor(t)
  BY <1>2, <1>4, <1>9 DEF OtherFactor
<1> QED BY <1>6, <1>7, <1>8, <1>9

LEMMA ReceiveSignGood ==
  ASSUME TypeOK, GoodCalls, NEW t \in Tabs, ReceiveSign(t)
  PROVE  Rest' /\ Half'
<1> DEFINE c == call[t]["sign"]
<1>0. "sign" \in Kinds
  BY DEF Kinds
<1>1. /\ made' = made /\ made' \in Nat /\ made' >= made /\ form[t] \in FormType
      /\ token \in [Tabs -> TokenType] /\ refresh \in [Tabs -> RefreshType]
      /\ UNCHANGED <<world, alive, refresh, rejected, me, replayed>>
      /\ call' = [call EXCEPT ![t] = [call[t] EXCEPT !["sign"] = NewCall]]
  BY SessionsAssumption DEF TypeOK, ReceiveSign
<1>2. GoodCall("sign", NewCall, made') /\ NewForm \in FormType
  BY <1>0, <1>1, Blanks
<1>3. call' \in [Tabs -> [Kinds -> CallType]] /\ GoodCalls'
  BY <1>0, <1>1, <1>2, OneCall
<1>4. [form[t] EXCEPT !.asks = "none"] \in FormType
  BY <1>1 DEF FormType
<1>5. [form[t] EXCEPT !.phase = "otp", !.asks = "none"] \in FormType
  BY <1>1 DEF FormType
<1>6. ASSUME NEW ph \in {"choose", "totp", "otp"}
      PROVE  [phase |-> ph, temp |-> TRUE, choice |-> ph = "choose", asks |-> "none"] \in FormType
  BY <1>6 DEF FormType
<1>7. CASE UNCHANGED <<jar, token, page, answered, out, crossed>> /\ form' \in [Tabs -> FormType]
  BY <1>1, <1>3, <1>7 DEF Rest, Half, TypeOK
<1>8. CASE SignsIn(t, c.gives)
  <2>1. c.gives \in 0 .. MaxSessions
    BY <1>0 DEF TypeOK, CallType
  <2> DEFINE s == c.gives
  <2> HIDE DEF s
  <2>2. /\ [session |-> s, current |-> TRUE] \in CookieType
        /\ [session |-> s, age |-> "fresh"] \in TokenType
    BY <2>1 DEF CookieType, TokenType, s
  <2>3. SignsIn(t, s)
    BY <1>8 DEF s
  <2>4. /\ jar' \in CookieType /\ token' \in [Tabs -> TokenType] /\ crossed' \in BOOLEAN
        /\ page' \in [Tabs -> {"login", "dashboard"}] /\ answered' \in [Tabs -> BOOLEAN]
        /\ out' \subseteq Tabs
    BY <1>1, <2>2, <2>3 DEF SignsIn, Crosses, TypeOK
  <2>5. form' \in [Tabs -> FormType]
    BY <1>2, <2>3, FormTyped DEF SignsIn
  <2> QED BY <1>1, <1>3, <2>4, <2>5 DEF Rest, Half, TypeOK
<1>9. CASE form' = [form EXCEPT ![t].asks = "none"] /\ UNCHANGED <<jar, token, page, answered, out, crossed>>
  BY <1>4, <1>7, <1>9, FormTyped
<1>10. ASSUME NEW ph \in {"choose", "totp", "otp"},
              form' = [form EXCEPT ![t] = [phase |-> ph, temp |-> TRUE,
                                            choice |-> ph = "choose", asks |-> "none"]],
              UNCHANGED <<jar, token, page, answered, out, crossed>>
       PROVE  Rest' /\ Half'
  BY <1>6, <1>7, <1>10, FormTyped
<1>11. CASE /\ form' = [form EXCEPT ![t].phase = "otp", ![t].asks = "none"]
            /\ UNCHANGED <<jar, token, page, answered, out, crossed>>
  <2>1. form' = [form EXCEPT ![t] = [form[t] EXCEPT !.phase = "otp", !.asks = "none"]]
    BY <1>1, <1>11 DEF FormType, TypeOK
  <2> QED BY <1>5, <1>7, <1>11, <2>1, FormTyped
<1> QED BY <1>8, <1>9, <1>10, <1>11 DEF ReceiveSign
\* The refresh of a tab.
LEMMA RefreshGood ==
  ASSUME TypeOK, GoodCalls, NEW t \in Tabs,
         DoRefresh(t) \/ ServeRefresh(t) \/ RefreshFails(t) \/ RefreshEnds(t)
  PROVE  Rest' /\ Half'
<1>1. /\ refresh \in [Tabs -> RefreshType] /\ refresh[t] \in RefreshType /\ jar \in CookieType
      /\ Rest /\ Half
  BY Halves DEF TypeOK
<1>2. ASSUME NEW st \in {"granted", "refused", "failed"}
      PROVE  [refresh[t] EXCEPT !.stage = st] \in RefreshType
  BY <1>1 DEF RefreshType
<1>3. ASSUME UNCHANGED <<world, made, token, rejected, call, me, page, form, answered, out, crossed>>,
             refresh' \in [Tabs -> RefreshType], jar' \in CookieType, alive' \subseteq alive,
             replayed' \in BOOLEAN
      PROVE  Rest' /\ Half'
  BY <1>1, <1>3 DEF Rest, Half, GoodCalls
<1>4. CASE DoRefresh(t)
  <2>1. [stage |-> "asked", session |-> jar.session, current |-> jar.current] \in RefreshType
    BY <1>1 DEF CookieType, RefreshType
  <2>2. refresh' \in [Tabs -> RefreshType]
    BY <1>1, <1>4, <2>1 DEF DoRefresh
  <2> QED BY <1>1, <1>3, <1>4, <2>2 DEF DoRefresh, Rest
<1>5. CASE RefreshFails(t)
  <2>1. refresh' \in [Tabs -> RefreshType]
    BY <1>1, <1>2, <1>5 DEF RefreshFails
  <2> QED BY <1>1, <1>3, <1>5, <2>1 DEF RefreshFails, Rest
<1>6. CASE ServeRefresh(t)
  <2>1. \A u \in Tabs : [refresh[u] EXCEPT !.current = FALSE] \in RefreshType
    BY <1>1 DEF RefreshType
  <2>2. [refresh[t] EXCEPT !.stage = "granted", !.current = TRUE] \in RefreshType
    BY <1>1 DEF RefreshType
  <2>3. [jar EXCEPT !.current = FALSE] \in CookieType
    BY <1>1 DEF CookieType
  <2>4. \/ refresh' = [u \in Tabs |->
              IF u = t THEN [refresh[t] EXCEPT !.stage = "granted"]
              ELSE IF refresh[u].stage = "asked" /\ refresh[u].session = refresh[t].session
              THEN [refresh[u] EXCEPT !.current = FALSE] ELSE refresh[u]]
        \/ refresh' = [refresh EXCEPT ![t].stage = "granted", ![t].current = TRUE]
        \/ refresh' = [refresh EXCEPT ![t].stage = "refused"]
    BY <1>6 DEF ServeRefresh
  <2>5. [refresh EXCEPT ![t].stage = "granted", ![t].current = TRUE]
          = [refresh EXCEPT ![t] = [refresh[t] EXCEPT !.stage = "granted", !.current = TRUE]]
    BY <1>1 DEF RefreshType
  <2>6. refresh' \in [Tabs -> RefreshType]
    BY <1>1, <1>2, <2>1, <2>2, <2>4, <2>5
  <2>7. jar' \in CookieType /\ alive' \subseteq alive /\ replayed' \in BOOLEAN
    BY <1>1, <1>6, <2>3 DEF ServeRefresh, Rest
  <2> QED BY <1>3, <1>6, <2>6, <2>7 DEF ServeRefresh
<1>7. CASE RefreshEnds(t)
  <2>1. Half' /\ jar' \in CookieType
    BY <1>7, RefreshEndsGood
  <2>2. rejected' \in [Tabs -> BOOLEAN]
    BY <1>1, <1>7 DEF RefreshEnds, Rest
  <2>3. me' \in [Tabs -> 0 .. Unknown] /\ answered' \in [Tabs -> BOOLEAN]
    BY <1>1, <1>7, SessionsAssumption DEF RefreshEnds, Rest, Nobody, Unknown
  <2> QED BY <1>1, <1>7, <2>1, <2>2, <2>3 DEF RefreshEnds, Rest
<1> QED BY <1>4, <1>5, <1>6, <1>7

\* A request that is not the form's.
LEMMA RequestGood ==
  ASSUME TypeOK, GoodCalls, NEW t \in Tabs, NEW k \in Kinds,
         Issue(t, k) \/ Serve(t, k) \/ Unauthorized(t, k) \/ Receive(t, k) \/ RequestFails(t, k)
  PROVE  Rest' /\ Half'
<1>1. Rest /\ Half
  BY Halves
<1>2. ASSUME NEW who \in 0 .. Unknown, Learns(t, who)
      PROVE  me' \in [Tabs -> 0 .. Unknown] /\ answered' \in [Tabs -> BOOLEAN]
  BY <1>1, <1>2 DEF Learns, Rest
<1>3. CASE Issue(t, k)
  <2>1. Half'
    BY <1>3, BeforeRequestGood DEF Issue
  <2> QED BY <1>1, <1>3, <2>1 DEF Issue, Rest
<1>4. CASE Serve(t, k)
  <2>1. call' \in [Tabs -> [Kinds -> CallType]] /\ GoodCalls'
    BY <1>4, ServeGood
  <2>2. alive' \subseteq alive
    BY <1>4 DEF Serve
  <2> QED BY <1>1, <1>4, <2>1, <2>2 DEF Serve, Rest, Half
<1>5. CASE Unauthorized(t, k)
  <2>1. Half'
    BY <1>5, UnauthorizedGood
  <2>2. Nobody \in 0 .. Unknown
    BY SessionsAssumption DEF Nobody, Unknown
  <2>3. me' \in [Tabs -> 0 .. Unknown] /\ answered' \in [Tabs -> BOOLEAN]
    BY <1>1, <1>2, <1>5, <2>2 DEF Unauthorized, Rest
  <2> QED BY <1>1, <1>5, <2>1, <2>3 DEF Unauthorized, Rest
<1>6. CASE Receive(t, k)
  <2>1. Half' /\ UNCHANGED <<world, made, alive, refresh, rejected, replayed>>
    BY <1>6, ReceiveGood DEF Receive
  <2>2. CASE k = "me"
    <3>1. call[t][k].bearer.session \in 0 .. MaxSessions
      BY DEF TypeOK, CallType, TokenType
    <3>2. call[t][k].bearer.session \in 0 .. Unknown
      BY <3>1, SessionsAssumption DEF Unknown
    <3>3. Learns(t, call[t][k].bearer.session) /\ UNCHANGED <<jar, token, page, form, out, crossed>>
      BY <1>6, <2>2 DEF Receive
    <3> QED BY <1>1, <1>2, <2>1, <3>2, <3>3 DEF Rest
  <2>3. CASE k = "logout"
    <3>1. LoggedOut(t)
      BY <1>6, <2>3 DEF Receive
    <3>2. /\ jar' \in CookieType /\ page' \in [Tabs -> {"login", "dashboard"}]
          /\ form' \in [Tabs -> FormType] /\ out' \subseteq Tabs /\ crossed' \in BOOLEAN
      BY <1>1, <3>1, Blanks DEF LoggedOut, Crosses, Rest
    <3> QED BY <1>1, <2>1, <3>1, <3>2 DEF LoggedOut, Rest
  <2>4. CASE k # "me" /\ k # "logout"
    BY <1>1, <1>6, <2>1, <2>4 DEF Receive, Rest
  <2> QED BY <2>2, <2>3, <2>4
<1>7. CASE RequestFails(t, k)
  <2>1. Half'
    BY <1>7, RequestFailsGood
  <2>2. form' = form \/ form' = [form EXCEPT ![t] = [form[t] EXCEPT !.asks = "none"]]
    BY <1>7 DEF RequestFails
  <2>3. [form[t] EXCEPT !.asks = "none"] \in FormType
    <3>1. form[t] \in FormType
      BY DEF TypeOK
    <3> QED BY ONLY <3>1 DEF FormType
  <2>4. form' \in [Tabs -> FormType]
    BY <1>1, <2>2, <2>3, FormTyped DEF Rest
  <2> QED BY <1>1, <1>7, <2>1, <2>4 DEF RequestFails, Rest
<1> QED BY <1>3, <1>4, <1>5, <1>6, <1>7

\* A page that is loaded, and the passing of time.
LEMMA PageGood ==
  ASSUME TypeOK, GoodCalls, NEW t \in Tabs,
         TokenAges(t) \/ Redirect(t) \/ Reload(t) \/ OidcComplete(t)
  PROVE  Rest' /\ Half'
<1>1. Rest /\ Half /\ token[t] \in TokenType /\ made \in Nat
  BY Halves, SessionsAssumption DEF TypeOK
<1>2. ASSUME NEW tok \in TokenType, Loaded(t, tok)
      PROVE  /\ rejected' \in [Tabs -> BOOLEAN] /\ me' \in [Tabs -> 0 .. Unknown]
             /\ answered' \in [Tabs -> BOOLEAN] /\ form' \in [Tabs -> FormType]
  <2>1. Unknown \in 0 .. Unknown
    BY SessionsAssumption DEF Unknown
  <2> QED BY <1>1, <1>2, <2>1, Blanks DEF Loaded, Rest
<1>3. CASE TokenAges(t)
  <2>1. PICK a \in {"soon", "expired"} : token' = [token EXCEPT ![t] = [token[t] EXCEPT !.age = a]]
    <3>1. PICK ages \in {<<"fresh", "soon">>, <<"soon", "expired">>} :
            token' = [token EXCEPT ![t] = [token[t] EXCEPT !.age = ages[2]]]
      BY <1>3 DEF TokenAges
    <3>2. ages[2] \in {"soon", "expired"}
      OBVIOUS
    <3> QED BY <3>1, <3>2
  <2>2. [token[t] EXCEPT !.age = a] \in TokenType
    BY <1>1 DEF TokenType
  <2>3. token' \in [Tabs -> TokenType]
    BY <1>1, <2>1, <2>2 DEF Half
  <2> QED BY <1>1, <1>3, <2>3 DEF TokenAges, Rest, Half, GoodCalls
<1>4. CASE Redirect(t)
  BY <1>1, <1>4 DEF Redirect, Rest, Half, GoodCalls
<1>5. CASE Reload(t)
  <2>1. Loaded(t, token[t]) /\ made' = made
    BY <1>5 DEF Reload
  <2>2. made' \in Nat /\ made' >= made
    BY <1>1, <2>1
  <2>3. Half'
    BY <1>1, <2>1, <2>2, LoadedGood
  <2> QED BY <1>1, <1>2, <1>5, <2>1, <2>3 DEF Reload, Rest
<1>6. CASE OidcComplete(t)
  <2> DEFINE s == made + 1
  <2>1. s \in 0 .. MaxSessions /\ s \in Sessions /\ s \in Nat /\ s >= made
    <3>1. world.most \in 1 .. MaxSessions /\ made < world.most
      BY <1>1, <1>6 DEF OidcComplete, Rest, WorldType
    <3> QED BY <1>1, <3>1, SessionsAssumption DEF Sessions
  <2>2. made' = s /\ alive' = alive \union {s} /\ Loaded(t, [session |-> s, age |-> "fresh"])
        /\ jar' = [session |-> s, current |-> TRUE]
    BY <1>6 DEF OidcComplete
  <2> HIDE DEF s
  <2>3. /\ [session |-> s, age |-> "fresh"] \in TokenType
        /\ [session |-> s, current |-> TRUE] \in CookieType
    BY <2>1 DEF TokenType, CookieType
  <2>4. Half'
    BY <2>1, <2>2, <2>3, LoadedGood
  <2>5. made' \in 0 .. MaxSessions /\ alive' \subseteq Sessions /\ jar' \in CookieType
    BY <1>1, <2>1, <2>2, <2>3 DEF Rest
  <2>6. page' \in [Tabs -> {"login", "dashboard"}] /\ out' \subseteq Tabs /\ crossed' \in BOOLEAN
    BY <1>1, <1>6 DEF OidcComplete, Crosses, Rest
  <2> QED BY <1>1, <1>2, <1>6, <2>2, <2>3, <2>4, <2>5, <2>6 DEF OidcComplete, Rest
<1> QED BY <1>3, <1>4, <1>5, <1>6

LEMMA TypeStep == TypeOK /\ GoodCalls /\ [Next]_allVars => TypeOK' /\ GoodCalls'
<1> SUFFICES ASSUME TypeOK, GoodCalls, [Next]_allVars PROVE (TypeOK /\ GoodCalls)'
  OBVIOUS
<1> SUFFICES Rest' /\ Half'
  BY Halves, PTL
<1>0. Rest /\ Half
  BY Halves
<1>1. CASE SessionEnds \/ UNCHANGED allVars
  BY <1>0, <1>1 DEF SessionEnds, allVars, vars, Rest, Half, GoodCalls
<1>2. ASSUME NEW t \in Tabs, ServeSign(t) PROVE Rest' /\ Half'
  BY <1>0, <1>2, ServeSignGood DEF ServeSign, Rest, Half
<1> QED BY <1>1, <1>2, RefreshGood, RequestGood, PageGood, FormStepGood, ReceiveSignGood DEF Next

LEMMA TypeInit == Init => TypeOK /\ GoodCalls
<1> SUFFICES ASSUME Init PROVE TypeOK /\ GoodCalls
  OBVIOUS
<1>1. 1 \in 0 .. MaxSessions /\ 1 \in Sessions /\ Unknown \in 0 .. Unknown
  BY SessionsAssumption DEF Sessions, Unknown
<1>2. [session |-> 1, current |-> TRUE] \in CookieType
  BY <1>1 DEF CookieType
<1>3. \A age \in {"fresh", "soon", "expired"} : [session |-> 1, age |-> age] \in TokenType
  BY <1>1 DEF TokenType
<1>4. token \in [Tabs -> TokenType]
  BY <1>3, Blanks DEF Init
<1>5. call \in [Tabs -> [Kinds -> CallType]] /\ \A t \in Tabs, k \in Kinds : call[t][k] = NewCall
  BY Blanks DEF Init
<1>6. GoodCalls
  BY <1>5, Blanks DEF GoodCalls, Init
<1>7. TypeOK
  BY <1>1, <1>2, <1>4, <1>5, Blanks, WorldsAssumption DEF Init, TypeOK
<1> QED BY <1>6, <1>7

\* Every variable keeps its type.
THEOREM SessionTyped == Spec => []TypeOK
BY TypeInit, TypeStep, PTL DEF Spec

\* However often a request is sent again after a 401 or a lost answer, a POST takes
\* effect once: only what ky takes for repeatable is sent again after it may have taken
\* effect (afterResponse of api).
THEOREM PostsOnce == Spec => []EffectOnce
<1>1. GoodCalls => EffectOnce
  BY DEF GoodCalls, GoodCall, EffectOnce, Repeatable, Kinds
<1> QED BY <1>1, TypeInit, TypeStep, PTL DEF Spec
-----------------------------------------------------------------------------
(* The cookie and the lock *)

\* At most one more session, which is alive.
Grows == /\ made' \in {made, made + 1} /\ alive' \subseteq alive \union {made'}
         /\ made' = made => alive' \subseteq alive

\* A tab whose refresh goes on, or is asked for.
GoesOn(u) ==
    /\ refresh'[u].session = refresh[u].session /\ refresh'[u].current = refresh[u].current
    /\ \/ refresh'[u].stage = refresh[u].stage
       \/ refresh[u].stage = "none" /\ refresh'[u].stage = "queued"

\* What has nothing to do with the cookie.
Apart ==
    /\ Grows /\ UNCHANGED <<jar, crossed, replayed, out>>
    /\ \A u \in Tabs : GoesOn(u) \/ ("reload" \in env /\ refresh'[u] = NoRefresh)

\* A sign-in or a logout.
Switches ==
    /\ Grows /\ Crosses /\ UNCHANGED replayed
    /\ jar'.session \in 0 .. made' /\ jar'.current
    /\ \A u \in Tabs : refresh'[u] = refresh[u] \/ refresh'[u] = NoRefresh
    /\ \/ out' = {}
       \/ \E t \in Tabs : LoggedOut(t)

LEMMA RefreshGoesOn ==
  ASSUME TypeOK, NEW t \in Tabs, TryRefresh(t) \/ UNCHANGED refresh
  PROVE  \A u \in Tabs : GoesOn(u)
<1>1. refresh \in [Tabs -> RefreshType]
  BY DEF TypeOK
<1>2. CASE UNCHANGED refresh
  BY <1>2 DEF GoesOn
<1>3. CASE TryRefresh(t)
  <2> DEFINE st == IF refresh[t].stage = "none" THEN "queued" ELSE refresh[t].stage
             rec == [refresh[t] EXCEPT !.stage = st]
  <2>1. refresh' = [refresh EXCEPT ![t] = rec]
    BY <1>3 DEF TryRefresh
  <2>2. rec.stage = st /\ rec.session = refresh[t].session /\ rec.current = refresh[t].current
    <3> HIDE DEF st
    <3> QED BY <1>1 DEF RefreshType
  <2> HIDE DEF rec
  <2>3. \A u \in Tabs : u # t => refresh'[u] = refresh[u]
    BY <1>1, <2>1
  <2>4. refresh'[t] = rec
    BY <1>1, <2>1
  <2> QED BY <2>2, <2>3, <2>4 DEF GoesOn
<1> QED BY <1>2, <1>3

LEMMA CookieMoves ==
  ASSUME TypeOK, GoodCalls, [Next]_allVars
  PROVE  /\ world' = world
         /\ \/ Apart
            \/ Switches
            \/ \E t \in Tabs : DoRefresh(t) \/ ServeRefresh(t) \/ RefreshFails(t) \/ RefreshEnds(t)
<1>0. /\ made \in Nat /\ refresh \in [Tabs -> RefreshType]
  BY SessionsAssumption DEF TypeOK
<1>1. ASSUME NEW t \in Tabs, TryRefresh(t) \/ UNCHANGED refresh,
             UNCHANGED <<made, jar, crossed, replayed, out>>, alive' \subseteq alive
      PROVE  Apart
  BY <1>0, <1>1, RefreshGoesOn DEF Apart, Grows
<1>2. CASE UNCHANGED allVars
  BY <1>0, <1>2 DEF Apart, Grows, GoesOn, allVars, vars
<1>3. CASE SessionEnds
  BY <1>0, <1>3 DEF SessionEnds, Apart, Grows, GoesOn
<1>4. ASSUME NEW t \in Tabs, TokenAges(t) \/ Redirect(t) PROVE world' = world /\ Apart
  BY <1>1, <1>4 DEF TokenAges, Redirect
<1>5. ASSUME NEW t \in Tabs, NEW k \in Kinds, NEW p, BeforeRequest(t, k, p),
             UNCHANGED <<made, jar, crossed, replayed, out, alive>>
      PROVE  Apart
  BY <1>1, <1>5 DEF BeforeRequest
<1>6. ASSUME NEW t \in Tabs, NEW k \in Kinds,
             Issue(t, k) \/ Serve(t, k) \/ Unauthorized(t, k) \/ RequestFails(t, k)
      PROVE  world' = world /\ Apart
  <2>1. CASE Issue(t, k)
    BY <1>5, <2>1 DEF Issue
  <2>2. CASE Serve(t, k)
    <3>1. alive' \subseteq alive
      BY <2>2 DEF Serve
    <3> QED BY <1>1, <2>2, <3>1 DEF Serve
  <2>3. CASE Unauthorized(t, k)
    BY <1>1, <2>3 DEF Unauthorized
  <2>4. CASE RequestFails(t, k)
    BY <1>1, <2>4 DEF RequestFails
  <2> QED BY <1>6, <2>1, <2>2, <2>3, <2>4
<1>7. ASSUME NEW t \in Tabs, NEW k \in Kinds, Receive(t, k)
      PROVE  world' = world /\ (Apart \/ Switches)
  <2>1. UNCHANGED <<world, made, alive, refresh, replayed>>
    BY <1>7 DEF Receive
  <2>2. CASE LoggedOut(t)
    <3>1. jar'.session = 0 /\ jar'.current = TRUE
      BY <2>2 DEF LoggedOut, NoCookie
    <3>2. jar'.session \in 0 .. made'
      BY <1>0, <2>1, <3>1
    <3> QED BY <1>0, <2>1, <2>2, <3>1, <3>2 DEF Switches, Grows, LoggedOut
  <2>3. CASE UNCHANGED <<jar, crossed, out>>
    BY <1>1, <2>1, <2>3
  <2> QED BY <1>7, <2>1, <2>2, <2>3 DEF Receive
<1>8. ASSUME NEW t \in Tabs, NEW what, Asks(t, what) PROVE world' = world /\ Apart
  BY <1>5, <1>8 DEF Asks, Kinds
<1>9. ASSUME NEW t \in Tabs,
             \/ OnSubmitPassword(t) \/ PickMethod(t) \/ OnSubmitCode(t)
             \/ ResetToPassword(t) \/ OtherFactor(t)
      PROVE  world' = world /\ Apart
  BY <1>1, <1>8, <1>9 DEF OnSubmitPassword, PickMethod, OnSubmitCode, ResetToPassword, OtherFactor,
                          OnlyForm
<1>10. ASSUME NEW t \in Tabs, ServeSign(t) PROVE world' = world /\ Apart
  <2>1. UNCHANGED <<world, jar, refresh, crossed, replayed, out>>
    BY <1>10 DEF ServeSign
  <2>2. Grows
    BY <1>0, <1>10 DEF ServeSign, Grows
  <2> QED BY <2>1, <2>2 DEF Apart, GoesOn
<1>11. ASSUME NEW t \in Tabs, ReceiveSign(t) PROVE world' = world /\ (Apart \/ Switches)
  <2>1. UNCHANGED <<world, made, alive, refresh, replayed>>
    BY <1>11 DEF ReceiveSign
  <2>2. CASE SignsIn(t, call[t]["sign"].gives)
    <3> DEFINE s == call[t]["sign"].gives
    <3>1. s \in 0 .. made'
      BY <1>0, <2>1, SessionsAssumption DEF GoodCalls, GoodCall, CallType, Kinds
    <3> HIDE DEF s
    <3>2. jar'.session = s /\ jar'.current = TRUE
      BY <2>2 DEF SignsIn, s
    <3> QED BY <1>0, <2>1, <2>2, <3>1, <3>2 DEF Switches, Grows, SignsIn
  <2>3. CASE UNCHANGED <<jar, crossed, out>>
    BY <1>1, <2>1, <2>3
  <2> QED BY <1>11, <2>1, <2>2, <2>3 DEF ReceiveSign
<1>12. ASSUME NEW t \in Tabs, NEW tok, Loaded(t, tok)
       PROVE  \A u \in Tabs : refresh'[u] = refresh[u] \/ refresh'[u] = NoRefresh
  BY <1>0, <1>12 DEF Loaded
<1>13. ASSUME NEW t \in Tabs, Reload(t) PROVE world' = world /\ Apart
  BY <1>0, <1>12, <1>13 DEF Reload, Apart, Grows, GoesOn
<1>14. ASSUME NEW t \in Tabs, OidcComplete(t) PROVE world' = world /\ Switches
  <2>1. jar'.session = made + 1 /\ jar'.current = TRUE /\ made' = made + 1
    BY <1>14 DEF OidcComplete
  <2>2. Grows
    BY <1>0, <1>14 DEF OidcComplete, Grows
  <2>3. jar'.session \in 0 .. made'
    BY <1>0, <2>1
  <2> QED BY <1>12, <1>14, <2>1, <2>2, <2>3 DEF OidcComplete, Switches
<1>15. ASSUME NEW t \in Tabs, DoRefresh(t) \/ ServeRefresh(t) \/ RefreshFails(t) \/ RefreshEnds(t)
       PROVE  world' = world
  BY <1>15 DEF DoRefresh, ServeRefresh, RefreshFails, RefreshEnds
<1>16. CASE SessionEnds \/ UNCHANGED allVars
  BY <1>2, <1>3, <1>16 DEF SessionEnds, allVars, vars
<1> QED BY <1>4, <1>6, <1>7, <1>9, <1>10, <1>11, <1>13, <1>14, <1>15, <1>16 DEF Next
\* What the steps of a refresh do.
LEMMA DoRefreshDoes ==
  ASSUME TypeOK, NEW t \in Tabs, DoRefresh(t)
  PROVE  /\ \A u \in Tabs : ~Busy(u)
         /\ refresh'[t].stage = "asked" /\ refresh'[t].session = jar.session
         /\ refresh'[t].current = jar.current
         /\ \A u \in Tabs : u # t => refresh'[u] = refresh[u]
         /\ UNCHANGED <<made, alive, jar, out, crossed, replayed, token>>
<1>1. /\ refresh \in [Tabs -> RefreshType] /\ refresh[t] \in RefreshType /\ jar \in CookieType
  BY DEF TypeOK
<1> QED BY <1>1 DEF DoRefresh, Busy, Locked

LEMMA RefreshFailsDoes ==
  ASSUME TypeOK, NEW t \in Tabs, RefreshFails(t)
  PROVE  /\ "network" \in env /\ Busy(t) /\ refresh'[t].stage = "failed"
         /\ refresh'[t].session = refresh[t].session
         /\ \A u \in Tabs : u # t => refresh'[u] = refresh[u]
         /\ UNCHANGED <<made, alive, jar, out, crossed, replayed, token>>
<1>1. /\ refresh \in [Tabs -> RefreshType] /\ refresh[t] \in RefreshType /\ jar \in CookieType
  BY DEF TypeOK
<1> QED BY <1>1 DEF RefreshFails, Busy, RefreshType

LEMMA ServeRefreshDoes ==
  ASSUME TypeOK, NEW t \in Tabs, ServeRefresh(t)
  PROVE  /\ refresh[t].stage = "asked" /\ refresh'[t].stage \in {"granted", "refused"}
         /\ refresh'[t].session = refresh[t].session /\ jar'.session = jar.session
         /\ refresh'[t].stage = "granted" => refresh[t].session \in alive /\ refresh'[t].current
         /\ refresh'[t].stage = "refused" => refresh[t].session \notin alive'
         /\ refresh[t].current => replayed' = replayed
         /\ \A u \in Tabs : u # t /\ refresh[u].stage # "asked" => refresh'[u] = refresh[u]
         /\ jar'.current = jar.current \/ refresh'[t].stage = "granted"
         /\ alive' \subseteq alive
         /\ UNCHANGED <<made, out, crossed, token>>
<1>1. /\ refresh \in [Tabs -> RefreshType] /\ refresh[t] \in RefreshType /\ jar \in CookieType
  BY DEF TypeOK
<1>2. refresh[t].stage = "asked" /\ UNCHANGED <<made, out, crossed, token>>
  BY DEF ServeRefresh
<1>3. CASE /\ refresh[t].session \in alive /\ refresh[t].current
           /\ refresh' = [u \in Tabs |->
                 IF u = t THEN [refresh[t] EXCEPT !.stage = "granted"]
                 ELSE IF refresh[u].stage = "asked" /\ refresh[u].session = refresh[t].session
                 THEN [refresh[u] EXCEPT !.current = FALSE] ELSE refresh[u]]
           /\ jar' = IF jar.session = refresh[t].session THEN [jar EXCEPT !.current = FALSE] ELSE jar
           /\ UNCHANGED <<alive, replayed>>
  <2>1. refresh'[t] = [refresh[t] EXCEPT !.stage = "granted"]
    BY <1>3
  <2>2. /\ refresh'[t].stage = "granted" /\ refresh'[t].session = refresh[t].session
        /\ refresh'[t].current = refresh[t].current
    BY <1>1, <2>1 DEF RefreshType
  <2>3. jar'.session = jar.session
    BY <1>1, <1>3 DEF CookieType
  <2> QED BY <1>2, <1>3, <2>2, <2>3
<1>4. CASE /\ refresh[t].session \in alive /\ ~refresh[t].current
           /\ refresh' = [refresh EXCEPT ![t].stage = "granted", ![t].current = TRUE]
           /\ UNCHANGED <<alive, jar>>
  <2>1. /\ refresh'[t].stage = "granted" /\ refresh'[t].session = refresh[t].session
        /\ refresh'[t].current = TRUE
    BY <1>1, <1>4 DEF RefreshType
  <2> QED BY <1>1, <1>2, <1>4, <2>1
<1>5. ASSUME refresh' = [refresh EXCEPT ![t].stage = "refused"]
      PROVE  /\ refresh'[t].stage = "refused" /\ refresh'[t].session = refresh[t].session
             /\ \A u \in Tabs : u # t => refresh'[u] = refresh[u]
  BY <1>1, <1>5 DEF RefreshType
<1>6. CASE /\ refresh[t].session \in alive /\ ~refresh[t].current
           /\ refresh' = [refresh EXCEPT ![t].stage = "refused"]
           /\ alive' = alive \ {refresh[t].session} /\ UNCHANGED jar
  BY <1>2, <1>5, <1>6
<1>7. CASE /\ refresh[t].session \notin alive
           /\ refresh' = [refresh EXCEPT ![t].stage = "refused"]
           /\ UNCHANGED <<alive, jar, replayed>>
  BY <1>2, <1>5, <1>7
<1> QED BY <1>3, <1>4, <1>6, <1>7 DEF ServeRefresh

LEMMA RefreshEndsDoes ==
  ASSUME TypeOK, NEW t \in Tabs, RefreshEnds(t)
  PROVE  /\ Busy(t) /\ refresh'[t] = NoRefresh
         /\ \A u \in Tabs : u # t => refresh'[u] = refresh[u]
         /\ refresh[t].stage = "granted" => /\ jar'.session = refresh[t].session
                                            /\ jar'.current = refresh[t].current
         /\ refresh[t].stage # "granted" => jar' = jar
         /\ UNCHANGED <<made, alive, out, crossed, replayed>>
<1>1. /\ refresh \in [Tabs -> RefreshType] /\ refresh[t] \in RefreshType /\ jar \in CookieType
  BY DEF TypeOK
<1> QED BY <1>1 DEF RefreshEnds, Busy\* While a sign-in or a logout meets no refresh, no tab holds the lock.
LEMMA SwitchIsAlone ==
  ASSUME TypeOK, Switches, ~crossed'
  PROVE  ~crossed /\ \A u \in Tabs : ~Busy(u) /\ refresh'[u].stage = "none"
<1>1. ~crossed /\ \A u \in Tabs : refresh[u].stage = "none"
  BY DEF Switches, Crosses, InFlight
<1> QED BY <1>1 DEF Switches, Busy, NoRefresh

\* The lock is held by one tab, and what it is refused has ended.
LEMMA LockStep == TypeOK /\ GoodCalls /\ LockInv /\ [Next]_allVars => LockInv'
<1> SUFFICES ASSUME TypeOK, GoodCalls, LockInv, [Next]_allVars PROVE LockInv'
  OBVIOUS
<1>0. /\ made \in Nat /\ jar.session \in Nat /\ \A u \in Tabs : refresh[u].session \in Nat
      /\ NoRefresh.stage = "none" /\ NoRefresh.session = 0
  BY SessionsAssumption DEF TypeOK, CookieType, RefreshType, NoRefresh
<1>1. /\ alive \subseteq 1 .. made /\ jar.session <= made
      /\ \A u \in Tabs : refresh[u].session <= made
  BY DEF LockInv, Numbered
<1>2. \A u, v \in Tabs : Busy(u) /\ Busy(v) => u = v
  BY DEF LockInv, OneHolds
<1>3. ~crossed => \A u \in Tabs : Busy(u) => refresh[u].session = jar.session
  BY DEF LockInv, Presented
<1>4. \A u \in Tabs : refresh[u].stage = "refused" => refresh[u].session \notin alive
  BY DEF LockInv, RefusedHasEnded
<1>5. ASSUME Grows PROVE /\ made' \in Nat /\ made' >= made /\ alive' \subseteq 1 .. made'
                         /\ \A s \in 0 .. made : s \notin alive => s \notin alive'
  BY <1>0, <1>1, <1>5 DEF Grows
<1>6. ASSUME Apart PROVE LockInv'
  <2>1. Grows /\ UNCHANGED <<jar, crossed>>
    BY <1>6 DEF Apart
  <2>2. ASSUME NEW u \in Tabs
        PROVE  \/ refresh'[u].stage = "none" /\ refresh'[u].session = 0
               \/ /\ refresh'[u].session = refresh[u].session
                  /\ refresh'[u].stage = refresh[u].stage \/ refresh'[u].stage = "queued"
    BY <1>0, <1>6 DEF Apart, GoesOn
  <2>3. \A u \in Tabs : refresh'[u].session <= made'
    BY <1>0, <1>1, <1>5, <2>1, <2>2
  <2>4. Numbered'
    BY <1>0, <1>1, <1>5, <2>1, <2>3 DEF Numbered
  <2>5. OneHolds'
    BY <1>2, <2>2 DEF OneHolds, Busy
  <2>6. Presented'
    BY <1>3, <2>1, <2>2 DEF Presented, Busy
  <2>7. RefusedHasEnded'
    BY <1>0, <1>1, <1>4, <1>5, <2>1, <2>2 DEF RefusedHasEnded
  <2> QED BY <2>4, <2>5, <2>6, <2>7 DEF LockInv
<1>7. ASSUME Switches PROVE LockInv'
  <2>1. Grows /\ jar'.session \in 0 .. made'
    BY <1>7 DEF Switches
  <2>2. ASSUME NEW u \in Tabs
        PROVE  \/ refresh'[u].stage = "none" /\ refresh'[u].session = 0
               \/ refresh'[u] = refresh[u]
    BY <1>0, <1>7 DEF Switches
  <2>3. \A u \in Tabs : refresh'[u].session <= made'
    BY <1>0, <1>1, <1>5, <2>1, <2>2
  <2>4. Numbered'
    BY <1>5, <2>1, <2>3 DEF Numbered
  <2>5. OneHolds'
    BY <1>2, <2>2 DEF OneHolds, Busy
  <2>6. Presented'
    BY <1>7, SwitchIsAlone DEF Presented, Busy
  <2>7. RefusedHasEnded'
    BY <1>0, <1>1, <1>4, <1>5, <2>1, <2>2 DEF RefusedHasEnded
  <2> QED BY <2>4, <2>5, <2>6, <2>7 DEF LockInv
<1>8. ASSUME NEW t \in Tabs, DoRefresh(t) PROVE LockInv'
  <2>1. /\ \A u \in Tabs : ~Busy(u)
        /\ refresh'[t].stage = "asked" /\ refresh'[t].session = jar.session
        /\ \A u \in Tabs : u # t => refresh'[u] = refresh[u]
        /\ UNCHANGED <<made, alive, jar, crossed>>
    BY <1>8, DoRefreshDoes
  <2> QED BY <1>1, <1>4, <2>1 DEF LockInv, Numbered, OneHolds, Presented, RefusedHasEnded, Busy
<1>9. ASSUME NEW t \in Tabs, RefreshFails(t) PROVE LockInv'
  <2>1. /\ Busy(t) /\ refresh'[t].stage = "failed"
        /\ refresh'[t].session = refresh[t].session
        /\ \A u \in Tabs : u # t => refresh'[u] = refresh[u]
        /\ UNCHANGED <<made, alive, jar, crossed>>
    BY <1>9, RefreshFailsDoes
  <2> QED BY <1>1, <1>2, <1>3, <1>4, <2>1
          DEF LockInv, Numbered, OneHolds, Presented, RefusedHasEnded, Busy
<1>10. ASSUME NEW t \in Tabs, ServeRefresh(t) PROVE LockInv'
  <2>1. /\ Busy(t) /\ refresh'[t].stage \in {"granted", "refused"}
        /\ refresh'[t].session = refresh[t].session /\ jar'.session = jar.session
        /\ refresh'[t].stage = "refused" => refresh[t].session \notin alive'
        /\ alive' \subseteq alive /\ UNCHANGED <<made, crossed>>
    BY <1>10, ServeRefreshDoes DEF Busy
  <2>2. ASSUME NEW u \in Tabs, u # t PROVE refresh'[u] = refresh[u] /\ ~Busy(u)
    BY <1>2, <1>10, <2>1, <2>2, ServeRefreshDoes DEF Busy
  <2>3. Numbered'
    BY <1>1, <2>1, <2>2 DEF Numbered
  <2>4. OneHolds' /\ Presented'
    BY <1>3, <2>1, <2>2 DEF OneHolds, Presented, Busy
  <2>5. RefusedHasEnded'
    BY <1>4, <2>1, <2>2 DEF RefusedHasEnded
  <2> QED BY <2>3, <2>4, <2>5 DEF LockInv
<1>11. ASSUME NEW t \in Tabs, RefreshEnds(t) PROVE LockInv'
  <2>1. /\ Busy(t) /\ refresh'[t] = NoRefresh
        /\ \A u \in Tabs : u # t => refresh'[u] = refresh[u]
        /\ jar'.session = refresh[t].session \/ jar' = jar
        /\ UNCHANGED <<made, alive, crossed>>
    BY <1>11, RefreshEndsDoes
  <2>2. \A u \in Tabs : ~Busy(u)'
    BY <1>0, <1>2, <2>1 DEF Busy
  <2>3. Numbered'
    BY <1>0, <1>1, <2>1 DEF Numbered
  <2>4. RefusedHasEnded'
    BY <1>0, <1>4, <2>1 DEF RefusedHasEnded
  <2> QED BY <2>2, <2>3, <2>4 DEF LockInv, OneHolds, Presented
<1> QED BY <1>6, <1>7, <1>8, <1>9, <1>10, <1>11, CookieMoves

LEMMA SessionInit == Init => LockInv /\ RotationInv /\ OutInv
<1> SUFFICES ASSUME Init PROVE LockInv /\ RotationInv /\ OutInv
  OBVIOUS
<1>1. \A t \in Tabs : refresh[t].stage = "none" /\ refresh[t].session = 0
  BY DEF Init, NoRefresh
<1>2. jar.session = 1 /\ jar.current = TRUE
  BY DEF Init
<1> QED BY <1>1, <1>2 DEF Init, LockInv, Numbered, OneHolds, Presented, RefusedHasEnded, RotationInv,
                          OutInv, Busy

LEMMA RotationStep ==
  TypeOK /\ GoodCalls /\ LockInv /\ RotationInv /\ [Next]_allVars => RotationInv'
<1> SUFFICES ASSUME TypeOK, GoodCalls, LockInv, RotationInv, [Next]_allVars,
                    env \cap {"network", "reload"} = {}, ~crossed'
             PROVE  /\ ~replayed'
                    /\ \A t \in Tabs : refresh'[t].stage \in {"asked", "granted"} => refresh'[t].current
                    /\ jar'.current \/ \E t \in Tabs : refresh'[t].stage = "granted"
  BY CookieMoves DEF RotationInv, env
<1>0. NoRefresh.stage = "none" /\ "network" \notin env /\ "reload" \notin env
  BY DEF NoRefresh
<1>1. \A u, v \in Tabs : Busy(u) /\ Busy(v) => u = v
  BY DEF LockInv, OneHolds
<1>2. ~crossed => /\ ~replayed
                  /\ \A t \in Tabs : refresh[t].stage \in {"asked", "granted"} => refresh[t].current
                  /\ jar.current \/ \E t \in Tabs : refresh[t].stage = "granted"
  BY DEF RotationInv
<1>3. CASE Apart
  <2>1. UNCHANGED <<jar, crossed, replayed>> /\ \A u \in Tabs : GoesOn(u)
    BY <1>0, <1>3 DEF Apart
  <2> QED BY <1>2, <2>1 DEF GoesOn
<1>4. CASE Switches
  BY <1>2, <1>4, SwitchIsAlone DEF Switches
<1>5. ASSUME NEW t \in Tabs, DoRefresh(t)
      PROVE  /\ ~replayed'
             /\ \A u \in Tabs : refresh'[u].stage \in {"asked", "granted"} => refresh'[u].current
             /\ jar'.current
  <2>1. /\ \A u \in Tabs : ~Busy(u)
        /\ refresh'[t].current = jar.current
        /\ \A u \in Tabs : u # t => refresh'[u] = refresh[u]
        /\ UNCHANGED <<jar, crossed, replayed>>
    BY <1>5, DoRefreshDoes
  <2>2. jar.current
    BY <1>2, <2>1 DEF Busy
  <2> QED BY <1>2, <2>1, <2>2
<1>6. ASSUME NEW t \in Tabs, ServeRefresh(t)
      PROVE  /\ ~replayed'
             /\ \A u \in Tabs : refresh'[u].stage \in {"asked", "granted"} => refresh'[u].current
             /\ jar'.current \/ \E u \in Tabs : refresh'[u].stage = "granted"
  <2>1. /\ refresh[t].stage = "asked" /\ refresh'[t].stage \in {"granted", "refused"}
        /\ refresh'[t].stage = "granted" => refresh'[t].current
        /\ refresh[t].current => replayed' = replayed
        /\ jar'.current = jar.current \/ refresh'[t].stage = "granted"
        /\ UNCHANGED crossed
    BY <1>6, ServeRefreshDoes
  <2>2. ASSUME NEW u \in Tabs, u # t PROVE refresh'[u] = refresh[u] /\ ~Busy(u)
    BY <1>1, <1>6, <2>1, <2>2, ServeRefreshDoes DEF Busy
  <2>3. jar.current
    BY <1>2, <2>1, <2>2 DEF Busy
  <2>4. jar'.current \/ refresh'[t].stage = "granted"
    BY <2>1, <2>3
  <2>5. ~replayed'
    BY <1>2, <2>1
  <2>6. \A u \in Tabs : refresh'[u].stage \in {"asked", "granted"} => refresh'[u].current
    BY <1>2, <2>1, <2>2
  <2> QED BY <2>4, <2>5, <2>6
<1>7. ASSUME NEW t \in Tabs, RefreshEnds(t)
      PROVE  /\ ~replayed'
             /\ \A u \in Tabs : refresh'[u].stage \in {"asked", "granted"} => refresh'[u].current
             /\ jar'.current
  <2>1. /\ Busy(t) /\ refresh'[t] = NoRefresh
        /\ \A u \in Tabs : u # t => refresh'[u] = refresh[u]
        /\ refresh[t].stage = "granted" => jar'.current = refresh[t].current
        /\ refresh[t].stage # "granted" => jar' = jar
        /\ UNCHANGED <<crossed, replayed>>
    BY <1>7, RefreshEndsDoes
  <2>2. \A u \in Tabs : u # t => ~Busy(u)
    BY <1>1, <2>1
  <2> QED BY <1>0, <1>2, <2>1, <2>2 DEF Busy
<1>8. \A t \in Tabs : ~RefreshFails(t)
  BY <1>0 DEF RefreshFails
<1> QED BY <1>3, <1>4, <1>5, <1>6, <1>7, <1>8, CookieMoves

\* As long as no answer is lost, no tab presents a cookie that another tab's refresh has
\* replaced: whoever posts the cookie holds the lock until the new one is in the jar
\* (tryRefresh and doRefresh of api).
THEOREM NoCookieIsReplayed == Spec => []NoReplay
<1>1. RotationInv => NoReplay
  BY DEF RotationInv, NoReplay
<1> QED BY <1>1, TypeInit, TypeStep, SessionInit, LockStep, RotationStep, PTL DEF Spec
-----------------------------------------------------------------------------
(* The token of a tab *)

\* What a refresh that ends does to the token of its tab.
LEMMA RefreshEndsToken ==
  ASSUME TypeOK, NEW t \in Tabs, RefreshEnds(t)
  PROVE  /\ \/ refresh[t].stage = "granted" /\ token'[t].session = refresh[t].session
            \/ refresh[t].stage = "refused" /\ token'[t] = NoToken
            \/ refresh[t].stage # "granted" /\ token'[t] \in {token[t], GetAccessToken(token[t])}
         /\ \A u \in Tabs : u # t => token'[u] = token[u]
<1> DEFINE granted == refresh[t].stage = "granted"
           new == [session |-> refresh[t].session, age |-> "fresh"]
           set == IF granted THEN new ELSE token[t]
           left == IF Forgets(t) THEN NoToken ELSE set
<1>1. token \in [Tabs -> TokenType]
  BY DEF TypeOK
<1>2. token' = [token EXCEPT ![t] = IF Waiting(t, "before") = {} THEN left ELSE GetAccessToken(left)]
  BY DEF RefreshEnds
<1>3. GetAccessToken(new) = new /\ new.session = refresh[t].session /\ GetAccessToken(NoToken) = NoToken
  BY DEF GetAccessToken, NoToken
<1>4. token'[t] = left \/ token'[t] = GetAccessToken(left)
  BY <1>1, <1>2
<1>5. CASE granted
  <2>1. left = new
    BY <1>5 DEF Forgets
  <2> QED BY <1>1, <1>2, <1>3, <1>4, <1>5, <2>1
<1>6. CASE ~granted /\ Forgets(t)
  <2>1. left = NoToken /\ refresh[t].stage = "refused"
    BY <1>6 DEF Forgets
  <2> QED BY <1>1, <1>2, <1>3, <1>4, <2>1
<1>7. CASE ~granted /\ ~Forgets(t)
  <2>1. left = token[t]
    BY <1>7
  <2> QED BY <1>1, <1>2, <1>4, <1>7, <2>1
<1> QED BY <1>5, <1>6, <1>7

\* Every way in which the token of a tab may change.
TokenMove(t) ==
    \/ token'[t] \in {token[t], GetAccessToken(token[t])}
    \/ token[t].age \in {"fresh", "soon"} /\ token'[t].session = token[t].session
    \/ call[t]["logout"].stage # "idle" /\ token'[t] = NoToken
    \/ RefreshEnds(t)
    \/ (ReceiveSign(t) \/ OidcComplete(t)) /\ out' = {}

LEMMA TokenMoves ==
  ASSUME TypeOK, [Next]_allVars, NEW t \in Tabs
  PROVE  TokenMove(t)
<1>0. token \in [Tabs -> TokenType]
  BY DEF TypeOK
<1>1. ASSUME UNCHANGED token PROVE TokenMove(t)
  BY <1>1 DEF TokenMove
<1>2. ASSUME NEW u \in Tabs, NEW tok, token' = [token EXCEPT ![u] = tok], u # t PROVE TokenMove(t)
  BY <1>0, <1>2 DEF TokenMove
<1>3. ASSUME NEW u \in Tabs, token' = [token EXCEPT ![u] = GetAccessToken(token[u])] PROVE TokenMove(t)
  BY <1>0, <1>3 DEF TokenMove
<1>4. ASSUME NEW u \in Tabs, TokenAges(u) PROVE TokenMove(t)
  <2>1. token[u].age \in {"fresh", "soon"}
    BY <1>4 DEF TokenAges
  <2>2. PICK ages \in {<<"fresh", "soon">>, <<"soon", "expired">>} :
          token' = [token EXCEPT ![u].age = ages[2]]
    BY <1>4 DEF TokenAges
  <2>3. token' = [token EXCEPT ![u] = [token[u] EXCEPT !.age = ages[2]]]
    BY <2>2
  <2>4. CASE u = t
    <3>1. token'[t] = [token[t] EXCEPT !.age = ages[2]] /\ token[t] \in TokenType
      BY <1>0, <2>3, <2>4
    <3>2. token'[t].session = token[t].session
      BY <3>1 DEF TokenType
    <3> QED BY <2>1, <2>4, <3>2 DEF TokenMove
  <2>5. CASE u # t
    BY <1>2, <2>3, <2>5
  <2> QED BY <2>4, <2>5
<1>5. ASSUME NEW u \in Tabs, NEW k, NEW p, BeforeRequest(u, k, p) PROVE TokenMove(t)
  BY <1>1, <1>3, <1>5 DEF BeforeRequest
<1>6. ASSUME NEW u \in Tabs, NEW what, Asks(u, what) PROVE TokenMove(t)
  BY <1>5, <1>6 DEF Asks
<1>7. ASSUME NEW u \in Tabs, token' = [token EXCEPT ![u] = NoToken], call[u]["logout"].stage # "idle"
      PROVE  TokenMove(t)
  BY <1>0, <1>7 DEF TokenMove
<1>8. ASSUME NEW u \in Tabs, NEW k \in Kinds,
             Issue(u, k) \/ Serve(u, k) \/ Unauthorized(u, k) \/ Receive(u, k) \/ RequestFails(u, k)
      PROVE  TokenMove(t)
  <2>1. CASE Issue(u, k)
    BY <1>5, <2>1 DEF Issue
  <2>2. CASE Serve(u, k) \/ Unauthorized(u, k)
    BY <1>1, <2>2 DEF Serve, Unauthorized
  <2>3. CASE Receive(u, k)
    BY <1>1, <1>7, <2>3 DEF Receive, LoggedOut
  <2>4. CASE RequestFails(u, k)
    BY <1>1, <1>7, <2>4 DEF RequestFails
  <2> QED BY <1>8, <2>1, <2>2, <2>3, <2>4
<1>9. ASSUME NEW u \in Tabs, ReceiveSign(u) PROVE TokenMove(t)
  <2>1. CASE UNCHANGED token
    BY <1>1, <2>1
  <2>2. CASE SignsIn(u, call[u]["sign"].gives)
    BY <1>2, <1>9, <2>2 DEF SignsIn, TokenMove
  <2> QED BY <1>9, <2>1, <2>2 DEF ReceiveSign
<1>10. ASSUME NEW u \in Tabs, OidcComplete(u) PROVE TokenMove(t)
  BY <1>2, <1>10 DEF OidcComplete, Loaded, TokenMove
<1>11. ASSUME NEW u \in Tabs, Reload(u) PROVE TokenMove(t)
  BY <1>3, <1>11 DEF Reload, Loaded
<1>12. ASSUME NEW u \in Tabs, RefreshEnds(u) PROVE TokenMove(t)
  BY <1>12, RefreshEndsToken DEF TokenMove
<1>13. ASSUME NEW u \in Tabs,
              \/ DoRefresh(u) \/ ServeRefresh(u) \/ RefreshFails(u)
              \/ OnSubmitPassword(u) \/ PickMethod(u) \/ OnSubmitCode(u) \/ ResetToPassword(u)
              \/ OtherFactor(u) \/ ServeSign(u) \/ Redirect(u)
       PROVE  TokenMove(t)
  BY <1>1, <1>6, <1>13 DEF DoRefresh, ServeRefresh, RefreshFails, OnSubmitPassword, PickMethod, OnSubmitCode,
                           ResetToPassword, OtherFactor, OnlyForm, ServeSign, Redirect
<1>14. CASE SessionEnds \/ UNCHANGED allVars
  BY <1>1, <1>14 DEF SessionEnds, allVars, vars
<1> QED BY <1>4, <1>8, <1>9, <1>10, <1>11, <1>12, <1>13, <1>14 DEF Next

LEMMA OutStep ==
  TypeOK /\ GoodCalls /\ LockInv /\ OutInv /\ [Next]_allVars => OutInv'
<1> SUFFICES ASSUME TypeOK, GoodCalls, LockInv, OutInv, [Next]_allVars, out' # {}, ~crossed'
             PROVE  /\ jar'.session = 0
                    /\ \A t \in Tabs : Busy(t)' => refresh'[t].session = 0 /\ refresh'[t].stage # "granted"
                    /\ \A t \in out' : token'[t] = NoToken
  BY DEF OutInv
<1>0. /\ NoRefresh.stage = "none" /\ NoToken.age = "none" /\ GetAccessToken(NoToken) = NoToken
      /\ 0 \notin alive /\ out \subseteq Tabs
  BY DEF NoRefresh, NoToken, GetAccessToken, TypeOK, Sessions
<1>1. \A u, v \in Tabs : Busy(u) /\ Busy(v) => u = v
  BY DEF LockInv, OneHolds
<1>2. out # {} /\ ~crossed =>
        /\ jar.session = 0
        /\ \A t \in Tabs : Busy(t) => refresh[t].session = 0 /\ refresh[t].stage # "granted"
        /\ \A t \in out : token[t] = NoToken
  BY DEF OutInv
<1>3. ASSUME UNCHANGED <<out, crossed>> PROVE \A t \in out' : token'[t] = NoToken
  <2> SUFFICES ASSUME NEW t \in out PROVE token'[t] = NoToken
    BY <1>3
  <2>1. t \in Tabs /\ token[t] = NoToken /\ refresh[t].stage # "granted"
    BY <1>0, <1>2, <1>3 DEF Busy
  <2>2. TokenMove(t)
    BY <2>1, TokenMoves
  <2>3. RefreshEnds(t) => token'[t] = NoToken
    BY <1>0, <2>1, RefreshEndsToken
  <2> QED BY <1>0, <2>1, <2>2, <2>3 DEF TokenMove
<1>4. CASE Apart
  <2>1. UNCHANGED <<jar, crossed, out>> /\ \A u \in Tabs : GoesOn(u) \/ refresh'[u] = NoRefresh
    BY <1>4 DEF Apart
  <2> QED BY <1>0, <1>2, <1>3, <2>1 DEF GoesOn, Busy
<1>5. CASE Switches
  <2>1. ~crossed /\ \A u \in Tabs : refresh'[u].stage = "none"
    BY <1>5, SwitchIsAlone
  <2>2. PICK t \in Tabs : LoggedOut(t)
    BY <1>5 DEF Switches
  <2>3. jar' = NoCookie /\ token' = [token EXCEPT ![t] = NoToken] /\ out' = out \union {t}
    BY <2>2 DEF LoggedOut
  <2>4. jar'.session = 0
    BY <2>3 DEF NoCookie
  <2>5. token \in [Tabs -> TokenType]
    BY DEF TypeOK
  <2>6. ASSUME NEW u \in out' PROVE token'[u] = NoToken
    BY <1>0, <1>2, <2>1, <2>3, <2>5, <2>6
  <2> QED BY <2>1, <2>4, <2>6 DEF Busy
<1>6. ASSUME NEW t \in Tabs, DoRefresh(t)
      PROVE  /\ UNCHANGED <<jar, crossed, out>>
             /\ \A u \in Tabs : Busy(u)' => refresh'[u].session = 0 /\ refresh'[u].stage # "granted"
  <2>1. /\ \A u \in Tabs : ~Busy(u)
        /\ refresh'[t].stage = "asked" /\ refresh'[t].session = jar.session
        /\ \A u \in Tabs : u # t => refresh'[u] = refresh[u]
        /\ UNCHANGED <<jar, crossed, out>>
    BY <1>6, DoRefreshDoes
  <2> QED BY <1>2, <2>1 DEF Busy
<1>7. ASSUME NEW t \in Tabs, RefreshFails(t)
      PROVE  /\ UNCHANGED <<jar, crossed, out>>
             /\ \A u \in Tabs : Busy(u)' => refresh'[u].session = 0 /\ refresh'[u].stage # "granted"
  <2>1. /\ Busy(t) /\ refresh'[t].stage = "failed"
        /\ refresh'[t].session = refresh[t].session
        /\ \A u \in Tabs : u # t => refresh'[u] = refresh[u]
        /\ UNCHANGED <<jar, crossed, out>>
    BY <1>7, RefreshFailsDoes
  <2> QED BY <1>2, <2>1 DEF Busy
<1>8. ASSUME NEW t \in Tabs, ServeRefresh(t)
      PROVE  /\ jar'.session = 0 /\ UNCHANGED <<crossed, out>>
             /\ \A u \in Tabs : Busy(u)' => refresh'[u].session = 0 /\ refresh'[u].stage # "granted"
  <2>1. /\ Busy(t) /\ refresh'[t].session = refresh[t].session /\ jar'.session = jar.session
        /\ refresh'[t].stage = "granted" => refresh[t].session \in alive
        /\ UNCHANGED <<crossed, out>>
    BY <1>8, ServeRefreshDoes DEF Busy
  <2>2. ASSUME NEW u \in Tabs, u # t PROVE refresh'[u] = refresh[u] /\ ~Busy(u)
    BY <1>1, <1>8, <2>1, <2>2, ServeRefreshDoes DEF Busy
  <2> QED BY <1>0, <1>2, <2>1, <2>2 DEF Busy
<1>9. ASSUME NEW t \in Tabs, RefreshEnds(t)
      PROVE  /\ UNCHANGED <<jar, crossed, out>>
             /\ \A u \in Tabs : Busy(u)' => refresh'[u].session = 0 /\ refresh'[u].stage # "granted"
  <2>1. /\ Busy(t) /\ refresh'[t] = NoRefresh
        /\ \A u \in Tabs : u # t => refresh'[u] = refresh[u]
        /\ refresh[t].stage # "granted" => jar' = jar
        /\ UNCHANGED <<crossed, out>>
    BY <1>9, RefreshEndsDoes
  <2> QED BY <1>0, <1>2, <2>1 DEF Busy
<1> QED BY <1>2, <1>3, <1>4, <1>5, <1>6, <1>7, <1>8, <1>9, CookieMoves

\* A tab that logged out has no token until somebody signs in again, unless a refresh was
\* in flight when it did: the browser has no cookie, so that no refresh is granted
\* (logout, tryRefresh).
THEOREM LogoutIsKept == Spec => []LogoutSticks
<1>1. OutInv => LogoutSticks
  BY DEF OutInv, LogoutSticks
<1> QED BY <1>1, TypeInit, TypeStep, SessionInit, LockStep, OutStep, PTL DEF Spec

\* A sign-in that meets no refresh sticks: a token that still works is dropped only by a
\* logout or when the server accepts no cookie of this browser, and is replaced only by a
\* sign-in in its own tab or by a token of the session the cookie belongs to
\* (clear and setAccessToken in api).
THEOREM SignInIsKept == Spec => SignInSticks
<1> DEFINE Kept(t) == token[t].age \in {"fresh", "soon"} =>
                        \/ token'[t].session \in {token[t].session, jar.session}
                        \/ jar.session \notin alive
                        \/ call[t]["logout"].stage # "idle"
                        \/ ReceiveSign(t) \/ OidcComplete(t)
           Body == ~crossed' => \A t \in Tabs : Kept(t)
<1>1. TypeOK /\ GoodCalls /\ LockInv /\ [Next]_allVars => [Body]_vars
  <2> SUFFICES ASSUME TypeOK, GoodCalls, LockInv, [Next]_allVars, ~crossed', NEW t \in Tabs,
                      token[t].age \in {"fresh", "soon"}
               PROVE  Kept(t)
    OBVIOUS
  <2>1. GetAccessToken(token[t]) = token[t]
    BY DEF GetAccessToken
  <2>2. ASSUME RefreshEnds(t) PROVE Kept(t)
    <3>1. Busy(t) /\ ~crossed
      BY <2>2, RefreshEndsDoes
    <3>2. refresh[t].session = jar.session
      BY <3>1 DEF LockInv, Presented
    <3>3. refresh[t].stage = "refused" => refresh[t].session \notin alive
      BY DEF LockInv, RefusedHasEnded
    <3> QED BY <2>1, <2>2, <3>2, <3>3, RefreshEndsToken
  <2>3. TokenMove(t)
    BY TokenMoves
  <2> QED BY <2>1, <2>2, <2>3 DEF TokenMove
<1>2. SignInSticks <=> [][Body]_vars
  BY DEF SignInSticks
<1> HIDE DEF Body
<1>3. Spec => [][Body]_vars
  BY <1>1, TypeInit, TypeStep, SessionInit, LockStep, PTL DEF Spec
<1> QED BY <1>2, <1>3
=============================================================================
