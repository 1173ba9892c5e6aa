-------------------------- MODULE RefreshTokensProofs --------------------------
(***************************************************************************)
(* Theorems about RefreshTokens, for any number of browsers, tabs, tokens  *)
(* and hops, any grace window and any lifetime of a token.                 *)
(***************************************************************************)
EXTENDS RefreshTokens, NaturalsInduction, WellFoundedInduction, TLAPS

\* A request presents a token, and only a request does.
RequestsPresent ==
    \A p \in Tabs :
        /\ phase[p] = "idle" => tok[p] = None /\ answer[p] = None
        /\ phase[p] # "idle" => tok[p] \in Tokens
        /\ phase[p] = "minting" => tok[p] \in stored
        /\ answer[p] # None => phase[p] = "answered"

\* A link leads to a token in the table; where nothing commits there are none.
LinksAreStored ==
    /\ \A t \in Tokens : replaced[t] # None => replaced[t] \in stored /\ t \in stored
    /\ "commits" \notin env => \A t \in Tokens : replaced[t] = None
    /\ "commits" \notin env => \A p \in Tabs : phase[p] # "revoking"

\* The part of the invariant that holds in every environment.
TableInv == world \in Worlds /\ TypeOK /\ RequestsPresent /\ LinksAreStored

\* Requests that are served one at a time write what they have read.
Serial == \A p, q \in Tabs : phase[p] \in Serving /\ phase[q] \in Serving => p = q
SeenIsLive ==
    \A p \in Tabs : phase[p] \in {"minting", "revoking", "changing"} => live[p] = LiveTokens
NoLogout == \A p \in Tabs : kind[p] # "logout" /\ phase[p] # "closing"

\* The tokens of ended sessions are revoked, so are those they were rotated to, and
\* no request is about to mint from one.
DeadStayDead ==
    /\ killed \subseteq stored
    /\ \A t \in killed : revoked[t] # Never
    /\ \A t \in killed : replaced[t] # None => replaced[t] \in killed
    /\ \A p \in Tabs : phase[p] = "minting" => tok[p] \notin killed

KillInv ==
    Without({"overlap", "logout"}) => Serial /\ SeenIsLive /\ NoLogout /\ DeadStayDead

\* Every token the user's browsers and requests hold was handed out, to one browser.
TokensOfOneJar ==
    /\ \A b \in Browsers : cookie[b] <= issued
    /\ \A p \in Tabs : tok[p] <= issued /\ answer[p] <= issued
    /\ \A b, c \in Browsers : cookie[b] = cookie[c] /\ cookie[b] # None => b = c
    /\ \A b \in Browsers, p \in Tabs : cookie[b] = tok[p] /\ tok[p] # None => jar[p] = b
    /\ \A p, q \in Tabs : tok[p] = tok[q] /\ tok[p] # None => jar[p] = jar[q]

\* An answer on its way carries a token that nobody has presented.
AnswersAreNew ==
    \A p \in Tabs : answer[p] # None =>
        /\ replaced[answer[p]] = None
        /\ \A b \in Browsers : cookie[b] # answer[p]
        /\ \A q \in Tabs : tok[q] # answer[p] /\ (answer[q] = answer[p] => q = p)

\* A browser holds a rotated token only until the answer with a newer one arrives.
RotationsAreAnswered ==
    \A b \in Browsers : cookie[b] # None /\ replaced[cookie[b]] # None =>
        \E p \in Tabs : jar[p] = b /\ answer[p] # None

\* So whatever is presented was rotated at this very moment, if at all.
RotationsAreRecent ==
    /\ \A b \in Browsers : cookie[b] # None /\ Rotated(cookie[b]) => revoked[cookie[b]] = now
    /\ \A p \in Tabs : tok[p] # None /\ Rotated(tok[p]) => revoked[tok[p]] = now

NoAlarm == alarms = 0 /\ \A p \in Tabs : phase[p] # "revoking"

AlarmInv ==
    Without({"lost"}) =>
        /\ TokensOfOneJar
        /\ AnswersAreNew
        /\ RotationsAreAnswered
        /\ RotationsAreRecent
        /\ NoAlarm

--------------------------------------------------------------------------------

\* What the worlds of the specification provide.
LEMMA WorldFacts ==
  ASSUME world \in Worlds
  PROVE  /\ jar \in [Tabs -> Browsers]
         /\ world.tokens \in 0 .. MaxTokens
         /\ env \subseteq EnvKinds
BY WorldsAssumption DEF jar, env

LEMMA TableInit == Init => TableInv
BY BoundsAssumption
   DEF Init, TableInv, TypeOK, RequestsPresent, LinksAreStored, Tokens, Times, Never, None,
       Phases, AllKinds

\* The rows are among the tokens, and so are those read as live.
LEMMA StoredTokens == TypeOK => stored \subseteq Tokens /\ LiveTokens \subseteq Tokens
<1> SUFFICES ASSUME TypeOK PROVE stored \subseteq Tokens /\ LiveTokens \subseteq Tokens
  OBVIOUS
<1>1. 1 .. issued \subseteq Tokens
  BY BoundsAssumption DEF TypeOK, Tokens
<1> QED
  BY <1>1 DEF TypeOK, LiveTokens

\* A new row keeps the types of the table.
LEMMA InsertTypes ==
  ASSUME world \in Worlds, TypeOK, issued < world.tokens, issued' = issued + 1,
         NEW s \in {None} \cup Tokens, NEW from \in {None} \cup Tokens, NEW until \in 0 .. MaxTime + Ttl,
         Insert(issued + 1, s, from, until)
  PROVE  /\ issued + 1 \in Tokens /\ issued' \in 0 .. MaxTokens /\ stored' \subseteq 1 .. issued'
         /\ expires' \in [Tokens -> 0 .. MaxTime + Ttl]
         /\ session' \in [Tokens -> {None} \cup Tokens]
         /\ origin' \in [Tokens -> {None} \cup Tokens]
<1>1. issued + 1 \in Tokens /\ issued' \in 0 .. MaxTokens
  BY BoundsAssumption, WorldFacts DEF TypeOK, Tokens
<1>2. stored' \subseteq 1 .. issued'
  BY BoundsAssumption DEF TypeOK, Insert
<1> QED
  BY <1>1, <1>2 DEF TypeOK, Insert

LEMMA TimeFacts ==
  ASSUME TypeOK
  PROVE  /\ now \in Times \cup {Never} /\ now + Ttl \in 0 .. MaxTime + Ttl
         /\ \A t \in Tokens : Least(now + Ttl, expires[t]) \in 0 .. MaxTime + Ttl
<1>1. now \in 0 .. MaxTime /\ \A t \in Tokens : expires[t] \in 0 .. MaxTime + Ttl
  BY DEF TypeOK, Times
<1> QED
  BY <1>1, BoundsAssumption DEF Least, Times

\* Every step keeps the types.
LEMMA TypeStep ==
  ASSUME world \in Worlds, TypeOK, RequestsPresent, Step, UNCHANGED world
  PROVE  TypeOK'
<1> USE StoredTokens, WorldFacts DEF TypeOK, table, request, Phases, AllKinds
<1>1. ASSUME NEW b \in Browsers, Login(b) PROVE TypeOK'
  <2>1. None \in {None} \cup Tokens /\ issued + 1 \in {None} \cup Tokens
    BY <1>1, BoundsAssumption DEF Login, Tokens
  <2> QED
    BY <1>1, <2>1, InsertTypes, TimeFacts DEF Login
<1>2. ASSUME NEW p \in Tabs, Serve(p) PROVE TypeOK'
  <2>1. CASE ReadRefresh(p)
    BY <2>1 DEF ReadRefresh, Goto
  <2>2. CASE Mint(p)
    <3>1. tok[p] \in Tokens /\ session[tok[p]] \in {None} \cup Tokens
      BY <2>2 DEF Mint, RequestsPresent
    <3>2. issued + 1 \in Tokens /\ issued' \in 0 .. MaxTokens
      BY <2>2, BoundsAssumption DEF Mint, Tokens
    <3>3. CASE "commits" \in env
      <4> DEFINE until == IF tok[p] \in live[p] THEN now + Ttl ELSE Least(now + Ttl, expires[tok[p]])
      <4>1. until \in 0 .. MaxTime + Ttl
        BY <3>1, TimeFacts
      <4>2. Insert(issued + 1, session[tok[p]], tok[p], until)
        BY <2>2, <3>3 DEF Mint
      <4> HIDE DEF until
      <4>3. /\ stored' \subseteq 1 .. issued'
            /\ expires' \in [Tokens -> 0 .. MaxTime + Ttl]
            /\ session' \in [Tokens -> {None} \cup Tokens]
            /\ origin' \in [Tokens -> {None} \cup Tokens]
        BY <2>2, <3>1, <4>1, <4>2, InsertTypes DEF Mint
      <4>4. revoked' \in [Tokens -> Times \cup {Never}] /\ replaced' \in [Tokens -> {None} \cup Tokens]
        BY <2>2, <3>2, <3>3, TimeFacts DEF Mint
      <4> QED
        BY <2>2, <3>2, <4>3, <4>4 DEF Mint, Goto
    <3>4. CASE "commits" \notin env
      <4>1. stored' = stored /\ issued' = issued + 1
        BY <2>2, <3>4 DEF Mint
      <4>2. issued \in Nat /\ stored \subseteq 1 .. issued
        BY BoundsAssumption
      <4>3. stored' \subseteq 1 .. issued'
        BY <4>1, <4>2
      <4> QED
        BY <2>2, <3>2, <3>4, <4>3 DEF Mint, Goto
    <3> QED
      BY <3>3, <3>4
  <2>3. CASE RevokeAll(p)
    BY <2>3, TimeFacts DEF RevokeAll, RevokeSeen, Goto
  <2>4. CASE ReadOther(p)
    BY <2>4 DEF ReadOther, Goto
  <2>5. CASE Logout(p)
    BY <2>5, TimeFacts DEF Logout, Close
  <2>6. CASE ChangePassword(p)
    <3>1. session[tok[p]] \in {None} \cup Tokens
      BY <2>6 DEF ChangePassword, RequestsPresent
    <3>2. issued + 1 \in Tokens
      BY <2>6, BoundsAssumption DEF ChangePassword, Tokens
    <3>3. (IF tok[p] \in stored THEN session[tok[p]] ELSE issued + 1) \in {None} \cup Tokens
      BY <3>1, <3>2
    <3>4. None \in {None} \cup Tokens
      OBVIOUS
    <3> QED
      BY <2>6, <3>2, <3>3, <3>4, InsertTypes, TimeFacts DEF ChangePassword, RevokeSeen, Goto
  <2>7. CASE Receive(p)
    BY <2>7 DEF Receive, Close
  <2>8. CASE Lose(p)
    BY <2>8 DEF Lose, Close
  <2> QED
    BY <1>2, <2>1, <2>2, <2>3, <2>4, <2>5, <2>6, <2>7, <2>8 DEF Serve
<1>3. ASSUME NEW p \in Tabs, NEW k \in AllKinds, Send(p, k) PROVE TypeOK'
  BY <1>3 DEF Send, Goto
<1>4. CASE Tick
  <2>1. now' \in Times
    BY <1>4, BoundsAssumption DEF Tick, Times
  <2> QED
    BY <1>4, <2>1 DEF Tick
<1>5. CASE SetActive
  BY <1>5 DEF SetActive
<1> QED
  BY <1>1, <1>2, <1>3, <1>4, <1>5 DEF Step

\* Requests go on presenting the token they came with.
LEMMA PresentStep ==
  ASSUME world \in Worlds, TypeOK, RequestsPresent, Step, UNCHANGED world
  PROVE  RequestsPresent'
<1> USE BoundsAssumption, WorldFacts DEF TypeOK, RequestsPresent, table, request, Phases, AllKinds,
      Tokens, Times, Never, None
<1>1. ASSUME NEW b \in Browsers, Login(b) PROVE RequestsPresent'
  BY <1>1 DEF Login, Insert
<1>2. ASSUME NEW p \in Tabs, Serve(p) PROVE RequestsPresent'
  <2>1. CASE ReadRefresh(p)
    BY <2>1 DEF ReadRefresh, Goto, Accepted
  <2>2. CASE Mint(p)
    BY <2>2 DEF Mint, Insert, Goto
  <2>3. CASE RevokeAll(p)
    BY <2>3 DEF RevokeAll, RevokeSeen, Goto
  <2>4. CASE ReadOther(p)
    BY <2>4 DEF ReadOther, Goto
  <2>5. CASE Logout(p)
    BY <2>5 DEF Logout, Close
  <2>6. CASE ChangePassword(p)
    BY <2>6 DEF ChangePassword, Insert, RevokeSeen, Goto
  <2>7. CASE Receive(p)
    BY <2>7 DEF Receive, Close
  <2>8. CASE Lose(p)
    BY <2>8 DEF Lose, Close
  <2> QED
    BY <1>2, <2>1, <2>2, <2>3, <2>4, <2>5, <2>6, <2>7, <2>8 DEF Serve
<1>3. ASSUME NEW p \in Tabs, NEW k \in AllKinds, Send(p, k) PROVE RequestsPresent'
  BY <1>3 DEF Send, Goto
<1>4. CASE Tick
  BY <1>4 DEF Tick
<1>5. CASE SetActive
  BY <1>5 DEF SetActive
<1> QED
  BY <1>1, <1>2, <1>3, <1>4, <1>5 DEF Step

\* A link is made to the row that is inserted with it.
LEMMA LinksStep ==
  ASSUME world \in Worlds, TypeOK, RequestsPresent, LinksAreStored, Step, UNCHANGED world
  PROVE  LinksAreStored'
<1> USE BoundsAssumption, WorldFacts DEF TypeOK, RequestsPresent, LinksAreStored, table, request,
      Tokens, Times, Never, None, env
<1>1. ASSUME NEW b \in Browsers, Login(b) PROVE LinksAreStored'
  BY <1>1 DEF Login, Insert
<1>2. ASSUME NEW p \in Tabs, Serve(p) PROVE LinksAreStored'
  <2>1. CASE ReadRefresh(p)
    BY <2>1 DEF ReadRefresh, Goto, Replayed, Rotated
  <2>2. CASE Mint(p)
    <3>1. tok[p] \in stored /\ issued + 1 \in Tokens
      BY <2>2 DEF Mint
    <3>2. CASE "commits" \in env
      <4>1. stored' = stored \cup {issued + 1} /\ phase' = [phase EXCEPT ![p] = "answered"]
        BY <2>2, <3>2 DEF Mint, Insert, Goto
      <4>2. \A t \in Tokens : replaced'[t] = replaced[t] \/ (t = tok[p] /\ replaced'[t] = issued + 1)
        BY <2>2, <3>2 DEF Mint
      <4> QED
        BY <3>1, <3>2, <4>1, <4>2
    <3>3. CASE "commits" \notin env
      BY <2>2, <3>3 DEF Mint, Goto
    <3> QED
      BY <3>2, <3>3
  <2>3. CASE RevokeAll(p)
    BY <2>3 DEF RevokeAll, RevokeSeen, Goto
  <2>4. CASE ReadOther(p)
    BY <2>4 DEF ReadOther, Goto
  <2>5. CASE Logout(p)
    BY <2>5 DEF Logout, Close
  <2>6. CASE ChangePassword(p)
    BY <2>6 DEF ChangePassword, Insert, RevokeSeen, Goto
  <2>7. CASE Receive(p)
    BY <2>7 DEF Receive, Close
  <2>8. CASE Lose(p)
    BY <2>8 DEF Lose, Close
  <2> QED
    BY <1>2, <2>1, <2>2, <2>3, <2>4, <2>5, <2>6, <2>7, <2>8 DEF Serve
<1>3. ASSUME NEW p \in Tabs, NEW k \in AllKinds, Send(p, k) PROVE LinksAreStored'
  BY <1>3 DEF Send, Goto
<1>4. CASE Tick
  BY <1>4 DEF Tick
<1>5. CASE SetActive
  BY <1>5 DEF SetActive
<1> QED
  BY <1>1, <1>2, <1>3, <1>4, <1>5 DEF Step

--------------------------------------------------------------------------------
(* The walk along a chain of rotated tokens *)

\* A non-empty set of numbers has a least one.
LEMMA LeastNumber ==
  ASSUME NEW S, S \subseteq Nat, S # {}
  PROVE  \E n \in S : \A m \in S : n <= m
<1> DEFINE R == {ss \in Nat \X Nat : ss[1] < ss[2]}
<1>1. IsWellFoundedOn(R, Nat)
  BY NatLessThanWellFounded DEF OpToRel
<1> HIDE DEF R
<1>2. PICK n \in S : \A m \in S : ~ (<<m, n>> \in R)
  BY <1>1, WFMin
<1>3. ASSUME NEW m \in S PROVE n <= m
  <2>1. ~ (<<m, n>> \in R)
    BY <1>2
  <2> QED
    BY <2>1 DEF R
<1> QED
  BY <1>3

\* The walk of k hops that ChainIsLive takes from t.
IsWalk(f, t, k) == f = [n \in 0 .. k |-> IF n = 0 THEN t ELSE Successor(f[n - 1])]

\* There is a walk of every length: otherwise extend the one before the least length
\* without.
LEMMA WalkExists ==
  ASSUME NEW t
  PROVE  \A k \in Nat : \E f : IsWalk(f, t, k)
<1> DEFINE S == {k \in Nat : ~ \E f : IsWalk(f, t, k)}
<1> SUFFICES ASSUME S # {} PROVE FALSE
  OBVIOUS
<1>1. PICK k \in S : \A m \in S : k <= m
  <2>1. S \subseteq Nat
    OBVIOUS
  <2> HIDE DEF S
  <2> QED
    BY <2>1, LeastNumber
<1>2. CASE k = 0
  <2>1. IsWalk([n \in 0 .. 0 |-> t], t, 0)
    BY DEF IsWalk
  <2> QED
    BY <1>2, <2>1
<1>3. CASE k # 0
  <2>1. k - 1 \in Nat /\ k - 1 \notin S
    BY <1>1, <1>3
  <2>2. PICK f : IsWalk(f, t, k - 1)
    BY <2>1
  <2> DEFINE g == [n \in 0 .. k |-> IF n = k THEN Successor(f[k - 1]) ELSE f[n]]
  <2>3. IsWalk(g, t, k)
    BY <2>1, <2>2, <1>3 DEF IsWalk
  <2> QED
    BY <2>3
<1> QED
  BY <1>2, <1>3

\* A walk does not leave a set that is closed under its hops.
LEMMA WalkStays ==
  ASSUME NEW K, \A t \in K : Successor(t) \in K,
         NEW t \in K, NEW k \in Nat, NEW f, IsWalk(f, t, k)
  PROVE  f[k] \in K
<1> DEFINE S == {n \in 0 .. k : f[n] \notin K}
<1> SUFFICES ASSUME S # {} PROVE FALSE
  OBVIOUS
<1>1. PICK n \in S : \A m \in S : n <= m
  <2>1. S \subseteq Nat
    OBVIOUS
  <2> HIDE DEF S
  <2> QED
    BY <2>1, LeastNumber
<1>2. n # 0
  BY DEF IsWalk
<1>3. n - 1 \in 0 .. k /\ n - 1 \notin S
  BY <1>1, <1>2
<1>4. f[n] = Successor(f[n - 1])
  BY <1>2 DEF IsWalk
<1> QED
  BY <1>3, <1>4

\* ChainIsLive looks at the end of a walk of _MAX_CHAIN_HOPS.
LEMMA ChainEndsAWalk ==
  ASSUME NEW t
  PROVE  \E f : IsWalk(f, t, MaxHops - 1) /\ (ChainIsLive(t) => revoked[f[MaxHops - 1]] = Never)
<1> DEFINE f == CHOOSE w : IsWalk(w, t, MaxHops - 1)
<1>1. IsWalk(f, t, MaxHops - 1)
  <2>1. MaxHops - 1 \in Nat
    BY BoundsAssumption
  <2>2. \E w : IsWalk(w, t, MaxHops - 1)
    BY <2>1, WalkExists
  <2> QED
    BY <2>2, Zenon
<1>2. f = CHOOSE w : w = [n \in 0 .. MaxHops - 1 |-> IF n = 0 THEN t ELSE Successor(w[n - 1])]
  BY DEF IsWalk
<1>3. ChainIsLive(t) => revoked[f[MaxHops - 1]] = Never
  BY <1>2, Zenon DEF ChainIsLive
<1> QED
  BY <1>1, <1>3

\* The chain of a token of an ended session is dead, however long it is.
LEMMA DeadChain ==
  ASSUME TypeOK, DeadStayDead, NEW t \in killed
  PROVE  ~ChainIsLive(t)
<1>1. PICK f : /\ IsWalk(f, t, MaxHops - 1)
               /\ ChainIsLive(t) => revoked[f[MaxHops - 1]] = Never
  BY ChainEndsAWalk
<1>2. \A u \in killed : Successor(u) \in killed
  BY DEF DeadStayDead, Successor
<1>3. f[MaxHops - 1] \in killed
  <2>1. MaxHops - 1 \in Nat
    BY BoundsAssumption
  <2> QED
    BY <1>1, <1>2, <2>1, WalkStays
<1> QED
  BY <1>1, <1>3 DEF DeadStayDead

--------------------------------------------------------------------------------
(* Requests that are served one at a time *)

\* A request is read for when the one before it has been written for.
LEMMA SerialStep ==
  ASSUME TypeOK, Serial, Without({"overlap", "logout"}), Step, UNCHANGED world
  PROVE  Serial'
<1> USE DEF TypeOK, Serial, Without, MayRead, Serving, table, request
<1>1. ASSUME NEW b \in Browsers, Login(b) PROVE Serial'
  BY <1>1 DEF Login, Insert
<1>2. ASSUME NEW p \in Tabs, Serve(p) PROVE Serial'
  <2>1. CASE ReadRefresh(p)
    BY <2>1 DEF ReadRefresh, Goto
  <2>2. CASE Mint(p)
    BY <2>2 DEF Mint, Insert, Goto
  <2>3. CASE RevokeAll(p)
    BY <2>3 DEF RevokeAll, RevokeSeen, Goto
  <2>4. CASE ReadOther(p)
    BY <2>4 DEF ReadOther, Goto
  <2>5. CASE Logout(p)
    BY <2>5 DEF Logout, Close
  <2>6. CASE ChangePassword(p)
    BY <2>6 DEF ChangePassword, Insert, RevokeSeen, Goto
  <2>7. CASE Receive(p)
    BY <2>7 DEF Receive, Close
  <2>8. CASE Lose(p)
    BY <2>8 DEF Lose, Close
  <2> QED
    BY <1>2, <2>1, <2>2, <2>3, <2>4, <2>5, <2>6, <2>7, <2>8 DEF Serve
<1>3. ASSUME NEW p \in Tabs, NEW k \in AllKinds, Send(p, k) PROVE Serial'
  BY <1>3 DEF Send, Goto
<1>4. CASE Tick
  BY <1>4 DEF Tick
<1>5. CASE SetActive
  BY <1>5 DEF SetActive
<1> QED
  BY <1>1, <1>2, <1>3, <1>4, <1>5 DEF Step

\* Nobody logs out.
LEMMA NoLogoutStep ==
  ASSUME TypeOK, NoLogout, Without({"overlap", "logout"}), Step, UNCHANGED world
  PROVE  NoLogout'
<1> USE DEF TypeOK, NoLogout, Without, Phases, AllKinds, table, request
<1>1. ASSUME NEW b \in Browsers, Login(b) PROVE NoLogout'
  BY <1>1 DEF Login, Insert
<1>2. ASSUME NEW p \in Tabs, Serve(p) PROVE NoLogout'
  <2>1. CASE ReadRefresh(p)
    BY <2>1 DEF ReadRefresh, Goto
  <2>2. CASE Mint(p)
    BY <2>2 DEF Mint, Insert, Goto
  <2>3. CASE RevokeAll(p)
    BY <2>3 DEF RevokeAll, RevokeSeen, Goto
  <2>4. CASE ReadOther(p)
    BY <2>4 DEF ReadOther, Goto
  <2>5. CASE Logout(p)
    BY <2>5 DEF Logout, Close
  <2>6. CASE ChangePassword(p)
    BY <2>6 DEF ChangePassword, Insert, RevokeSeen, Goto
  <2>7. CASE Receive(p)
    BY <2>7 DEF Receive, Close
  <2>8. CASE Lose(p)
    BY <2>8 DEF Lose, Close
  <2> QED
    BY <1>2, <2>1, <2>2, <2>3, <2>4, <2>5, <2>6, <2>7, <2>8 DEF Serve
<1>3. ASSUME NEW p \in Tabs, NEW k \in AllKinds, Send(p, k) PROVE NoLogout'
  BY <1>3 DEF Send, Goto
<1>4. CASE Tick
  BY <1>4 DEF Tick
<1>5. CASE SetActive
  BY <1>5 DEF SetActive
<1> QED
  BY <1>1, <1>2, <1>3, <1>4, <1>5 DEF Step

\* What a request has read as live stays live until it writes.
LEMMA SeenStep ==
  ASSUME TypeOK, Serial, NoLogout, SeenIsLive, Without({"overlap", "logout"}), Step, UNCHANGED world
  PROVE  SeenIsLive'
<1> USE DEF TypeOK, Serial, NoLogout, SeenIsLive, LiveTokens, Without, MayRead, Serving, table, request
<1>1. ASSUME NEW b \in Browsers, Login(b) PROVE SeenIsLive'
  BY <1>1 DEF Login, Insert
<1>2. ASSUME NEW p \in Tabs, Serve(p) PROVE SeenIsLive'
  <2>1. CASE ReadRefresh(p)
    BY <2>1 DEF ReadRefresh, Goto
  <2>2. CASE Mint(p)
    BY <2>2 DEF Mint, Insert, Goto
  <2>3. CASE RevokeAll(p)
    BY <2>3 DEF RevokeAll, RevokeSeen, Goto
  <2>4. CASE ReadOther(p)
    BY <2>4 DEF ReadOther, Goto
  <2>5. CASE Logout(p)
    BY <2>5 DEF Logout, Close
  <2>6. CASE ChangePassword(p)
    BY <2>6 DEF ChangePassword, Insert, RevokeSeen, Goto
  <2>7. CASE Receive(p)
    BY <2>7 DEF Receive, Close
  <2>8. CASE Lose(p)
    BY <2>8 DEF Lose, Close
  <2> QED
    BY <1>2, <2>1, <2>2, <2>3, <2>4, <2>5, <2>6, <2>7, <2>8 DEF Serve
<1>3. ASSUME NEW p \in Tabs, NEW k \in AllKinds, Send(p, k) PROVE SeenIsLive'
  BY <1>3 DEF Send, Goto
<1>4. CASE Tick
  BY <1>4 DEF Tick
<1>5. CASE SetActive
  BY <1>5 DEF SetActive
<1> QED
  BY <1>1, <1>2, <1>3, <1>4, <1>5 DEF Step

\* After _revoke_all_for_user every token in the table is revoked.
LEMMA RevokedAll ==
  ASSUME TypeOK, SeenIsLive, NEW p \in Tabs, phase[p] \in {"revoking", "changing"}, RevokeSeen(p)
  PROVE  \A t \in Tokens : (t \in stored => revoked'[t] # Never) /\ (revoked[t] # Never => revoked'[t] # Never)
<1>1. live[p] = LiveTokens
  BY DEF SeenIsLive
<1>2. now # Never
  BY BoundsAssumption DEF TypeOK, Times, Never
<1> QED
  BY <1>1, <1>2 DEF RevokeSeen, LiveTokens

\* Tokens are numbers, and the next one has no successor.
LEMMA Numbers ==
  ASSUME TypeOK, LinksAreStored
  PROVE  /\ issued \in Nat
         /\ \A b \in Browsers : cookie[b] \in Nat
         /\ \A p \in Tabs : tok[p] \in Nat /\ answer[p] \in Nat
         /\ issued + 1 \in Tokens => replaced[issued + 1] = None
<1>1. /\ issued \in Nat
      /\ \A b \in Browsers : cookie[b] \in Nat
      /\ \A p \in Tabs : tok[p] \in Nat /\ answer[p] \in Nat
  BY BoundsAssumption DEF TypeOK, Tokens, None
<1>2. issued + 1 \notin stored
  BY <1>1 DEF TypeOK
<1> QED
  BY <1>1, <1>2 DEF LinksAreStored

\* What a mint changes of the token it was asked with, and of the others.
LEMMA MintFacts ==
  ASSUME world \in Worlds, TypeOK, RequestsPresent, LinksAreStored, NEW p \in Tabs, Mint(p)
  PROVE  /\ issued + 1 \in Tokens /\ issued' = issued + 1
         /\ tok[p] \in Tokens /\ tok[p] <= issued
         /\ answer' = [answer EXCEPT ![p] = issued + 1]
         /\ phase' = [phase EXCEPT ![p] = "answered"]
         /\ cookie' = cookie /\ tok' = tok /\ now' = now
         /\ replaced'[issued + 1] = None
         /\ \A t \in Tokens : \/ replaced'[t] = replaced[t] /\ revoked'[t] = revoked[t]
                              \/ t = tok[p] /\ revoked'[t] = now
<1>1. tok[p] \in stored /\ issued < world.tokens
  BY DEF Mint, RequestsPresent
<1>2. issued \in Nat /\ issued + 1 \in Tokens
  BY <1>1, BoundsAssumption, WorldFacts DEF TypeOK, Tokens
<1>3. tok[p] \in Tokens /\ tok[p] <= issued /\ tok[p] # issued + 1
  <2>1. tok[p] \in Tokens /\ tok[p] \in 1 .. issued
    BY <1>1, StoredTokens DEF TypeOK
  <2> QED
    BY <1>2, <2>1
<1>4. \A t \in Tokens : \/ replaced'[t] = replaced[t] /\ revoked'[t] = revoked[t]
                        \/ t = tok[p] /\ revoked'[t] = now
  BY DEF Mint, TypeOK
<1>5. replaced'[issued + 1] = None
  BY <1>2, <1>3, Numbers DEF Mint, TypeOK
<1>6. /\ issued' = issued + 1 /\ cookie' = cookie /\ tok' = tok /\ now' = now
      /\ answer' = [answer EXCEPT ![p] = issued + 1]
      /\ phase' = [phase EXCEPT ![p] = "answered"]
  BY DEF Mint, Goto
<1> QED
  BY <1>2, <1>3, <1>4, <1>5, <1>6

\* Ended sessions stay ended: what they are rotated to is in the table, and their chains
\* are dead when a request looks at them.
LEMMA DeadStep ==
  ASSUME world \in Worlds, TypeOK, RequestsPresent, LinksAreStored,
         Serial, NoLogout, SeenIsLive, DeadStayDead, Without({"overlap", "logout"}), Step, UNCHANGED world
  PROVE  DeadStayDead'
<1> USE BoundsAssumption DEF TypeOK, RequestsPresent, LinksAreStored, Serial, NoLogout, SeenIsLive, DeadStayDead,
      table, request, Tokens, Times, Never
<1>1. ASSUME NEW b \in Browsers, Login(b) PROVE DeadStayDead'
  BY <1>1 DEF Login, Insert
<1>2. ASSUME NEW p \in Tabs, Serve(p) PROVE DeadStayDead'
  <2>1. CASE ReadRefresh(p)
    <3>1. Accepted(tok[p]) => tok[p] \notin killed
      <4> SUFFICES ASSUME Accepted(tok[p]), tok[p] \in killed PROVE FALSE
        OBVIOUS
      <4>1. ChainIsLive(tok[p])
        BY DEF Accepted
      <4> QED
        BY <4>1, DeadChain
    <3>2. \A q \in Tabs : phase'[q] = "minting" =>
             phase[q] = "minting" \/ (q = p /\ Accepted(tok[p]))
      BY <2>1 DEF ReadRefresh, Goto
    <3> QED
      BY <2>1, <3>1, <3>2 DEF ReadRefresh
  <2>2. CASE Mint(p)
    <3>1. tok[p] \in stored /\ tok[p] \notin killed /\ killed' = killed /\ tok' = tok
      BY <2>2 DEF Mint
    <3>2. \A t \in killed : t # tok[p] /\ revoked'[t] = revoked[t] /\ replaced'[t] = replaced[t]
      <4>1. killed \subseteq Tokens
        BY ONLY TypeOK, DeadStayDead, StoredTokens DEF DeadStayDead
      <4>2. \A t \in Tokens : \/ replaced'[t] = replaced[t] /\ revoked'[t] = revoked[t]
                              \/ t = tok[p]
        BY <2>2, MintFacts
      <4> QED
        BY ONLY <3>1, <4>1, <4>2
    <3>3. stored \subseteq stored'
      BY <2>2 DEF Mint, Insert
    <3>4. \A q \in Tabs : phase'[q] = "minting" => phase[q] = "minting"
      BY <2>2 DEF Mint, Goto
    <3> QED
      BY <3>1, <3>2, <3>3, <3>4
  <2>3. CASE RevokeAll(p)
    <3>1. RevokeSeen(p) /\ killed' = killed \cup stored /\ UNCHANGED <<stored, replaced, tok>>
      BY <2>3 DEF RevokeAll
    <3>2. \A q \in Tabs : phase'[q] # "minting"
      BY <2>3 DEF RevokeAll, Goto, Serving
    <3>3. \A t \in Tokens : (t \in stored => revoked'[t] # Never) /\ (revoked[t] # Never => revoked'[t] # Never)
      BY <2>3, <3>1, RevokedAll DEF RevokeAll
    <3> QED
      BY ONLY TypeOK, LinksAreStored, DeadStayDead, StoredTokens, <3>1, <3>2, <3>3
         DEF DeadStayDead, LinksAreStored
  <2>4. CASE ReadOther(p)
    BY <2>4 DEF ReadOther, Goto
  <2>5. CASE Logout(p)
    BY <2>5 DEF Logout, Close
  <2>6. CASE ChangePassword(p)
    <3>1. /\ RevokeSeen(p) /\ killed' = killed \cup stored /\ UNCHANGED <<replaced, tok>>
          /\ stored \subseteq stored'
      BY <2>6 DEF ChangePassword, Insert
    <3>2. \A q \in Tabs : phase'[q] # "minting"
      BY <2>6 DEF ChangePassword, Goto, Serving
    <3>3. phase[p] \in {"revoking", "changing"}
      BY <2>6 DEF ChangePassword
    <3>4. \A t \in killed \cup stored : t \in Tokens /\ revoked'[t] # Never
      BY <3>1, <3>3, RevokedAll, StoredTokens
    <3> QED
      BY <3>1, <3>2, <3>4
  <2>7. CASE Receive(p)
    BY <2>7 DEF Receive, Close
  <2>8. CASE Lose(p)
    BY <2>8 DEF Lose, Close
  <2> QED
    BY <1>2, <2>1, <2>2, <2>3, <2>4, <2>5, <2>6, <2>7, <2>8 DEF Serve
<1>3. ASSUME NEW p \in Tabs, NEW k \in AllKinds, Send(p, k) PROVE DeadStayDead'
  BY <1>3 DEF Send, Goto
<1>4. CASE Tick
  BY <1>4 DEF Tick
<1>5. CASE SetActive
  BY <1>5 DEF SetActive
<1> QED
  BY <1>1, <1>2, <1>3, <1>4, <1>5 DEF Step

--------------------------------------------------------------------------------
(* Answers that arrive *)

\* A token that is issued for an answer is known to that answer only.
LEMMA IssueIsNew ==
  ASSUME TypeOK, LinksAreStored, TokensOfOneJar, AnswersAreNew, NEW p \in Tabs,
         tok[p] \in Tokens, tok[p] <= issued, issued' = issued + 1,
         answer' = [answer EXCEPT ![p] = issued + 1], UNCHANGED <<cookie, tok>>,
         replaced'[issued + 1] = None,
         \A t \in Tokens : replaced'[t] = replaced[t] \/ t = tok[p]
  PROVE  AnswersAreNew'
<1>1. /\ issued' = issued + 1 /\ tok[p] \in Tokens /\ tok[p] <= issued
      /\ answer' = [answer EXCEPT ![p] = issued + 1] /\ cookie' = cookie /\ tok' = tok
      /\ replaced'[issued + 1] = None
      /\ \A t \in Tokens : replaced'[t] = replaced[t] \/ t = tok[p]
  OBVIOUS
<1>2. /\ issued \in Nat
      /\ \A b \in Browsers : cookie[b] \in Nat /\ cookie[b] <= issued
      /\ \A q \in Tabs : tok[q] \in Nat /\ tok[q] <= issued
      /\ \A q \in Tabs : answer[q] \in {None} \cup Tokens /\ answer[q] \in Nat /\ answer[q] <= issued
  BY Numbers DEF TokensOfOneJar, TypeOK
<1>3. answer \in [Tabs -> {None} \cup Tokens]
  BY DEF TypeOK
<1> SUFFICES ASSUME NEW q \in Tabs, answer'[q] # None
             PROVE  /\ replaced'[answer'[q]] = None
                    /\ \A b \in Browsers : cookie[b] # answer'[q]
                    /\ \A r \in Tabs : tok[r] # answer'[q] /\ (answer'[r] = answer'[q] => r = q)
  BY <1>1 DEF AnswersAreNew
<1>4. CASE q = p
  <2>1. answer'[q] = issued + 1 /\ \A r \in Tabs : r # q => answer'[r] = answer[r]
    BY <1>1, <1>3, <1>4
  <2> QED
    BY <1>1, <1>2, <2>1
<1>5. CASE q # p
  <2>1. answer'[q] = answer[q] /\ answer'[p] = issued + 1 /\ \A r \in Tabs : r # p => answer'[r] = answer[r]
    BY <1>1, <1>3, <1>5
  <2>2. answer[q] \in Tokens /\ answer[q] # tok[p] /\ replaced[answer[q]] = None
    BY <2>1, <1>2 DEF AnswersAreNew
  <2>3. \A b \in Browsers : cookie[b] # answer[q]
    BY <2>1 DEF AnswersAreNew
  <2>4. \A r \in Tabs : tok[r] # answer[q] /\ (answer[r] = answer[q] => r = q)
    BY <2>1 DEF AnswersAreNew
  <2> QED
    BY <1>1, <1>2, <2>1, <2>2, <2>3, <2>4
<1> QED
  BY <1>4, <1>5

\* A login hands out a token that was not rotated.
LEMMA LoginFacts ==
  ASSUME world \in Worlds, TypeOK, LinksAreStored, NEW b \in Browsers, Login(b)
  PROVE  /\ issued + 1 \in Tokens /\ replaced[issued + 1] = None
         /\ cookie' = [cookie EXCEPT ![b] = issued + 1]
         /\ UNCHANGED <<now, revoked, replaced, tok, answer>>
<1>1. issued + 1 \in Tokens
  BY BoundsAssumption, WorldFacts DEF Login, TypeOK, Tokens
<1> QED
  BY <1>1, Numbers DEF Login, request

\* The request that rotates the token of a browser is going to answer it.
LEMMA MintIsAnswered ==
  ASSUME world \in Worlds, TypeOK, RequestsPresent, LinksAreStored, TokensOfOneJar,
         RotationsAreAnswered, NEW p \in Tabs, Mint(p), UNCHANGED world
  PROVE  RotationsAreAnswered'
<1>1. /\ tok[p] \in Tokens /\ issued + 1 \in Tokens /\ issued \in Nat
      /\ answer' = [answer EXCEPT ![p] = issued + 1] /\ cookie' = cookie
      /\ \A t \in Tokens : replaced'[t] = replaced[t] \/ t = tok[p]
  BY MintFacts, Numbers
<1>2. answer \in [Tabs -> {None} \cup Tokens] /\ cookie \in [Browsers -> {None} \cup Tokens]
  BY DEF TypeOK
<1>3. issued + 1 # None /\ tok[p] # None
  BY <1>1 DEF Tokens, None
<1> SUFFICES ASSUME NEW b \in Browsers, cookie[b] # None, replaced'[cookie[b]] # None
             PROVE  \E q \in Tabs : jar[q] = b /\ answer'[q] # None
  BY <1>1 DEF RotationsAreAnswered, jar
<1>4. CASE cookie[b] = tok[p]
  <2>1. jar[p] = b
    BY <1>3, <1>4 DEF TokensOfOneJar
  <2> QED
    BY <1>1, <1>2, <1>3, <2>1
<1>5. CASE cookie[b] # tok[p]
  <2>1. replaced[cookie[b]] # None
    BY <1>1, <1>2, <1>5
  <2>2. PICK q \in Tabs : jar[q] = b /\ answer[q] # None
    BY <2>1 DEF RotationsAreAnswered
  <2> QED
    BY <1>1, <1>2, <1>3, <2>2
<1> QED
  BY <1>4, <1>5

\* A token that is rotated is rotated now.
LEMMA MintIsRecent ==
  ASSUME world \in Worlds, TypeOK, RequestsPresent, LinksAreStored, RotationsAreRecent,
         NEW p \in Tabs, Mint(p)
  PROVE  RotationsAreRecent'
<1>1. /\ cookie' = cookie /\ tok' = tok /\ now' = now
      /\ \A t \in Tokens : \/ replaced'[t] = replaced[t] /\ revoked'[t] = revoked[t]
                           \/ t = tok[p] /\ revoked'[t] = now
  BY MintFacts
<1>2. cookie \in [Browsers -> {None} \cup Tokens] /\ tok \in [Tabs -> {None} \cup Tokens]
  BY DEF TypeOK
<1> QED
  BY <1>1, <1>2 DEF RotationsAreRecent, Rotated

\* A token is presented by the browser it was handed to.
LEMMA JarStep ==
  ASSUME world \in Worlds, TypeOK, RequestsPresent, LinksAreStored, TokensOfOneJar, AnswersAreNew, Step, UNCHANGED world
  PROVE  TokensOfOneJar'
<1> USE WorldFacts, Numbers DEF TypeOK, RequestsPresent, TokensOfOneJar, AnswersAreNew,
      table, request, None, jar
<1>1. ASSUME NEW b \in Browsers, Login(b) PROVE TokensOfOneJar'
  BY <1>1 DEF Login
<1>2. ASSUME NEW p \in Tabs, Serve(p) PROVE TokensOfOneJar'
  <2>1. CASE ReadRefresh(p)
    BY <2>1 DEF ReadRefresh, Goto
  <2>2. CASE Mint(p)
    BY <2>2, MintFacts
  <2>3. CASE RevokeAll(p)
    BY <2>3 DEF RevokeAll, RevokeSeen, Goto
  <2>4. CASE ReadOther(p)
    BY <2>4 DEF ReadOther, Goto
  <2>5. CASE Logout(p)
    BY <2>5 DEF Logout, Close
  <2>6. CASE ChangePassword(p)
    BY <2>6 DEF ChangePassword
  <2>7. CASE Receive(p)
    BY <2>7 DEF Receive, Close
  <2>8. CASE Lose(p)
    BY <2>8 DEF Lose, Close
  <2> QED
    BY <1>2, <2>1, <2>2, <2>3, <2>4, <2>5, <2>6, <2>7, <2>8 DEF Serve
<1>3. ASSUME NEW p \in Tabs, NEW k \in AllKinds, Send(p, k) PROVE TokensOfOneJar'
  BY <1>3 DEF Send, Goto
<1>4. CASE Tick
  BY <1>4 DEF Tick
<1>5. CASE SetActive
  BY <1>5 DEF SetActive
<1> QED
  BY <1>1, <1>2, <1>3, <1>4, <1>5 DEF Step

\* An answer carries a token that was issued for it.
LEMMA NewStep ==
  ASSUME world \in Worlds, TypeOK, RequestsPresent, LinksAreStored, TokensOfOneJar, AnswersAreNew, Step, UNCHANGED world
  PROVE  AnswersAreNew'
<1> USE WorldFacts, BoundsAssumption DEF TypeOK, RequestsPresent, LinksAreStored, TokensOfOneJar, AnswersAreNew,
      table, request, Tokens, None, jar
<1>1. ASSUME NEW b \in Browsers, Login(b) PROVE AnswersAreNew'
  BY <1>1 DEF Login, Insert
<1>2. ASSUME NEW p \in Tabs, Serve(p) PROVE AnswersAreNew'
  <2>1. CASE ReadRefresh(p)
    BY <2>1 DEF ReadRefresh, Goto
  <2>2. CASE Mint(p)
    <3>1. /\ tok[p] \in Tokens /\ tok[p] <= issued /\ issued' = issued + 1
          /\ answer' = [answer EXCEPT ![p] = issued + 1] /\ UNCHANGED <<cookie, tok>>
          /\ replaced'[issued + 1] = None
          /\ \A t \in Tokens : replaced'[t] = replaced[t] \/ t = tok[p]
      BY ONLY world \in Worlds, TypeOK, RequestsPresent, LinksAreStored, p \in Tabs, <2>2, MintFacts
    <3> QED
      BY ONLY TypeOK, LinksAreStored, TokensOfOneJar, AnswersAreNew, p \in Tabs, IssueIsNew, <3>1
  <2>3. CASE RevokeAll(p)
    BY <2>3 DEF RevokeAll, RevokeSeen, Goto
  <2>4. CASE ReadOther(p)
    BY <2>4 DEF ReadOther, Goto
  <2>5. CASE Logout(p)
    BY <2>5 DEF Logout, Close
  <2>6. CASE ChangePassword(p)
    <3>1. /\ issued' = issued + 1 /\ answer' = [answer EXCEPT ![p] = issued + 1]
          /\ UNCHANGED <<cookie, tok, replaced>>
      BY <2>6 DEF ChangePassword
    <3>2. tok[p] \in Tokens /\ tok[p] <= issued /\ issued + 1 \in Tokens
      BY <2>6 DEF ChangePassword
    <3> QED
      BY ONLY TypeOK, LinksAreStored, TokensOfOneJar, AnswersAreNew, Numbers, IssueIsNew, <3>1, <3>2
  <2>7. CASE Receive(p)
    BY <2>7 DEF Receive, Close
  <2>8. CASE Lose(p)
    BY <2>8 DEF Lose, Close
  <2> QED
    BY <1>2, <2>1, <2>2, <2>3, <2>4, <2>5, <2>6, <2>7, <2>8 DEF Serve
<1>3. ASSUME NEW p \in Tabs, NEW k \in AllKinds, Send(p, k) PROVE AnswersAreNew'
  BY <1>3 DEF Send, Goto
<1>4. CASE Tick
  BY <1>4 DEF Tick
<1>5. CASE SetActive
  BY <1>5 DEF SetActive
<1> QED
  BY <1>1, <1>2, <1>3, <1>4, <1>5 DEF Step

\* The request that rotates the token of a browser is going to answer it.
LEMMA AnsweredStep ==
  ASSUME world \in Worlds, TypeOK, RequestsPresent, LinksAreStored, TokensOfOneJar, AnswersAreNew,
         RotationsAreAnswered, Without({"lost"}), Step, UNCHANGED world
  PROVE  RotationsAreAnswered'
<1> USE BoundsAssumption, WorldFacts DEF TypeOK, RequestsPresent, LinksAreStored, TokensOfOneJar, AnswersAreNew,
      RotationsAreAnswered, table, request, Tokens, None, jar, Without
<1>1. ASSUME NEW b \in Browsers, Login(b) PROVE RotationsAreAnswered'
  <2>1. /\ issued + 1 \in Tokens /\ replaced[issued + 1] = None
        /\ cookie' = [cookie EXCEPT ![b] = issued + 1] /\ UNCHANGED <<replaced, answer>>
    BY <1>1, LoginFacts
  <2>2. cookie \in [Browsers -> {None} \cup Tokens]
    BY DEF TypeOK
  <2>3. \A c \in Browsers : cookie'[c] = cookie[c] \/ replaced[cookie'[c]] = None
    BY ONLY <2>1, <2>2
  <2>4. jar' = jar
    BY DEF jar
  <2> QED
    BY ONLY <2>1, <2>3, <2>4, RotationsAreAnswered DEF RotationsAreAnswered
<1>2. ASSUME NEW p \in Tabs, Serve(p) PROVE RotationsAreAnswered'
  <2>1. CASE ReadRefresh(p)
    BY <2>1 DEF ReadRefresh, Goto
  <2>2. CASE Mint(p)
    BY <2>2, MintIsAnswered
  <2>3. CASE RevokeAll(p)
    BY <2>3 DEF RevokeAll, RevokeSeen, Goto
  <2>4. CASE ReadOther(p)
    BY <2>4 DEF ReadOther, Goto
  <2>5. CASE Logout(p)
    BY <2>5 DEF Logout, Close
  <2>6. CASE ChangePassword(p)
    BY <2>6 DEF ChangePassword, Insert, RevokeSeen, Goto
  <2>7. CASE Receive(p)
    BY <2>7 DEF Receive, Close
  <2>8. CASE Lose(p)
    BY <2>8 DEF Lose, Close
  <2> QED
    BY <1>2, <2>1, <2>2, <2>3, <2>4, <2>5, <2>6, <2>7, <2>8 DEF Serve
<1>3. ASSUME NEW p \in Tabs, NEW k \in AllKinds, Send(p, k) PROVE RotationsAreAnswered'
  BY <1>3 DEF Send, Goto
<1>4. CASE Tick
  BY <1>4 DEF Tick
<1>5. CASE SetActive
  BY <1>5 DEF SetActive
<1> QED
  BY <1>1, <1>2, <1>3, <1>4, <1>5 DEF Step

\* Tokens that are revoked now, forgotten or handed out are no old rotations.
LEMMA RecentKept ==
  ASSUME RotationsAreRecent, UNCHANGED <<now, replaced>>,
         cookie \in [Browsers -> {None} \cup Tokens], tok \in [Tabs -> {None} \cup Tokens],
         \A t \in Tokens : revoked'[t] \in {revoked[t], now},
         \A b \in Browsers : cookie'[b] \in {None, cookie[b]}
                              \/ (cookie'[b] \in Tokens /\ replaced[cookie'[b]] = None),
         \A p \in Tabs : tok'[p] \in {None, tok[p]}
  PROVE  RotationsAreRecent'
BY DEF RotationsAreRecent, Rotated

\* Time passes when every answer has arrived.
LEMMA RecentStep ==
  ASSUME world \in Worlds, TypeOK, RequestsPresent, LinksAreStored, TokensOfOneJar, AnswersAreNew,
         RotationsAreAnswered, RotationsAreRecent, Without({"lost"}), Step, UNCHANGED world
  PROVE  RotationsAreRecent'
<1> USE BoundsAssumption, WorldFacts DEF TypeOK, RequestsPresent, LinksAreStored, TokensOfOneJar, AnswersAreNew,
      RotationsAreAnswered, RotationsAreRecent, Rotated, table, request, Tokens, None, jar, Without
<1>0. cookie \in [Browsers -> {None} \cup Tokens] /\ tok \in [Tabs -> {None} \cup Tokens]
  BY DEF TypeOK
<1>1. ASSUME NEW b \in Browsers, Login(b) PROVE RotationsAreRecent'
  <2>1. /\ issued + 1 \in Tokens /\ replaced[issued + 1] = None
        /\ cookie' = [cookie EXCEPT ![b] = issued + 1] /\ UNCHANGED <<now, revoked, replaced, tok>>
    BY <1>1, LoginFacts
  <2> QED
    BY ONLY RotationsAreRecent, RecentKept, <1>0, <2>1
<1>2. ASSUME NEW p \in Tabs, Serve(p) PROVE RotationsAreRecent'
  <2>1. CASE ReadRefresh(p)
    BY <2>1 DEF ReadRefresh, Goto
  <2>2. CASE Mint(p)
    BY <2>2, MintIsRecent
  <2>3. CASE RevokeAll(p)
    <3>1. UNCHANGED <<now, cookie, tok, replaced>>
      BY <2>3 DEF RevokeAll
    <3>2. \A t \in Tokens : revoked'[t] \in {revoked[t], now}
      BY <2>3 DEF RevokeAll, RevokeSeen
    <3> QED
      BY <3>1, <3>2
  <2>4. CASE ReadOther(p)
    BY <2>4 DEF ReadOther, Goto
  <2>5. CASE Logout(p)
    <3>1. /\ UNCHANGED <<now, replaced>>
          /\ cookie' = [cookie EXCEPT ![jar[p]] = None] /\ tok' = [tok EXCEPT ![p] = None]
      BY <2>5 DEF Logout, Close
    <3>2. \A t \in Tokens : revoked'[t] \in {revoked[t], now}
      BY <2>5 DEF Logout
    <3> QED
      BY ONLY RotationsAreRecent, RecentKept, <1>0, <3>1, <3>2
  <2>6. CASE ChangePassword(p)
    BY <2>6 DEF ChangePassword, Insert, RevokeSeen, Goto
  <2>7. CASE Receive(p)
    <3>1. /\ UNCHANGED <<now, replaced, revoked>> /\ tok' = [tok EXCEPT ![p] = None]
          /\ cookie' = [cookie EXCEPT ![jar[p]] = IF answer[p] = None THEN @ ELSE answer[p]]
      BY <2>7 DEF Receive, Close
    <3>2. answer[p] # None => answer[p] \in Tokens /\ replaced[answer[p]] = None
      BY DEF TypeOK, AnswersAreNew
    <3> QED
      BY ONLY RotationsAreRecent, RecentKept, <1>0, <3>1, <3>2
  <2>8. CASE Lose(p)
    BY <2>8 DEF Lose, Close
  <2> QED
    BY <1>2, <2>1, <2>2, <2>3, <2>4, <2>5, <2>6, <2>7, <2>8 DEF Serve
<1>3. ASSUME NEW p \in Tabs, NEW k \in AllKinds, Send(p, k) PROVE RotationsAreRecent'
  BY <1>3 DEF Send, Goto
<1>4. CASE Tick
  BY <1>4 DEF Tick
<1>5. CASE SetActive
  BY <1>5 DEF SetActive
<1> QED
  BY <1>1, <1>2, <1>3, <1>4, <1>5 DEF Step

\* So no token is ever replayed.
LEMMA NoAlarmStep ==
  ASSUME TypeOK, RequestsPresent, RotationsAreRecent, NoAlarm, Step, UNCHANGED world
  PROVE  NoAlarm'
<1> USE BoundsAssumption DEF TypeOK, RequestsPresent, RotationsAreRecent, NoAlarm, Rotated, Replayed,
      table, request, Tokens, None, Times
<1>1. ASSUME NEW b \in Browsers, Login(b) PROVE NoAlarm'
  BY <1>1 DEF Login, Insert
<1>2. ASSUME NEW p \in Tabs, Serve(p) PROVE NoAlarm'
  <2>1. CASE ReadRefresh(p)
    <3>1. tok[p] \in Tokens /\ tok[p] # None
      BY <2>1 DEF ReadRefresh
    <3>2. ~Replayed(tok[p])
      BY <3>1
    <3>3. \A q \in Tabs : phase'[q] = phase[q] \/ phase'[q] # "revoking"
      BY <2>1, <3>2 DEF ReadRefresh, Goto
    <3> QED
      BY <2>1, <3>3 DEF ReadRefresh
  <2>2. CASE Mint(p)
    BY <2>2 DEF Mint, Insert, Goto
  <2>3. CASE RevokeAll(p)
    BY <2>3 DEF RevokeAll, RevokeSeen, Goto
  <2>4. CASE ReadOther(p)
    BY <2>4 DEF ReadOther, Goto
  <2>5. CASE Logout(p)
    BY <2>5 DEF Logout, Close
  <2>6. CASE ChangePassword(p)
    BY <2>6 DEF ChangePassword, Insert, RevokeSeen, Goto
  <2>7. CASE Receive(p)
    BY <2>7 DEF Receive, Close
  <2>8. CASE Lose(p)
    BY <2>8 DEF Lose, Close
  <2> QED
    BY <1>2, <2>1, <2>2, <2>3, <2>4, <2>5, <2>6, <2>7, <2>8 DEF Serve
<1>3. ASSUME NEW p \in Tabs, NEW k \in AllKinds, Send(p, k) PROVE NoAlarm'
  BY <1>3 DEF Send, Goto
<1>4. CASE Tick
  BY <1>4 DEF Tick
<1>5. CASE SetActive
  BY <1>5 DEF SetActive
<1> QED
  BY <1>1, <1>2, <1>3, <1>4, <1>5 DEF Step
--------------------------------------------------------------------------------

\* The invariant of the table, and what it supports where requests follow each other
\* and where answers arrive.
TokensInv == TableInv /\ KillInv /\ AlarmInv

LEMMA TokensInit == Init => TokensInv
<1> SUFFICES ASSUME Init PROVE TokensInv
  OBVIOUS
<1>1. TableInv
  BY TableInit
<1>2. KillInv
  BY DEF Init, KillInv, Serial, Serving, SeenIsLive, NoLogout, DeadStayDead
<1>3. AlarmInv
  BY DEF Init, AlarmInv, TokensOfOneJar, AnswersAreNew, RotationsAreAnswered,
         RotationsAreRecent, NoAlarm, None
<1> QED
  BY <1>1, <1>2, <1>3 DEF TokensInv

LEMMA TokensStep == TokensInv /\ [Next]_allVars => TokensInv'
<1> SUFFICES ASSUME TokensInv, [Next]_allVars PROVE TokensInv'
  OBVIOUS
<1>1. CASE Step /\ UNCHANGED world
  <2>1. world \in Worlds /\ TypeOK /\ RequestsPresent /\ LinksAreStored
    BY DEF TokensInv, TableInv
  <2>2. TableInv'
    BY <1>1, <2>1, TypeStep, PresentStep, LinksStep DEF TableInv
  <2>3. ASSUME Without({"overlap", "logout"})'
        PROVE  (Serial /\ SeenIsLive /\ NoLogout /\ DeadStayDead)'
    <3>1. Without({"overlap", "logout"})
      BY <1>1, <2>3 DEF Without, env
    <3>2. Serial /\ SeenIsLive /\ NoLogout /\ DeadStayDead
      BY <3>1 DEF TokensInv, KillInv
    <3> QED
      BY <1>1, <2>1, <3>1, <3>2, SerialStep, SeenStep, NoLogoutStep, DeadStep
  <2>4. ASSUME Without({"lost"})'
        PROVE  /\ TokensOfOneJar' /\ AnswersAreNew' /\ RotationsAreAnswered'
               /\ RotationsAreRecent' /\ NoAlarm'
    <3>1. Without({"lost"})
      BY <1>1, <2>4 DEF Without, env
    <3>2. /\ TokensOfOneJar /\ AnswersAreNew /\ RotationsAreAnswered
          /\ RotationsAreRecent /\ NoAlarm
      BY <3>1 DEF TokensInv, AlarmInv
    <3> QED
      BY <1>1, <2>1, <3>1, <3>2, JarStep, NewStep, AnsweredStep, RecentStep, NoAlarmStep
  <2> QED
    BY <2>2, <2>3, <2>4 DEF TokensInv, KillInv, AlarmInv
<1>2. CASE UNCHANGED allVars
  <2> USE <1>2 DEF allVars, vars, table, request
  <2>1. TableInv'
    BY DEF TokensInv, TableInv, TypeOK, RequestsPresent, LinksAreStored, env
  <2>2. KillInv'
    BY DEF TokensInv, KillInv, Without, env, Serial, SeenIsLive, LiveTokens, NoLogout, DeadStayDead
  <2>3. AlarmInv'
    BY DEF TokensInv, AlarmInv, Without, env, jar, TokensOfOneJar, AnswersAreNew,
           RotationsAreAnswered, RotationsAreRecent, Rotated, NoAlarm
  <2> QED
    BY <2>1, <2>2, <2>3 DEF TokensInv
<1> QED
  BY <1>1, <1>2 DEF Next

LEMMA TokensInvariant == Spec => []TokensInv
BY TokensInit, TokensStep, PTL DEF Spec

--------------------------------------------------------------------------------

\* The type invariant of the token table, the cookies and the requests, in every
\* environment.
THEOREM TokensTyped == Spec => []TypeOK
<1>1. TokensInv => TypeOK
  BY DEF TokensInv, TableInv
<1> QED
  BY <1>1, TokensInvariant, PTL

\* _revoke_all_for_user, in change_own_password and in reuse detection: the tokens of
\* the sessions it ended are revoked and stay so, where requests follow each other.
THEOREM EndedIsRevoked == Spec => []KilledIsRevoked
<1>1. TokensInv => KilledIsRevoked
  BY DEF TokensInv, KillInv, KilledIsRevoked, OthersAreKickedOut, DeadStayDead
<1> QED
  BY <1>1, TokensInvariant, PTL

\* rotate_refresh_token with _chain_is_live: no token is ever minted from one of an
\* ended session, for any grace window and any number of hops.
THEOREM EndedStaysEnded == Spec => KilledStaysKilled
<1>1. TokensInv /\ [Next]_allVars =>
        [Without({"overlap", "logout"}) => \A t \in stored' \ stored : origin'[t] \notin killed]_vars
  <2> SUFFICES ASSUME TokensInv, Step, Without({"overlap", "logout"}),
                      NEW t \in stored' \ stored
               PROVE  origin'[t] \notin killed
    BY DEF Next, allVars
  <2> USE DEF table
  <2>1. /\ world \in Worlds /\ TypeOK /\ RequestsPresent /\ DeadStayDead /\ NoLogout
        /\ None \notin killed
    BY DEF TokensInv, TableInv, KillInv, TypeOK, Tokens, None
  <2>2. ASSUME NEW s, NEW from, from \notin killed, NEW until, issued + 1 \in Tokens,
               Insert(issued + 1, s, from, until)
        PROVE  origin'[t] \notin killed
    BY <2>1, <2>2 DEF Insert, TypeOK
  <2>3. issued < world.tokens => issued + 1 \in Tokens
    BY <2>1, WorldFacts, BoundsAssumption DEF TypeOK, Tokens
  <2>4. ASSUME NEW b \in Browsers, Login(b) PROVE origin'[t] \notin killed
    BY <2>1, <2>2, <2>3, <2>4 DEF Login
  <2>5. ASSUME NEW p \in Tabs, Serve(p) PROVE origin'[t] \notin killed
    <3>1. CASE ReadRefresh(p) \/ RevokeAll(p) \/ ReadOther(p) \/ Logout(p) \/ Receive(p) \/ Lose(p)
      BY <3>1 DEF ReadRefresh, RevokeAll, ReadOther, Logout, Receive, Lose
    <3>2. CASE Mint(p)
      <4>1. tok[p] \notin killed
        BY <2>1, <3>2 DEF Mint, DeadStayDead
      <4>2. "commits" \in env
        BY <3>2 DEF Mint
      <4> QED
        BY <2>2, <2>3, <3>2, <4>1, <4>2 DEF Mint
    <3>3. CASE ChangePassword(p)
      BY <2>1, <2>2, <2>3, <3>3 DEF ChangePassword
    <3> QED
      BY <2>5, <3>1, <3>2, <3>3 DEF Serve
  <2>6. ASSUME NEW p \in Tabs, NEW k \in AllKinds, Send(p, k) PROVE FALSE
    BY <2>6 DEF Send
  <2>7. CASE Tick \/ SetActive
    BY <2>7 DEF Tick, SetActive
  <2> QED
    BY <2>4, <2>5, <2>6, <2>7 DEF Step
<1> QED
  BY <1>1, TokensInvariant, PTL DEF Spec, KilledStaysKilled

\* Replayed: tabs that refresh with the same cookie, log out or change the password at
\* the same time are never taken for a theft, as long as answers arrive.
THEOREM NoTheftSuspected == Spec => []NoFalseAlarm
<1>1. TokensInv => NoFalseAlarm
  BY DEF TokensInv, AlarmInv, NoFalseAlarm, NoAlarm
<1> QED
  BY <1>1, TokensInvariant, PTL

================================================================================
