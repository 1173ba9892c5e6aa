----------------------------- MODULE UfwRulesProofs -----------------------------
(***************************************************************************)
(* Proofs about UfwRules, for every finite set of rules, every position,   *)
(* policy and number of requests.                                          *)
(***************************************************************************)
EXTENDS UfwRules, FiniteSetTheorems, SequenceTheorems, WellFoundedInduction, TLAPS

--------------------------------------------------------------------------------
(* Sequences of rules *)

\* No element occurs twice.
Distinct(s) == \A i, j \in 1 .. Len(s) : i # j => s[i] # s[j]

\* A non-empty set of numbers has its minimum.
LEMMA MinOfNats ==
    ASSUME NEW I, I \subseteq Nat, I # {}
    PROVE  Min(I) \in I
<1> DEFINE R == {ss \in Nat \X Nat : ss[1] < ss[2]}
<1>1. IsWellFoundedOn(R, Nat)
    BY NatLessThanWellFounded DEF OpToRel
<1> HIDE DEF R
<1>2. PICK x \in I : \A y \in I : ~(<<y, x>> \in R)
    BY <1>1, WFMin
<1>3. ASSUME NEW y \in I PROVE x <= y
    <2>1. ~(<<y, x>> \in R)
        BY <1>2
    <2> QED BY <2>1 DEF R
<1> QED BY <1>3 DEF Min

\* FirstIn is the place of an element of M, or 0 when no element is in M.
LEMMA FirstInFacts ==
    ASSUME NEW S, NEW s \in Seq(S), NEW M
    PROVE  \/ FirstIn(s, M) = 0 /\ \A k \in 1 .. Len(s) : s[k] \notin M
           \/ FirstIn(s, M) \in 1 .. Len(s) /\ s[FirstIn(s, M)] \in M
<1> DEFINE I == {k \in 1 .. Len(s) : s[k] \in M}
<1>1. FirstIn(s, M) = IF I # {} THEN Min(I) ELSE 0
    BY DEF FirstIn, SelectInSeq
<1>2. I \subseteq Nat
    OBVIOUS
<1>3. CASE I = {}
    BY <1>1, <1>3
<1>4. CASE I # {}
    <2>1. FirstIn(s, M) \in I
        BY <1>1, <1>2, <1>4, MinOfNats
    <2> QED BY <2>1
<1> QED BY <1>3, <1>4

\* What inserting an element at a place of a sequence yields.
LEMMA InsertAtFacts ==
    ASSUME NEW S, NEW s \in Seq(S), NEW i \in 1 .. Len(s), NEW e \in S
    PROVE  /\ InsertAt(s, i, e) \in Seq(S)
           /\ Len(InsertAt(s, i, e)) = Len(s) + 1
           /\ \A k \in 1 .. Len(s) + 1 :
                InsertAt(s, i, e)[k] = IF k < i THEN s[k] ELSE IF k = i THEN e ELSE s[k - 1]
<1> DEFINE a == SubSeq(s, 1, i - 1)
           b == SubSeq(s, i, Len(s))
           c == a \o <<e>>
<1>1. a \in Seq(S) /\ Len(a) = i - 1 /\ \A k \in 1 .. i - 1 : a[k] = s[k]
    OBVIOUS
<1>2. b \in Seq(S) /\ Len(b) = Len(s) - i + 1 /\ \A k \in 1 .. Len(s) - i + 1 : b[k] = s[i + k - 1]
    <2>1. \A k \in i .. Len(s) : s[k] \in S
        OBVIOUS
    <2>2. /\ b \in Seq(S)
          /\ Len(b) = IF i <= Len(s) THEN Len(s) - i + 1 ELSE 0
          /\ \A k \in 1 .. Len(s) - i + 1 : b[k] = s[i + k - 1]
        BY <2>1, SubSeqProperties, i \in Int, Len(s) \in Int
    <2> HIDE DEF b
    <2> QED BY <2>2
<1> HIDE DEF a, b
<1>3. /\ c \in Seq(S) /\ Len(c) = i
      /\ \A k \in 1 .. i : c[k] = IF k < i THEN s[k] ELSE e
    <2>1. <<e>> \in Seq(S) /\ Len(<<e>>) = 1 /\ <<e>>[1] = e
        OBVIOUS
    <2>2. /\ c \in Seq(S) /\ Len(c) = Len(a) + Len(<<e>>)
          /\ \A k \in 1 .. Len(a) + Len(<<e>>) :
               c[k] = IF k <= Len(a) THEN a[k] ELSE <<e>>[k - Len(a)]
        BY <1>1, <2>1, ConcatProperties
    <2> HIDE DEF c
    <2> QED BY <1>1, <2>1, <2>2
<1> HIDE DEF c
<1>4. /\ c \o b \in Seq(S) /\ Len(c \o b) = Len(c) + Len(b)
      /\ \A k \in 1 .. Len(c) + Len(b) :
           (c \o b)[k] = IF k <= Len(c) THEN c[k] ELSE b[k - Len(c)]
    BY <1>2, <1>3, ConcatProperties
<1>5. Len(s) \in Nat /\ i + (Len(s) - i + 1) = Len(s) + 1
    OBVIOUS
<1>6. ASSUME NEW k \in 1 .. Len(s) + 1
      PROVE  (c \o b)[k] = IF k < i THEN s[k] ELSE IF k = i THEN e ELSE s[k - 1]
    <2>1. CASE k <= i
        BY <1>2, <1>3, <1>4, <1>5, <2>1
    <2>2. CASE k > i
        <3>1. k - i \in 1 .. Len(s) - i + 1 /\ i + (k - i) - 1 = k - 1
            BY <1>5, <2>2
        <3>2. k \in 1 .. Len(c) + Len(b) /\ ~(k <= Len(c))
            BY <1>2, <1>3, <1>5, <2>2
        <3>3. (c \o b)[k] = b[k - Len(c)]
            BY <1>4, <3>2
        <3>4. (c \o b)[k] = b[k - i]
            BY <1>3, <3>3
        <3>5. b[k - i] = s[i + (k - i) - 1]
            BY <1>2, <3>1
        <3>6. (c \o b)[k] = s[k - 1]
            BY <3>1, <3>4, <3>5
        <3> QED BY <2>2, <3>6
    <2>3. k <= i \/ k > i
        BY <1>5
    <2> QED BY <2>1, <2>2, <2>3
<1> QED BY <1>2, <1>3, <1>4, <1>5, <1>6 DEF InsertAt, a, b, c

\* What removing the element at a place yields.
LEMMA RemoveAtFacts ==
    ASSUME NEW S, NEW s \in Seq(S), NEW i \in 1 .. Len(s)
    PROVE  /\ RemoveAt(s, i) \in Seq(S)
           /\ Len(RemoveAt(s, i)) = Len(s) - 1
           /\ \A k \in 1 .. Len(s) - 1 :
                RemoveAt(s, i)[k] = IF k < i THEN s[k] ELSE s[k + 1]
<1> DEFINE a == SubSeq(s, 1, i - 1)
           b == SubSeq(s, i + 1, Len(s))
<1>1. a \in Seq(S) /\ Len(a) = i - 1 /\ \A k \in 1 .. i - 1 : a[k] = s[k]
    OBVIOUS
<1>2. b \in Seq(S) /\ Len(b) = Len(s) - i /\ \A k \in 1 .. Len(s) - i : b[k] = s[i + k]
    <2>1. \A k \in i + 1 .. Len(s) : s[k] \in S
        OBVIOUS
    <2>2. /\ b \in Seq(S)
          /\ Len(b) = IF i + 1 <= Len(s) THEN Len(s) - (i + 1) + 1 ELSE 0
          /\ \A k \in 1 .. Len(s) - (i + 1) + 1 : b[k] = s[i + 1 + k - 1]
        BY <2>1, SubSeqProperties, i + 1 \in Int, Len(s) \in Int
    <2> HIDE DEF b
    <2> QED BY <2>2
<1> HIDE DEF a, b
<1>3. a \o b \in Seq(S) /\ Len(a \o b) = Len(s) - 1
    <2>1. a \o b \in Seq(S) /\ Len(a \o b) = Len(a) + Len(b)
        BY <1>1, <1>2, ConcatProperties
    <2>2. Len(s) \in Nat /\ (i - 1) + (Len(s) - i) = Len(s) - 1
        OBVIOUS
    <2> QED BY <1>1, <1>2, <2>1, <2>2
<1>4. ASSUME NEW k \in 1 .. Len(s) - 1
      PROVE  (a \o b)[k] = IF k < i THEN s[k] ELSE s[k + 1]
    <2>1. CASE k < i
        BY <1>1, <1>2, <2>1
    <2>2. CASE ~(k < i)
        <3>1. (a \o b)[k] = b[k - (i - 1)]
            BY <1>1, <1>2, <2>2
        <3>2. k - (i - 1) \in 1 .. Len(s) - i /\ i + (k - (i - 1)) = k + 1
            BY <2>2
        <3> QED BY <1>2, <2>2, <3>1, <3>2
    <2> QED BY <2>1, <2>2
<1> QED BY <1>3, <1>4 DEF RemoveAt, a, b

\* Contains and ToSet say the same.
LEMMA ContainsIsIn ==
    ASSUME NEW S, NEW s \in Seq(S), NEW e
    PROVE  Contains(s, e) <=> e \in ToSet(s)
BY DEF Contains, ToSet

\* An insertion adds the rule, at the position or at the end, and keeps the others.
LEMMA InsertedFacts ==
    ASSUME NEW rs \in Seq(Rules), NEW r \in Rules, NEW pos \in Nat
    PROVE  /\ Inserted(rs, r, pos) \in Seq(Rules)
           /\ Len(Inserted(rs, r, pos)) = Len(rs) + 1
           /\ ToSet(Inserted(rs, r, pos)) = ToSet(rs) \cup {r}
           /\ Distinct(rs) /\ r \notin ToSet(rs) => Distinct(Inserted(rs, r, pos))
<1> DEFINE n == Len(rs)
           p == IF pos = None \/ pos > n THEN n + 1 ELSE pos
           t == Inserted(rs, r, pos)
<1>1. n \in Nat /\ p \in 1 .. n + 1
    BY DEF None
<1>2. /\ t \in Seq(Rules) /\ Len(t) = n + 1
      /\ \A k \in 1 .. n + 1 : t[k] = IF k < p THEN rs[k] ELSE IF k = p THEN r ELSE rs[k - 1]
    <2>1. CASE pos = None \/ pos > n
        BY <2>1 DEF Inserted
    <2>2. CASE ~(pos = None \/ pos > n)
        <3>1. pos \in 1 .. Len(rs)
            BY <2>2 DEF None
        <3> QED BY <2>2, <3>1, InsertAtFacts DEF Inserted
    <2> QED BY <2>1, <2>2
<1> HIDE DEF p, t
<1>3. ToSet(t) = ToSet(rs) \cup {r}
    <2>1. ASSUME NEW k \in 1 .. n + 1 PROVE t[k] \in ToSet(rs) \cup {r}
        <3>1. k < p => k \in 1 .. n /\ t[k] = rs[k]
            BY <1>1, <1>2
        <3>2. k > p => k - 1 \in 1 .. n /\ t[k] = rs[k - 1]
            BY <1>1, <1>2
        <3>3. k = p => t[k] = r
            BY <1>1, <1>2
        <3>4. k < p \/ k > p \/ k = p
            BY <1>1
        <3> QED BY <3>1, <3>2, <3>3, <3>4 DEF ToSet
    <2>2. ASSUME NEW k \in 1 .. n PROVE rs[k] \in ToSet(t)
        <3>1. CASE k < p
            BY <1>1, <1>2, <3>1 DEF ToSet
        <3>2. CASE ~(k < p)
            <4>1. k + 1 \in 1 .. n + 1 /\ t[k + 1] = rs[k]
                BY <1>1, <1>2, <3>2
            <4> QED BY <1>2, <4>1 DEF ToSet
        <3> QED BY <3>1, <3>2
    <2>3. r \in ToSet(t)
        BY <1>1, <1>2 DEF ToSet
    <2>4. DOMAIN rs = 1 .. n /\ DOMAIN t = 1 .. n + 1
        BY <1>2
    <2>5. ToSet(t) \subseteq ToSet(rs) \cup {r}
        BY <2>1, <2>4 DEF ToSet
    <2>6. ToSet(rs) \subseteq ToSet(t)
        BY <2>2, <2>4 DEF ToSet
    <2> QED BY <2>3, <2>5, <2>6
<1>4. ASSUME Distinct(rs), r \notin ToSet(rs) PROVE Distinct(t)
    <2>1. \A k \in 1 .. n : rs[k] # r
        BY <1>4 DEF ToSet
    <2> SUFFICES ASSUME NEW i \in 1 .. n + 1, NEW j \in 1 .. n + 1, i # j
                 PROVE  t[i] # t[j]
        BY <1>2 DEF Distinct
    <2> DEFINE u(k) == IF k < p THEN k ELSE k - 1
    <2>2. ASSUME NEW k \in 1 .. n + 1, k # p PROVE u(k) \in 1 .. n /\ t[k] = rs[u(k)]
        BY <1>1, <1>2, <2>2
    <2>3. ASSUME NEW k \in 1 .. n + 1, k # p PROVE t[k] # r
        <3> HIDE DEF u
        <3> QED BY <2>1, <2>2, <2>3
    <2>4. t[p] = r
        BY <1>1, <1>2
    <2>5. CASE i = p \/ j = p
        BY <2>3, <2>4, <2>5
    <2>6. CASE i # p /\ j # p
        <3>1. u(i) # u(j)
            BY <1>1, <2>6
        <3> HIDE DEF u
        <3> QED BY <1>4, <2>2, <2>6, <3>1 DEF Distinct
    <2> QED BY <2>5, <2>6
<1> QED BY <1>2, <1>3, <1>4 DEF t

\* A deletion leaves the rule out and keeps the others.
LEMMA DeletedFacts ==
    ASSUME NEW rs \in Seq(Rules), Distinct(rs), NEW r
    PROVE  /\ Deleted(rs, r) \in Seq(Rules)
           /\ Distinct(Deleted(rs, r))
           /\ ToSet(Deleted(rs, r)) = ToSet(rs) \ {r}
           /\ Contains(rs, r) => Len(Deleted(rs, r)) = Len(rs) - 1
<1>1. CASE ~Contains(rs, r)
    BY <1>1, ContainsIsIn DEF Deleted
<1>2. CASE Contains(rs, r)
    <2> DEFINE n == Len(rs)
               i == FirstIn(rs, {r})
               t == Deleted(rs, r)
    <2>1. i \in 1 .. n /\ rs[i] = r
        BY <1>2, FirstInFacts DEF Contains
    <2>2. /\ t \in Seq(Rules) /\ Len(t) = n - 1
          /\ \A k \in 1 .. n - 1 : t[k] = IF k < i THEN rs[k] ELSE rs[k + 1]
        BY <1>2, <2>1, RemoveAtFacts DEF Deleted
    <2> HIDE DEF i, t
    <2>3. n \in Nat /\ DOMAIN rs = 1 .. n /\ DOMAIN t = 1 .. n - 1
        BY <2>2
    <2>4. \A k \in 1 .. n : k # i => rs[k] # r
        BY <2>1 DEF Distinct
    <2>5. Distinct(t)
        BY <2>1, <2>2, <2>3 DEF Distinct
    <2>6. ASSUME NEW k \in 1 .. n - 1 PROVE t[k] \in ToSet(rs) \ {r}
        <3>1. CASE k < i
            <4>1. k \in 1 .. n /\ k # i /\ t[k] = rs[k]
                BY <2>1, <2>2, <2>3, <3>1
            <4> QED BY <2>3, <2>4, <4>1 DEF ToSet
        <3>2. CASE k >= i
            <4>1. k + 1 \in 1 .. n /\ k + 1 # i /\ t[k] = rs[k + 1]
                BY <2>1, <2>2, <2>3, <3>2
            <4> QED BY <2>3, <2>4, <4>1 DEF ToSet
        <3> QED BY <2>1, <3>1, <3>2
    <2>7. ASSUME NEW k \in 1 .. n, rs[k] # r PROVE rs[k] \in ToSet(t)
        <3>1. CASE k < i
            BY <2>1, <2>2, <2>3, <3>1 DEF ToSet
        <3>2. CASE k > i
            <4>1. k - 1 \in 1 .. n - 1 /\ t[k - 1] = rs[k]
                BY <2>1, <2>2, <2>3, <3>2
            <4> QED BY <2>3, <4>1 DEF ToSet
        <3> QED BY <2>1, <2>7, <3>1, <3>2
    <2>8. ToSet(t) \subseteq ToSet(rs) \ {r}
        BY <2>3, <2>6 DEF ToSet
    <2>9. ToSet(rs) \ {r} \subseteq ToSet(t)
        BY <2>3, <2>7 DEF ToSet
    <2>10. ToSet(t) = ToSet(rs) \ {r}
        BY <2>8, <2>9
    <2> QED BY <2>2, <2>5, <2>10 DEF t
<1> QED BY <1>1, <1>2

--------------------------------------------------------------------------------
(* Rulesets *)

\* Rulesets are the sequences of rules in which no rule occurs twice.
LEMMA RulesetsAreDistinct ==
    ASSUME NEW rs
    PROVE  /\ rs \in Rulesets <=> rs \in Seq(Rules) /\ Distinct(rs)
           /\ rs \in Rulesets => Len(rs) <= Cardinality(Rules)
<1>1. ASSUME rs \in Rulesets
      PROVE  rs \in Seq(Rules) /\ Distinct(rs) /\ Len(rs) <= Cardinality(Rules)
    <2>1. PICK T \in SUBSET Rules : rs \in SetToSeqs(T)
        BY <1>1 DEF Rulesets, SetToAllKPermutations
    <2> DEFINE n == Cardinality(T)
    <2>2. n \in Nat /\ n <= Cardinality(Rules)
        BY RulesAssumption, FS_Subset, FS_CardinalityType
    <2> HIDE DEF n
    <2>3. rs \in [1 .. n -> T] /\ \A i, j \in 1 .. n : i # j => rs[i] # rs[j]
        BY <2>1 DEF SetToSeqs, n
    <2>4. rs \in Seq(Rules) /\ Len(rs) = n
        BY <2>2, <2>3
    <2> QED BY <2>2, <2>3, <2>4 DEF Distinct
<1>2. ASSUME rs \in Seq(Rules), Distinct(rs) PROVE rs \in Rulesets
    <2> DEFINE n == Len(rs)
               T == ToSet(rs)
    <2>1. n \in Nat /\ rs \in [1 .. n -> T] /\ T \subseteq Rules
        BY <1>2 DEF ToSet
    <2>2. rs \in Bijection(1 .. n, T)
        <3>1. \A i, j \in 1 .. n : rs[i] = rs[j] => i = j
            BY <1>2 DEF Distinct
        <3>2. \A x \in T : \E i \in 1 .. n : rs[i] = x
            BY <1>2 DEF ToSet
        <3> QED BY <2>1, <3>1, <3>2 DEF Bijection, Injection, Surjection, IsInjective
    <2>3. IsFiniteSet(1 .. n) /\ Cardinality(1 .. n) = n
        <3>1. 1 \in Int /\ n \in Int
            BY <2>1
        <3>2. /\ IsFiniteSet(1 .. n)
              /\ Cardinality(1 .. n) = IF 1 > n THEN 0 ELSE n - 1 + 1
            BY ONLY <3>1, FS_Interval, Zenon
        <3>3. (IF 1 > n THEN 0 ELSE n - 1 + 1) = n
            BY ONLY <2>1
        <3> QED BY ONLY <3>2, <3>3
    <2>4. Cardinality(T) = n
        BY <2>2, <2>3, FS_Bijection DEF ExistsBijection
    <2>5. rs \in SetToSeqs(T)
        BY <1>2, <2>1, <2>4 DEF SetToSeqs, Distinct
    <2> QED BY <2>1, <2>5 DEF Rulesets, SetToAllKPermutations
<1> QED BY <1>1, <1>2

\* ufw adds a rule that is not there, and skips one that is.
LEMMA UfwAddsFacts ==
    ASSUME NEW rs \in Rulesets, NEW r \in Rules, NEW pos \in Nat
    PROVE  /\ UfwAdds(rs, r, pos) \in Rulesets
           /\ ToSet(UfwAdds(rs, r, pos)) = ToSet(rs) \cup {r}
           /\ ~Contains(rs, r) => Len(UfwAdds(rs, r, pos)) = Len(rs) + 1
<1>1. rs \in Seq(Rules) /\ Distinct(rs)
    BY RulesetsAreDistinct
<1>2. Contains(rs, r) <=> r \in ToSet(rs)
    BY <1>1, ContainsIsIn
<1>3. CASE Contains(rs, r)
    BY <1>2, <1>3 DEF UfwAdds
<1>4. CASE ~Contains(rs, r)
    BY <1>1, <1>2, <1>4, InsertedFacts, RulesetsAreDistinct DEF UfwAdds
<1> QED BY <1>3, <1>4

\* A deletion leaves a ruleset.
LEMMA DeletedRuleset ==
    ASSUME NEW rs \in Rulesets, NEW r
    PROVE  /\ Deleted(rs, r) \in Rulesets
           /\ ToSet(Deleted(rs, r)) = ToSet(rs) \ {r}
           /\ Contains(rs, r) => Len(Deleted(rs, r)) = Len(rs) - 1
BY RulesetsAreDistinct, DeletedFacts

\* The verdict is the action of a rule of the list that matches, or "default" when
\* none does.
LEMMA VerdictFacts ==
    ASSUME NEW rs \in Seq(Rules), NEW M
    PROVE  \/ PathVerdict(rs, M) = "default" /\ ToSet(rs) \cap M = {}
           \/ \E x \in ToSet(rs) \cap M : PathVerdict(rs, M) = x.act
<1>1. CASE FirstIn(rs, M) = 0 /\ \A k \in 1 .. Len(rs) : rs[k] \notin M
    <2>1. ToSet(rs) \cap M = {}
        BY <1>1 DEF ToSet
    <2> QED BY <1>1, <2>1 DEF PathVerdict
<1>2. CASE FirstIn(rs, M) \in 1 .. Len(rs) /\ rs[FirstIn(rs, M)] \in M
    <2>1. rs[FirstIn(rs, M)] \in ToSet(rs) \cap M
        BY <1>2 DEF ToSet
    <2>2. PathVerdict(rs, M) = rs[FirstIn(rs, M)].act
        BY <1>2 DEF PathVerdict
    <2> QED BY <2>1, <2>2
<1> QED BY <1>1, <1>2, FirstInFacts

--------------------------------------------------------------------------------
(* The inductive invariant *)

\* Without overlap at most one request is under way.
Serial ==
    Without({"overlap"}) =>
        \A p, q \in Requests : phase[p] # "idle" /\ phase[q] # "idle" => p = q

\* Without overlap what the check found of a request still holds when it is applied.
Judged ==
    Without({"overlap"}) =>
        \A q \in Requests : phase[q] = "checked" =>
            /\ Accepts(job[q])
            /\ job[q].kind = "move" => "to_end" \in env \/ job[q].pos < Len(rules)
            /\ job[q].kind = "edit" => job[q].rule # job[q].new

\* Only the operations a behaviour has are under way.
Offered ==
    \A q \in Requests : phase[q] # "idle" =>
        \/ job[q].kind \in world.kinds
        \/ job[q].kind = "on" /\ "on_allow" \in world.kinds

\* A request past its guard has a row to write, and a rule to be switched off is then
\* no longer there, one to be switched on is.
Applied ==
    \A q \in Requests : phase[q] = "applied" =>
        /\ job[q].kind \in {"disable", "enable"}
        /\ Without({"overlap"}) /\ job[q].kind = "disable" => job[q].rule \notin ToSet(rules)
        /\ Without({"overlap"}) /\ job[q].kind = "enable" => job[q].rule \in ToSet(rules)

\* A request under way has not answered.
Unanswered == \A q \in Requests : phase[q] # "idle" => result[q] = "none"

\* The position to be stored is one of the list.
Stored ==
    \A q \in Requests : job[q].kind = "disable" => job[q].pos <= Cardinality(Rules)

\* A change that leaves the host unreachable never stays.
Reachable == Admits(rules, active)

UfwInv ==
    /\ TypeOK
    /\ Serial
    /\ Judged
    /\ Offered
    /\ Applied
    /\ Unanswered
    /\ Stored
    /\ Reachable
    /\ OffIsNotEnforced

JobType == [kind : AllKinds, rule : Rules, new : Rules, pos : Nat, force : BOOLEAN]
StatusType == [rules : Rulesets, active : BOOLEAN, raised : BOOLEAN]

\* What the driver does, operation by operation.
LEMMA OutcomesByKind ==
    ASSUME NEW j
    PROVE  /\ j.kind = "add" => Outcomes(j) = {UfwRuleAdd(j)}
           /\ j.kind \in {"delete", "disable"} => Outcomes(j) = {UfwRuleDelete(j)}
           /\ j.kind = "edit" => Outcomes(j) = {UfwRuleReplace(j)}
           /\ j.kind = "move" => Outcomes(j) = {UfwRuleMove(j)}
           /\ j.kind = "enable" => Outcomes(j) = {UfwRuleRestore(j)}
           /\ j.kind \in {"on", "on_allow"} => Outcomes(j) = UfwEnable(j)
           /\ j.kind = "off" => Outcomes(j) = {UfwDisable}
BY DEF Outcomes

\* A ruleset and a switch make an outcome.
LEMMA OutcomeTypes ==
    ASSUME NEW rs \in Rulesets, NEW on \in BOOLEAN
    PROVE  /\ Done(rs, on) \in StatusType /\ Raised(rs, on) \in StatusType
           /\ Done(rs, on).rules = rs /\ Raised(rs, on).rules = rs
           /\ Done(rs, on).active = on /\ Raised(rs, on).active = on
BY DEF StatusType, Done, Raised

\* enable_rule puts the rule back at the position stored for it, or ufw refuses it and
\* nothing has changed.
LEMMA RestoreOutcome ==
    ASSUME TypeOK, NEW j \in JobType, j.kind = "enable", NEW o \in Outcomes(j)
    PROVE  \/ o = Raised(rules, active)
           \/ o = Done(UfwAdds(rules, j.rule, slot[j.rule]), active)
<1>1. o = UfwRuleRestore(j)
    BY OutcomesByKind
<1>2. Len(rules) \in Nat
    BY RulesetsAreDistinct DEF TypeOK
<1>3. CASE Landed(j.rule) = Len(rules) + 1
    <2>1. UfwRefuses(rules, Landed(j.rule))
        BY <1>2, <1>3 DEF UfwRefuses, None
    <2> QED BY <1>1, <2>1 DEF UfwRuleRestore
<1>4. CASE Landed(j.rule) = slot[j.rule]
    BY <1>1, <1>4 DEF UfwRuleRestore
<1> QED BY <1>3, <1>4 DEF Landed

\* Every operation of the driver leaves a ruleset, and of its rules those that it is
\* asked to leave.
LEMMA OutcomeFacts ==
    ASSUME TypeOK, NEW j \in JobType, NEW o \in Outcomes(j)
    PROVE  /\ o \in StatusType
           /\ j.kind \in {"delete", "disable"} => ToSet(o.rules) = ToSet(rules) \ {j.rule}
           /\ j.kind \in {"move", "enable"} => ToSet(o.rules) \subseteq ToSet(rules) \cup {j.rule}
           /\ j.kind \in {"on", "off"} => o.rules = rules
<1> USE OutcomeTypes DEF JobType
<1>0. rules \in Rulesets /\ active \in BOOLEAN /\ \A r \in Rules : slot[r] \in Nat
    BY DEF TypeOK, None
<1>1. CASE j.kind = "add"
    <2>1. o = UfwRuleAdd(j)
        BY <1>1, OutcomesByKind
    <2>2. UfwAdds(rules, j.new, j.pos) \in Rulesets
        BY <1>0, UfwAddsFacts
    <2> QED BY <1>0, <1>1, <2>1, <2>2 DEF UfwRuleAdd
<1>2. CASE j.kind \in {"delete", "disable"}
    <2>1. o = UfwRuleDelete(j)
        BY <1>2, OutcomesByKind
    <2> QED BY <1>0, <1>2, <2>1, DeletedRuleset DEF UfwRuleDelete
<1>3. CASE j.kind = "edit"
    <2>1. o = UfwRuleReplace(j)
        BY <1>3, OutcomesByKind
    <2>2. Deleted(UfwAdds(rules, j.new, j.pos), j.rule) \in Rulesets
        BY <1>0, UfwAddsFacts, DeletedRuleset
    <2> QED BY <1>0, <1>3, <2>1, <2>2 DEF UfwRuleReplace
<1>4. CASE j.kind = "move"
    <2>1. o = UfwRuleMove(j)
        BY <1>4, OutcomesByKind
    <2> DEFINE rest == Deleted(rules, j.rule)
    <2>2. rest \in Rulesets /\ ToSet(rest) = ToSet(rules) \ {j.rule}
        BY <1>0, DeletedRuleset
    <2>3. /\ UfwAdds(rest, j.rule, j.pos) \in Rulesets
          /\ ToSet(UfwAdds(rest, j.rule, j.pos)) = ToSet(rest) \cup {j.rule}
        BY <2>2, UfwAddsFacts
    <2>4. o = Raised(rest, active) \/ o = Done(UfwAdds(rest, j.rule, j.pos), active)
        BY <2>1 DEF UfwRuleMove
    <2> HIDE DEF rest
    <2>5. o \in StatusType /\ (o.rules = rest \/ o.rules = UfwAdds(rest, j.rule, j.pos))
        <3>1. CASE o = Raised(rest, active)
            BY <1>0, <2>2, <3>1
        <3>2. CASE o = Done(UfwAdds(rest, j.rule, j.pos), active)
            BY <1>0, <2>3, <3>2
        <3> QED BY <2>4, <3>1, <3>2
    <2> QED BY <1>4, <2>2, <2>3, <2>5
<1>5. CASE j.kind = "enable"
    <2>1. o = Raised(rules, active) \/ o = Done(UfwAdds(rules, j.rule, slot[j.rule]), active)
        BY <1>5, RestoreOutcome
    <2>2. /\ UfwAdds(rules, j.rule, slot[j.rule]) \in Rulesets
          /\ ToSet(UfwAdds(rules, j.rule, slot[j.rule])) = ToSet(rules) \cup {j.rule}
        <3>1. j.rule \in Rules /\ slot[j.rule] \in Nat
            BY <1>0
        <3> QED BY ONLY <1>0, <3>1, UfwAddsFacts
    <2>3. CASE o = Raised(rules, active)
        BY <1>0, <1>5, <2>3
    <2>4. CASE o = Done(UfwAdds(rules, j.rule, slot[j.rule]), active)
        BY <1>0, <1>5, <2>2, <2>4
    <2> QED BY <2>1, <2>3, <2>4
<1>6. CASE j.kind = "on_allow"
    <2>1. o \in UfwEnable(j)
        BY <1>6, OutcomesByKind
    <2>2. UfwAdds(rules, MgmtRule, None) \in Rulesets
        BY <1>0, UfwAddsFacts, RulesAssumption DEF None
    <2>3. o = Done(UfwAdds(rules, MgmtRule, None), TRUE) \/ o = Raised(rules, TRUE)
        BY <1>6, <2>1 DEF UfwEnable
    <2>4. o \in StatusType
        <3>1. CASE o = Done(UfwAdds(rules, MgmtRule, None), TRUE)
            BY <2>2, <3>1
        <3>2. CASE o = Raised(rules, TRUE)
            BY <1>0, <3>2
        <3> QED BY <2>3, <3>1, <3>2
    <2> QED BY <1>6, <2>4
<1>7. CASE j.kind = "on"
    <2>1. o \in UfwEnable(j)
        BY <1>7, OutcomesByKind
    <2>2. o = Done(rules, TRUE)
        BY ONLY <1>7, <2>1, Zenon DEF UfwEnable
    <2> QED BY <1>0, <1>7, <2>2
<1>8. CASE j.kind = "off"
    <2>1. o = UfwDisable
        BY <1>8, OutcomesByKind
    <2>2. o = Done(rules, FALSE)
        BY ONLY <2>1, Zenon DEF UfwDisable
    <2> QED BY <1>0, <1>8, <2>2
<1> QED BY <1>1, <1>2, <1>3, <1>4, <1>5, <1>6, <1>7, <1>8 DEF AllKinds

\* The rules that an operation leaves alone: all but the one it names, and that one too
\* unless it is deleted, replaced or moved where ufw refuses to put it.
LEMMA OutcomeKeeps ==
    ASSUME TypeOK, NEW j \in JobType, NEW o \in Outcomes(j)
    PROVE  /\ ToSet(rules) \ {j.rule} \subseteq ToSet(o.rules)
           /\ j.kind \in {"move", "enable"} /\ ~o.raised => j.rule \in ToSet(o.rules)
           /\ j.kind \notin {"delete", "disable", "edit", "move"} => ToSet(rules) \subseteq ToSet(o.rules)
<1> USE DEF JobType
<1>0. rules \in Rulesets /\ active \in BOOLEAN /\ \A r \in Rules : slot[r] \in Nat
    BY DEF TypeOK, None
<1>1. CASE j.kind = "add"
    <2>1. o = UfwRuleAdd(j)
        BY <1>1, OutcomesByKind
    <2>2. o.rules = rules \/ o.rules = UfwAdds(rules, j.new, j.pos)
        BY <2>1 DEF UfwRuleAdd, Done, Raised
    <2>3. ToSet(UfwAdds(rules, j.new, j.pos)) = ToSet(rules) \cup {j.new}
        BY <1>0, UfwAddsFacts
    <2> QED BY <1>1, <2>2, <2>3
<1>2. CASE j.kind \in {"delete", "disable"}
    BY <1>2, OutcomeFacts
<1>3. CASE j.kind = "edit"
    <2> DEFINE t == UfwAdds(rules, j.new, j.pos)
    <2>1. o = UfwRuleReplace(j)
        BY <1>3, OutcomesByKind
    <2>2. o.rules = rules \/ o.rules = Deleted(t, j.rule)
        BY <2>1 DEF UfwRuleReplace, Done, Raised
    <2>3. t \in Rulesets /\ ToSet(t) = ToSet(rules) \cup {j.new}
        BY <1>0, UfwAddsFacts
    <2> HIDE DEF t
    <2>4. ToSet(Deleted(t, j.rule)) = ToSet(t) \ {j.rule}
        BY <2>3, DeletedRuleset
    <2> QED BY <1>3, <2>2, <2>3, <2>4
<1>4. CASE j.kind = "move"
    <2> DEFINE rest == Deleted(rules, j.rule)
    <2>1. o = UfwRuleMove(j)
        BY <1>4, OutcomesByKind
    <2>2. rest \in Rulesets /\ ToSet(rest) = ToSet(rules) \ {j.rule}
        BY <1>0, DeletedRuleset
    <2>3. ToSet(UfwAdds(rest, j.rule, j.pos)) = ToSet(rest) \cup {j.rule}
        BY <2>2, UfwAddsFacts
    <2>4. o = Raised(rest, active) \/ o = Done(UfwAdds(rest, j.rule, j.pos), active)
        BY <2>1 DEF UfwRuleMove
    <2> HIDE DEF rest
    <2>5. (o.rules = rest /\ o.raised) \/ o.rules = UfwAdds(rest, j.rule, j.pos)
        BY <2>4 DEF Raised, Done
    <2> QED BY <1>4, <2>2, <2>3, <2>5
<1>5. CASE j.kind = "enable"
    <2>1. o = Raised(rules, active) \/ o = Done(UfwAdds(rules, j.rule, slot[j.rule]), active)
        BY <1>5, RestoreOutcome
    <2>2. ToSet(UfwAdds(rules, j.rule, slot[j.rule])) = ToSet(rules) \cup {j.rule}
        <3>1. j.rule \in Rules /\ slot[j.rule] \in Nat
            BY <1>0
        <3> QED BY ONLY <1>0, <3>1, UfwAddsFacts
    <2>3. (o.rules = rules /\ o.raised) \/ o.rules = UfwAdds(rules, j.rule, slot[j.rule])
        BY <2>1 DEF Raised, Done
    <2> QED BY <1>5, <2>2, <2>3
<1>6. CASE j.kind = "on_allow"
    <2>1. o \in UfwEnable(j)
        BY <1>6, OutcomesByKind
    <2>2. ToSet(UfwAdds(rules, MgmtRule, None)) = ToSet(rules) \cup {MgmtRule}
        BY <1>0, UfwAddsFacts, RulesAssumption DEF None
    <2>3. o.rules = rules \/ o.rules = UfwAdds(rules, MgmtRule, None)
        BY <1>6, <2>1 DEF UfwEnable, Done, Raised
    <2> QED BY <1>6, <2>2, <2>3
<1>7. CASE j.kind \in {"on", "off"}
    BY <1>7, OutcomeFacts
<1> QED BY <1>1, <1>2, <1>3, <1>4, <1>5, <1>6, <1>7 DEF AllKinds

\* What a request keeps is its job, with the position it read or as a plain "on".
LEMMA EffectiveFacts ==
    ASSUME TypeOK, NEW j \in Offers
    PROVE  /\ Effective(j) \in JobType
           /\ \/ Effective(j) = j /\ j.kind # "disable"
              \/ Effective(j) = [j EXCEPT !.kind = "on"] /\ j.kind = "on_allow" /\ Covered
              \/ Effective(j) = [j EXCEPT !.pos = PositionOf(j.rule)] /\ j.kind = "disable"
           /\ j.kind = "disable" => PositionOf(j.rule) <= Cardinality(Rules)
<1>1. j \in JobType
    BY BoundsAssumption DEF Offers, Jobs, JobType, None, Positions
<1>2. PositionOf(j.rule) \in Nat /\ PositionOf(j.rule) <= Cardinality(Rules)
    <2>1. rules \in Seq(Rules) /\ Len(rules) \in Nat /\ Len(rules) <= Cardinality(Rules)
        BY RulesetsAreDistinct DEF TypeOK
    <2>2. Cardinality(Rules) \in Nat
        BY RulesAssumption, FS_CardinalityType
    <2>3. FirstIn(rules, {j.rule}) \in 0 .. Len(rules)
        BY <2>1, FirstInFacts
    <2> QED BY <2>1, <2>2, <2>3 DEF PositionOf, None
<1>3. CASE j.kind = "on_allow" /\ Covered
    <2>1. Effective(j) = [j EXCEPT !.kind = "on"]
        BY <1>3 DEF Effective
    <2> QED BY <1>1, <1>3, <2>1 DEF JobType, AllKinds
<1>4. CASE j.kind = "disable"
    <2>1. Effective(j) = [j EXCEPT !.pos = PositionOf(j.rule)]
        BY <1>4 DEF Effective
    <2> HIDE DEF PositionOf
    <2> QED BY <1>1, <1>2, <1>4, <2>1 DEF JobType
<1>5. CASE ~(j.kind = "on_allow" /\ Covered) /\ j.kind # "disable"
    <2>1. Effective(j) = j
        BY <1>5 DEF Effective
    <2> QED BY <1>1, <1>5, <2>1
<1> QED BY <1>3, <1>4, <1>5

\* A request that is checked keeps the invariant.
LEMMA SubmitStep ==
    ASSUME UfwInv, NEW q \in Requests, NEW j \in Offers, Submit(q, j), world' = world
    PROVE  UfwInv'
<1> USE DEF UfwInv
<1> DEFINE e == Effective(j)
<1>0. /\ e \in JobType
      /\ \/ e = j /\ j.kind # "disable"
         \/ e = [j EXCEPT !.kind = "on"] /\ j.kind = "on_allow" /\ Covered
         \/ e = [j EXCEPT !.pos = PositionOf(j.rule)] /\ j.kind = "disable"
      /\ j.kind = "disable" => PositionOf(j.rule) <= Cardinality(Rules)
    BY EffectiveFacts
<1> HIDE DEF e
<1>00. j \in Jobs /\ WellFormed(j)
    BY DEF Offers
<1>01. phase' = [phase EXCEPT ![q] = "checked"] /\ job' = [job EXCEPT ![q] = e]
    BY DEF Submit, e
<1>02. phase[q] = "idle" /\ phase \in [Requests -> {"idle", "checked", "applied"}]
    BY DEF Submit, TypeOK
<1>03. job \in [Requests -> JobType]
    BY DEF TypeOK, JobType
<1>04. UNCHANGED <<rules, active, policy, off, slot, world>>
    BY DEF Submit
<1>1. TypeOK'
    <2>1. result' \in [Requests -> {"none", "reverted", "error", "ok"}]
        BY DEF Submit, TypeOK
    <2>2. phase' \in [Requests -> {"idle", "checked", "applied"}]
        BY <1>01, <1>02
    <2>3. job' \in [Requests -> JobType]
        BY <1>0, <1>01, <1>03
    <2> QED BY <1>04, <2>1, <2>2, <2>3 DEF TypeOK, JobType
<1>2. Serial'
    BY <1>01, <1>02, <1>04 DEF Submit, Serial, Without, env
<1>3. Judged'
    <2> SUFFICES ASSUME Without({"overlap"}), NEW p \in Requests, phase'[p] = "checked"
                 PROVE  /\ Accepts(job[p])'
                        /\ job'[p].kind = "move" => "to_end" \in env \/ job'[p].pos < Len(rules)
                        /\ job'[p].kind = "edit" => job'[p].rule # job'[p].new
        BY <1>04 DEF Judged, Without, env
    <2>1. p = q
        BY <1>01, <1>02 DEF Submit, Without
    <2>2. job'[p] = e
        BY <1>01, <1>03, <2>1
    <2>3. Accepts(e)
        BY <1>0, <1>00 DEF Submit, Accepts, ChangeIsSafe, Projection, Jobs
    <2>4. Accepts(job[p])'
        BY <1>04, <2>2, <2>3 DEF Accepts, ChangeIsSafe, WouldLockOut, Projection, Covered
    <2>5. /\ e.kind = "move" => "to_end" \in env \/ e.pos < Len(rules)
          /\ e.kind = "edit" => e.rule # e.new
        BY <1>0, <1>00 DEF Submit, WellFormed, Jobs
    <2> QED BY <2>2, <2>4, <2>5
<1>4. Offered'
    <2>1. e.kind \in world.kinds \/ (e.kind = "on" /\ "on_allow" \in world.kinds)
        BY <1>0, <1>00 DEF Submit, Jobs
    <2> QED BY <1>01, <1>02, <1>03, <1>04, <2>1 DEF Offered
<1>5. Applied'
    BY <1>01, <1>02, <1>03, <1>04 DEF Applied, Without, env
<1>6. Stored'
    <2>1. e.kind = "disable" => e.pos <= Cardinality(Rules)
        BY <1>0, <1>00 DEF Jobs
    <2> QED BY <1>01, <1>03, <2>1 DEF Stored
<1>7. Reachable'
    BY <1>04 DEF Reachable, Admits
<1>8. OffIsNotEnforced'
    BY <1>01, <1>02, <1>03, <1>04 DEF OffIsNotEnforced, Without, env
<1>9. Unanswered'
    BY <1>01, <1>02 DEF Submit, Unanswered, TypeOK
<1> QED BY <1>1, <1>2, <1>3, <1>4, <1>5, <1>6, <1>7, <1>8, <1>9

\* What applying a request does, with the outcome of the driver's call.
LEMMA ApplyFacts ==
    ASSUME TypeOK, NEW q \in Requests, Apply(q)
    PROVE  /\ phase[q] = "checked"
           /\ UNCHANGED <<policy, off, slot>>
           /\ \E o \in Outcomes(job[q]) :
                \/ /\ ~Admits(o.rules, o.active)
                   /\ Answer(q, "reverted")
                   /\ UNCHANGED <<rules, active>>
                \/ /\ Admits(o.rules, o.active)
                   /\ rules' = o.rules /\ active' = o.active
                   /\ job[q].kind \in {"disable", "enable"} /\ ~o.raised
                   /\ phase' = [phase EXCEPT ![q] = "applied"] /\ UNCHANGED <<job, result>>
                \/ /\ Admits(o.rules, o.active)
                   /\ rules' = o.rules /\ active' = o.active
                   /\ job[q].kind \notin {"disable", "enable"} \/ o.raised
                   /\ \E how \in {"error", "ok"} : Answer(q, how) /\ (o.raised => how = "error")
BY DEF Apply

\* Of disable_rule and enable_rule, a driver's call that raises has changed nothing.
LEMMA RaisedToggleChangesNothing ==
    ASSUME TypeOK, NEW j \in JobType, j.kind \in {"disable", "enable"}, NEW o \in Outcomes(j), o.raised
    PROVE  o.rules = rules /\ o.active = active
<1>1. CASE j.kind = "disable"
    <2>1. o = UfwRuleDelete(j)
        BY <1>1, OutcomesByKind
    <2> QED BY <2>1 DEF UfwRuleDelete, Done
<1>2. CASE j.kind = "enable"
    <2>1. CASE o = Raised(rules, active)
        BY <2>1 DEF Raised
    <2>2. CASE o = Done(UfwAdds(rules, j.rule, slot[j.rule]), active)
        BY <2>2 DEF Done
    <2> QED BY <1>2, <2>1, <2>2, RestoreOutcome
<1> QED BY <1>1, <1>2

\* NoJob is a job.
LEMMA NoJobType == NoJob \in JobType /\ NoJob.kind = "off"
BY RulesAssumption DEF NoJob, JobType, AllKinds, None

\* An answer ends the request.
LEMMA AnswerFacts ==
    ASSUME TypeOK, NEW q \in Requests, NEW how \in {"reverted", "error", "ok"}, Answer(q, how)
    PROVE  /\ phase' = [phase EXCEPT ![q] = "idle"]
           /\ phase' \in [Requests -> {"idle", "checked", "applied"}]
           /\ job' = [job EXCEPT ![q] = NoJob]
           /\ job' \in [Requests -> JobType]
           /\ result' = [result EXCEPT ![q] = how]
           /\ result' \in [Requests -> {"none", "reverted", "error", "ok"}]
BY NoJobType DEF TypeOK, Answer, JobType

\* Applying a change keeps the invariant: what stays is reachable, and only enable_rule
\* brings back a rule that is switched off.
LEMMA ApplyStep ==
    ASSUME UfwInv, NEW q \in Requests, Apply(q), world' = world
    PROVE  UfwInv'
<1> USE DEF UfwInv
<1>0. /\ phase[q] = "checked" /\ UNCHANGED <<policy, off, slot>>
      /\ phase \in [Requests -> {"idle", "checked", "applied"}]
      /\ job \in [Requests -> JobType] /\ rules \in Rulesets /\ active \in BOOLEAN
      /\ result \in [Requests -> {"none", "reverted", "error", "ok"}]
    BY ApplyFacts DEF TypeOK, JobType
<1>1. PICK o \in Outcomes(job[q]) :
        \/ /\ ~Admits(o.rules, o.active)
           /\ Answer(q, "reverted")
           /\ UNCHANGED <<rules, active>>
        \/ /\ Admits(o.rules, o.active)
           /\ rules' = o.rules /\ active' = o.active
           /\ job[q].kind \in {"disable", "enable"} /\ ~o.raised
           /\ phase' = [phase EXCEPT ![q] = "applied"] /\ UNCHANGED <<job, result>>
        \/ /\ Admits(o.rules, o.active)
           /\ rules' = o.rules /\ active' = o.active
           /\ job[q].kind \notin {"disable", "enable"} \/ o.raised
           /\ \E how \in {"error", "ok"} : Answer(q, how)
    BY ApplyFacts
<1>2. /\ o \in StatusType
      /\ job[q].kind \in {"delete", "disable"} => ToSet(o.rules) = ToSet(rules) \ {job[q].rule}
      /\ job[q].kind \in {"move", "enable"} => ToSet(o.rules) \subseteq ToSet(rules) \cup {job[q].rule}
      /\ job[q].kind \in {"on", "off"} => o.rules = rules
    BY <1>0, OutcomeFacts
\* The request ends or goes on to its row, and the others stay where they are.
<1>3. \/ /\ phase' = [phase EXCEPT ![q] = "idle"]
         /\ job' = [job EXCEPT ![q] = NoJob]
         /\ UNCHANGED <<rules, active>> \/ job[q].kind \notin {"disable", "enable"}
      \/ /\ phase' = [phase EXCEPT ![q] = "applied"] /\ job' = job
         /\ job[q].kind \in {"disable", "enable"} /\ ~o.raised
         /\ rules' = o.rules
    <2>1. o.raised /\ job[q].kind \in {"disable", "enable"} => o.rules = rules /\ o.active = active
        BY <1>0, RaisedToggleChangesNothing
    <2> QED BY <1>1, <2>1, AnswerFacts
<1>4. rules' = rules \/ rules' = o.rules
    BY <1>1
<1>5. TypeOK'
    <2>1. rules' \in Rulesets /\ active' \in BOOLEAN
        BY <1>0, <1>1, <1>2 DEF StatusType
    <2>2. /\ phase' \in [Requests -> {"idle", "checked", "applied"}]
          /\ job' \in [Requests -> JobType]
          /\ result' \in [Requests -> {"none", "reverted", "error", "ok"}]
        BY <1>0, <1>1, AnswerFacts
    <2> QED BY <1>0, <2>1, <2>2 DEF TypeOK, JobType
<1>6. Serial'
    BY <1>0, <1>3 DEF Serial, Without, env
<1>7. Judged'
    <2> SUFFICES ASSUME Without({"overlap"}), NEW p \in Requests, phase'[p] = "checked"
                 PROVE  FALSE
        BY DEF Judged, Without, env
    <2>1. p # q /\ phase[p] = "checked"
        BY <1>0, <1>3
    <2> QED BY <1>0, <2>1 DEF Serial
<1>8. Offered'
    BY <1>0, <1>3 DEF Offered
<1>9. Stored'
    BY <1>0, <1>3, NoJobType DEF Stored
<1>10. Reachable'
    BY <1>0, <1>1 DEF Reachable, Admits
<1>11. ASSUME NEW s \in Seq(Rules), NEW r PROVE Contains(s, r) <=> r \in ToSet(s)
    BY ContainsIsIn
<1>12. rules \in Seq(Rules) /\ rules' \in Seq(Rules)
    BY <1>0, <1>5, RulesetsAreDistinct DEF TypeOK
<1>13. Applied'
    <2> SUFFICES ASSUME NEW p \in Requests, phase'[p] = "applied"
                 PROVE  /\ job'[p].kind \in {"disable", "enable"}
                        /\ Without({"overlap"}) /\ job'[p].kind = "disable" =>
                             job'[p].rule \notin ToSet(rules')
                        /\ Without({"overlap"}) /\ job'[p].kind = "enable" =>
                             job'[p].rule \in ToSet(rules')
        BY DEF Applied, Without, env
    <2>1. CASE p = q
        <3>1. /\ job' = job /\ job[q].kind \in {"disable", "enable"}
              /\ rules' = o.rules /\ ~o.raised
            BY <1>0, <1>3, <2>1
        <3>2. job[q].kind = "enable" => job[q].rule \in ToSet(o.rules)
            BY <1>0, <3>1, OutcomeKeeps
        <3> QED BY <1>2, <2>1, <3>1, <3>2
    <2>2. CASE p # q
        <3>1. phase[p] = "applied" /\ job'[p] = job[p]
            BY <1>0, <1>3, <2>2
        <3> QED BY <1>0, <2>2, <3>1 DEF Applied, Serial
    <2> QED BY <2>1, <2>2
<1>14. OffIsNotEnforced'
    <2> SUFFICES ASSUME Without({"overlap", "crash"}),
                        world.kinds \cap {"add", "edit", "on_allow"} = {},
                        NEW r \in off, Contains(rules', r)
                 PROVE  \E p \in Requests :
                          phase'[p] = "applied" /\ job'[p].kind = "enable" /\ job'[p].rule = r
        BY <1>0 DEF OffIsNotEnforced, Without, env
    <2>1. Without({"overlap"})
        BY DEF Without
    <2>2. \A p \in Requests : p # q => phase[p] = "idle"
        BY <1>0, <2>1 DEF Serial
    <2>3. ~Contains(rules, r)
        BY <1>0, <2>2 DEF OffIsNotEnforced
    <2>4. r \in ToSet(o.rules) /\ r \notin ToSet(rules) /\ rules' = o.rules
        BY <1>4, <1>11, <1>12, <2>3
    <2>5. job[q].kind \in AllKinds \ {"add", "edit", "on_allow"}
        BY <1>0 DEF Offered, JobType, AllKinds
    <2>6. job[q].kind \in {"move", "enable"} /\ job[q].rule = r
        BY <1>2, <2>4, <2>5 DEF AllKinds
    <2>7. job[q].kind # "move"
        <3>1. job[q].kind = "move" => Contains(rules, job[q].rule)
            BY <1>0, <2>1 DEF Judged, Accepts
        <3> QED BY <2>3, <2>6, <3>1
    <2>8. phase' = [phase EXCEPT ![q] = "applied"] /\ job' = job
        BY <1>3, <2>4, <2>6, <2>7
    <2> QED BY <1>0, <2>6, <2>7, <2>8
<1>15. Unanswered'
    <2>1. \A p \in Requests : p # q => phase'[p] = phase[p] /\ result'[p] = result[p]
        BY <1>0, <1>1, AnswerFacts
    <2>2. phase'[q] = "idle" \/ result' = result
        BY <1>0, <1>1, AnswerFacts
    <2> QED BY <1>0, <2>1, <2>2 DEF Unanswered
<1> QED BY <1>5, <1>6, <1>7, <1>8, <1>9, <1>10, <1>13, <1>14, <1>15

\* Writing or deleting the row keeps the invariant.
LEMMA FinishStep ==
    ASSUME UfwInv, NEW q \in Requests, Finish(q), world' = world
    PROVE  UfwInv'
<1> USE DEF UfwInv
<1> DEFINE r == job[q].rule
<1>0. /\ phase[q] = "applied" /\ UNCHANGED <<rules, active, policy>>
      /\ phase \in [Requests -> {"idle", "checked", "applied"}]
      /\ job \in [Requests -> JobType] /\ r \in Rules
    BY DEF Finish, TypeOK, JobType
<1>1. /\ phase' = [phase EXCEPT ![q] = "idle"]
      /\ phase' \in [Requests -> {"idle", "checked", "applied"}]
      /\ job' = [job EXCEPT ![q] = NoJob]
      /\ job' \in [Requests -> JobType]
      /\ result' \in [Requests -> {"none", "reverted", "error", "ok"}]
      /\ \A p \in Requests : p # q => result'[p] = result[p]
    <2>1. PICK how \in {"ok", "error"} : Answer(q, how)
        BY DEF Finish
    <2>2. result \in [Requests -> {"none", "reverted", "error", "ok"}]
        BY DEF TypeOK
    <2> QED BY <2>1, <2>2, AnswerFacts
<1>2. \/ job[q].kind = "disable" /\ off' = off \cup {r} /\ slot' = [slot EXCEPT ![r] = job[q].pos]
      \/ job[q].kind = "disable" /\ UNCHANGED <<off, slot>>
      \/ job[q].kind = "enable" /\ off' = off \ {r} /\ slot' = [slot EXCEPT ![r] = None]
    BY DEF Finish
<1> HIDE DEF r
<1>3. TypeOK'
    <2>1. Cardinality(Rules) \in Nat
        BY RulesAssumption, FS_CardinalityType
    <2>2. job[q].kind = "disable" => job[q].pos \in {None} \cup (1 .. Cardinality(Rules))
        BY <1>0, <2>1 DEF Stored, JobType, None
    <2>3. off' \subseteq Rules /\ slot' \in [Rules -> {None} \cup (1 .. Cardinality(Rules))]
        BY <1>0, <1>2, <2>2 DEF TypeOK
    <2> QED BY <1>0, <1>1, <2>3 DEF TypeOK, JobType
<1>4. Serial'
    BY <1>0, <1>1 DEF Serial, Without, env
<1>5. Judged'
    <2> SUFFICES ASSUME Without({"overlap"}), NEW p \in Requests, phase'[p] = "checked"
                 PROVE  FALSE
        BY DEF Judged, Without, env
    <2>1. p # q /\ phase[p] = "checked"
        BY <1>0, <1>1
    <2> QED BY <1>0, <2>1 DEF Serial
<1>6. Offered' /\ Applied' /\ Unanswered'
    BY <1>0, <1>1 DEF Offered, Applied, Unanswered, Without, env
<1>7. Stored'
    BY <1>0, <1>1, NoJobType DEF Stored
<1>8. Reachable'
    BY <1>0 DEF Reachable, Admits
<1>9. OffIsNotEnforced'
    <2> SUFFICES ASSUME Without({"overlap", "crash"}),
                        world.kinds \cap {"add", "edit", "on_allow"} = {},
                        NEW x \in off', Contains(rules, x)
                 PROVE  FALSE
        BY <1>0 DEF OffIsNotEnforced, Without, env
    <2>1. Without({"overlap"})
        BY DEF Without
    <2>2. \A p \in Requests : p # q => phase[p] = "idle"
        BY <1>0, <2>1 DEF Serial
    <2>3. x \in ToSet(rules)
        BY ContainsIsIn, RulesetsAreDistinct DEF TypeOK
    <2>4. x \in off
        BY <1>0, <1>2, <2>1, <2>3 DEF Applied, r
    <2>5. job[q].kind = "enable" /\ r = x
        BY <2>2, <2>4 DEF OffIsNotEnforced, r
    <2> QED BY <1>2, <2>5
<1> QED BY <1>3, <1>4, <1>5, <1>6, <1>7, <1>8, <1>9

\* A crash loses the requests and nothing else; where it can happen OffIsNotEnforced
\* promises nothing.
LEMMA CrashStep ==
    ASSUME UfwInv, Crash, world' = world
    PROVE  UfwInv'
<1> USE DEF UfwInv, Crash
<1>1. TypeOK'
    <2>1. /\ phase' \in [Requests -> {"idle", "checked", "applied"}]
          /\ job' \in [Requests -> JobType]
          /\ result' \in [Requests -> {"none", "reverted", "error", "ok"}]
        BY NoJobType
    <2> QED BY <2>1 DEF TypeOK, JobType
<1>2. Serial' /\ Judged' /\ Offered' /\ Applied' /\ Unanswered'
    BY DEF Serial, Judged, Offered, Applied, Unanswered
<1>3. Stored'
    BY NoJobType DEF Stored
<1>4. Reachable'
    BY DEF Reachable, Admits
<1>5. OffIsNotEnforced'
    BY DEF OffIsNotEnforced, Without, env
<1> QED BY <1>1, <1>2, <1>3, <1>4, <1>5

\* Every step keeps the invariant.
LEMMA UfwInvStep == UfwInv /\ [Next]_allVars => UfwInv'
<1> SUFFICES ASSUME UfwInv, [Next]_allVars PROVE UfwInv'
    OBVIOUS
<1>1. CASE Next
    <2>1. world' = world
        BY <1>1 DEF Next
    <2>2. ASSUME NEW q \in Requests, NEW j \in Offers, Submit(q, j) PROVE UfwInv'
        BY <2>1, <2>2, SubmitStep
    <2>3. ASSUME NEW q \in Requests, Apply(q) PROVE UfwInv'
        BY <2>1, <2>3, ApplyStep
    <2>4. ASSUME NEW q \in Requests, Finish(q) PROVE UfwInv'
        BY <2>1, <2>4, FinishStep
    <2>5. CASE Crash
        BY <2>1, <2>5, CrashStep
    <2> QED BY <1>1, <2>2, <2>3, <2>4, <2>5 DEF Next, Step
<1>2. CASE UNCHANGED allVars
    <2> USE <1>2 DEF allVars, vars, UfwInv
    <2>1. TypeOK' /\ Serial' /\ Offered' /\ Applied' /\ Unanswered' /\ Stored' /\ Reachable'
        BY DEF TypeOK, Serial, Offered, Applied, Unanswered, Stored, Reachable, Admits, Without, env
    <2>2. OffIsNotEnforced'
        BY DEF OffIsNotEnforced, Without, env
    <2>3. Judged'
        <3> SUFFICES ASSUME Without({"overlap"}), NEW q \in Requests, phase[q] = "checked"
                     PROVE  /\ Accepts(job[q])'
                            /\ job[q].kind = "move" => "to_end" \in env \/ job[q].pos < Len(rules)
                            /\ job[q].kind = "edit" => job[q].rule # job[q].new
            BY DEF Judged, Without, env
        <3>1. Accepts(job[q])
            BY DEF Judged
        <3>2. Accepts(job[q])'
            BY <3>1 DEF Accepts, ChangeIsSafe, WouldLockOut, Projection, Covered
        <3> QED BY <3>2 DEF Judged
    <2> QED BY <2>1, <2>2, <2>3
<1> QED BY <1>1, <1>2

\* A host that NetFleet reaches, with no request under way and no rule switched off.
LEMMA UfwInvInit == Init => UfwInv
<1> SUFFICES ASSUME Init PROVE UfwInv
    OBVIOUS
<1> USE DEF Init
<1>1. TypeOK
    <2>1. job \in [Requests -> JobType]
        BY NoJobType
    <2> QED BY <2>1 DEF TypeOK, JobType
<1>2. Serial /\ Judged /\ Offered /\ Applied /\ Unanswered
    BY DEF Serial, Judged, Offered, Applied, Unanswered
<1>3. Stored
    BY NoJobType DEF Stored
<1>4. Reachable /\ OffIsNotEnforced
    BY DEF Reachable, OffIsNotEnforced
<1> QED BY <1>1, <1>2, <1>3, <1>4 DEF UfwInv

LEMMA UfwInvariant == Spec => []UfwInv
BY UfwInvInit, UfwInvStep, PTL DEF Spec

--------------------------------------------------------------------------------
(* The theorems *)

\* No operation installs a rule twice, and a stored position is one the list can have.
THEOREM UfwTyped == Spec => []TypeOK
<1>1. UfwInv => TypeOK
    BY DEF UfwInv
<1> QED BY <1>1, UfwInvariant, PTL

\* disable_rule and enable_rule agree with the host: where no other operation installs
\* rules and no step is lost, a rule listed as switched off is not installed.
THEOREM OffStaysOff == Spec => []OffIsNotEnforced
<1>1. UfwInv => OffIsNotEnforced
    BY DEF UfwInv
<1> QED BY <1>1, UfwInvariant, PTL

\* Of a move above the end of the list and of an edit of an installed rule, whatever the outcome,
\* the list is as long as it was.
LEMMA OutcomeKeepsCount ==
    ASSUME TypeOK, NEW j \in JobType, NEW o \in Outcomes(j), Contains(rules, j.rule),
           j.kind = "edit" \/ (j.kind = "move" /\ j.pos < Len(rules))
    PROVE  Len(o.rules) = Len(rules)
<1> USE DEF JobType
<1>0. rules \in Rulesets /\ rules \in Seq(Rules) /\ Len(rules) \in Nat
    BY RulesetsAreDistinct DEF TypeOK
<1>1. CASE j.kind = "edit"
    <2>1. o = UfwRuleReplace(j)
        BY <1>1, OutcomesByKind
    <2>2. CASE UfwRefuses(rules, j.pos) \/ Contains(rules, j.new)
        BY <2>1, <2>2 DEF UfwRuleReplace, Raised
    <2>3. CASE ~UfwRefuses(rules, j.pos) /\ ~Contains(rules, j.new)
        <3> DEFINE t == UfwAdds(rules, j.new, j.pos)
        <3>1. o.rules = Deleted(t, j.rule)
            BY <2>1, <2>3 DEF UfwRuleReplace, Done
        <3>2. t \in Rulesets /\ ToSet(t) = ToSet(rules) \cup {j.new} /\ Len(t) = Len(rules) + 1
            BY <1>0, <2>3, UfwAddsFacts
        <3> HIDE DEF t
        <3>3. Contains(t, j.rule)
            <4>1. j.rule \in ToSet(rules)
                BY <1>0, ContainsIsIn
            <4> QED BY <3>2, <4>1, ContainsIsIn, RulesetsAreDistinct
        <3>4. Len(Deleted(t, j.rule)) = Len(t) - 1
            BY <3>2, <3>3, DeletedRuleset
        <3> QED BY <1>0, <3>1, <3>2, <3>4
    <2> QED BY <2>2, <2>3
<1>2. CASE j.kind = "move" /\ j.pos < Len(rules)
    <2> DEFINE rest == Deleted(rules, j.rule)
    <2>1. o = UfwRuleMove(j)
        BY <1>2, OutcomesByKind
    <2>2. /\ rest \in Rulesets /\ ToSet(rest) = ToSet(rules) \ {j.rule}
          /\ Len(rest) = Len(rules) - 1
        BY <1>0, DeletedRuleset
    <2>3. ~Contains(rest, j.rule)
        BY <2>2, ContainsIsIn, RulesetsAreDistinct
    <2>4. ~UfwRefuses(rest, j.pos)
        <3> HIDE DEF rest
        <3> QED BY <1>0, <1>2, <2>2 DEF UfwRefuses
    <2>5. o.rules = UfwAdds(rest, j.rule, j.pos)
        BY <2>1, <2>4 DEF UfwRuleMove, Done
    <2> HIDE DEF rest
    <2>6. Len(UfwAdds(rest, j.rule, j.pos)) = Len(rest) + 1
        BY <2>2, <2>3, UfwAddsFacts
    <2> QED BY <1>0, <2>2, <2>5, <2>6
<1> QED BY <1>1, <1>2

\* move_rule and edit_rule lose no rule and leave none behind, for every list and rule,
\* every position of an edit and every position of a move but the last, whether the
\* change works, fails or is undone.
THEOREM CountIsKept == Spec => MoveAndEditKeepCount
<1>1. UfwInv /\ [Next]_allVars =>
        [Without({"overlap", "to_end"}) => \A q \in Requests : CountIsKeptFor(q)]_vars
    <2> SUFFICES ASSUME UfwInv, Next, NEW q \in Requests,
                        Without({"overlap", "to_end"}),
                        phase[q] = "checked", phase'[q] = "idle", result'[q] # "none",
                        job[q].kind \in {"move", "edit"},
                        Contains(rules, job[q].rule)
                 PROVE  Len(rules') = Len(rules)
        BY DEF allVars, vars, CountIsKeptFor
    <2>0. /\ TypeOK /\ job[q] \in JobType
          /\ phase \in [Requests -> {"idle", "checked", "applied"}]
        BY DEF UfwInv, TypeOK, JobType
    <2>1. Without({"overlap"}) /\ ~("to_end" \in env)
        BY DEF Without
    <2>2. job[q].kind = "edit" \/ (job[q].kind = "move" /\ job[q].pos < Len(rules))
        BY <2>1 DEF UfwInv, Judged
    <2>3. ASSUME NEW p \in Requests, NEW j \in Offers, Submit(p, j) PROVE Len(rules') = Len(rules)
        BY <2>3 DEF Submit
    <2>4. ASSUME NEW p \in Requests, Apply(p) PROVE Len(rules') = Len(rules)
        <3>1. phase[p] = "checked" /\ \E o \in Outcomes(job[p]) : rules' = rules \/ rules' = o.rules
            BY <2>0, <2>4, ApplyFacts
        <3>2. p = q
            BY <2>1, <3>1 DEF UfwInv, Serial
        <3> QED BY <2>0, <2>2, <3>1, <3>2, OutcomeKeepsCount
    <2>5. ASSUME NEW p \in Requests, Finish(p) PROVE Len(rules') = Len(rules)
        BY <2>5 DEF Finish
    <2>6. CASE Crash
        BY <2>6 DEF Crash
    <2> QED BY <2>3, <2>4, <2>5, <2>6 DEF Next, Step
<1> QED BY <1>1, UfwInvariant, PTL DEF Spec, MoveAndEditKeepCount

\* A rule that nobody deletes or replaces stays in the ruleset or in the list of those
\* switched off, step by step, whatever is moved, switched off and on, for rulesets of any
\* length; a move that loses one answers with an error.
THEOREM LossesAreTold == Spec => LossIsTold
<1>1. UfwInv /\ [Next]_allVars =>
        [Without({"overlap", "crash"}) =>
           \A r \in Known \ Known' :
             \E q \in Requests :
               /\ phase[q] = "checked" /\ job[q].rule = r
               /\ job[q].kind \in {"delete", "edit"} \/ result'[q] = "error"]_vars
    <2> SUFFICES ASSUME UfwInv, Next, Without({"overlap", "crash"}), NEW r \in Known, r \notin Known'
                 PROVE  \E q \in Requests :
                          /\ phase[q] = "checked" /\ job[q].rule = r
                          /\ job[q].kind \in {"delete", "edit"} \/ result'[q] = "error"
        BY DEF allVars
    <2>0. /\ TypeOK /\ job \in [Requests -> JobType]
          /\ phase \in [Requests -> {"idle", "checked", "applied"}]
          /\ result \in [Requests -> {"none", "reverted", "error", "ok"}]
        BY DEF UfwInv, TypeOK, JobType
    <2>1. /\ r \notin ToSet(rules') /\ r \notin off'
          /\ \A p \in Requests : phase'[p] = "applied" => job'[p].rule # r
        BY DEF Known
    <2>2. \/ r \in ToSet(rules) \/ r \in off
          \/ \E p \in Requests : phase[p] = "applied" /\ job[p].rule = r
        BY DEF Known
    <2>3. ASSUME NEW q \in Requests, NEW j \in Offers, Submit(q, j) PROVE FALSE
        <3>1. UNCHANGED <<rules, off>>
            BY <2>3 DEF Submit
        <3>2. PICK p \in Requests : phase[p] = "applied" /\ job[p].rule = r
            BY <2>1, <2>2, <3>1
        <3>3. phase'[p] = "applied" /\ job'[p] = job[p]
            BY <2>0, <2>3, <3>2 DEF Submit
        <3> QED BY <2>1, <3>2, <3>3
    <2>4. ASSUME NEW q \in Requests, Apply(q)
          PROVE  /\ phase[q] = "checked" /\ job[q].rule = r
                 /\ job[q].kind \in {"delete", "edit"} \/ result'[q] = "error"
        <3>1. PICK o \in Outcomes(job[q]) :
                \/ /\ Answer(q, "reverted") /\ UNCHANGED rules
                \/ /\ rules' = o.rules
                   /\ job[q].kind \in {"disable", "enable"} /\ ~o.raised
                   /\ phase' = [phase EXCEPT ![q] = "applied"] /\ UNCHANGED job
                \/ /\ rules' = o.rules
                   /\ job[q].kind \notin {"disable", "enable"} \/ o.raised
                   /\ \E how \in {"error", "ok"} : Answer(q, how) /\ (o.raised => how = "error")
            BY <2>0, <2>4, ApplyFacts
        <3>2. phase[q] = "checked" /\ off' = off /\ job[q] \in JobType
            BY <2>0, <2>4, ApplyFacts
        <3>3. \A p \in Requests : p # q => phase'[p] = phase[p] /\ job'[p] = job[p]
            BY <2>0, <3>1, AnswerFacts
        <3>4. r \in ToSet(rules)
            BY <2>1, <2>2, <3>2, <3>3
        <3>5. /\ ToSet(rules) \ {job[q].rule} \subseteq ToSet(o.rules)
              /\ job[q].kind \in {"move", "enable"} /\ ~o.raised => job[q].rule \in ToSet(o.rules)
              /\ job[q].kind \notin {"delete", "disable", "edit", "move"} =>
                   ToSet(rules) \subseteq ToSet(o.rules)
            BY <2>0, <3>2, OutcomeKeeps
        <3>6. rules' = o.rules /\ job[q].rule = r
            BY <2>1, <3>1, <3>4, <3>5
        <3>7. CASE phase' = [phase EXCEPT ![q] = "applied"] /\ UNCHANGED job
            BY <2>0, <2>1, <3>6, <3>7
        <3>8. CASE /\ job[q].kind \notin {"disable", "enable"} \/ o.raised
                   /\ \E how \in {"error", "ok"} : Answer(q, how) /\ (o.raised => how = "error")
            <4>1. o.raised => result'[q] = "error"
                BY <2>0, <3>8, AnswerFacts
            <4>2. job[q].kind \in {"delete", "edit", "move", "disable"}
                BY <2>1, <3>4, <3>5, <3>6
            <4>3. job[q].kind = "move" => o.raised
                BY <2>1, <3>5, <3>6
            <4> QED BY <3>2, <3>6, <3>8, <4>1, <4>2, <4>3
        <3> QED BY <2>1, <3>1, <3>4, <3>7, <3>8
    <2>5. ASSUME NEW q \in Requests, Finish(q) PROVE FALSE
        <3>1. /\ phase[q] = "applied" /\ UNCHANGED rules
              /\ \/ job[q].kind = "disable" /\ job[q].rule \in off'
                 \/ job[q].kind = "enable" /\ off' = off \ {job[q].rule}
              /\ off \ {job[q].rule} \subseteq off'
              /\ \E how \in {"ok", "error"} : Answer(q, how)
            BY <2>5 DEF Finish
        <3>2. \A p \in Requests : p # q => phase'[p] = phase[p] /\ job'[p] = job[p]
            BY <2>0, <3>1, AnswerFacts
        <3>3. r = job[q].rule
            BY <2>1, <2>2, <3>1, <3>2
        <3>4. job[q].kind = "enable" => r \in ToSet(rules)
            <4>1. Without({"overlap"})
                BY DEF Without
            <4> QED BY <3>1, <3>3, <4>1 DEF UfwInv, Applied
        <3> QED BY <2>1, <3>1, <3>3, <3>4
    <2>6. CASE Crash
        BY <2>6 DEF Crash, Without
    <2> QED BY <2>3, <2>4, <2>5, <2>6 DEF Next, Step
<1> QED BY <1>1, UfwInvariant, PTL DEF Spec, LossIsTold

\* The verdict on a list is "allow", "deny" or "default".
LEMMA VerdictType ==
    ASSUME NEW rs \in Seq(Rules), NEW M
    PROVE  PathVerdict(rs, M) \in {"allow", "deny", "default"}
<1>1. \A x \in ToSet(rs) : x.act \in Actions
    BY RulesAssumption DEF ToSet
<1> QED BY <1>1, VerdictFacts DEF Actions

\* Where the check and the host agree on which rules match and what the default does,
\* a list the check does not take for a lockout lets NetFleet in, and the other way
\* round for a firewall that is on.
LEMMA CheckIsRight ==
    ASSUME policy \in Policies, policy # "reject", SeenAsMatching = ReallyMatching,
           NEW rs \in Seq(Rules)
    PROVE  Admits(rs, TRUE) <=> ~WouldLockOut(rs)
<1>1. policy \in {"allow", "deny"}
    BY BoundsAssumption
<1>2. PathVerdict(rs, ReallyMatching) \in {"allow", "deny", "default"}
    BY VerdictType
<1> QED BY <1>1, <1>2 DEF Admits, WouldLockOut

\* A firewall that is off lets everyone in.
LEMMA OffAdmits == \A rs : Admits(rs, FALSE)
BY DEF Admits

\* A list without rules that deny NetFleet lets it in when one of its rules matches.
LEMMA NoDenyAdmits ==
    ASSUME NEW rs \in Seq(Rules), NEW on \in BOOLEAN,
           \A x \in ToSet(rs) : HostMatches(x) => x.act # "deny",
           ToSet(rs) \cap ReallyMatching # {}
    PROVE  Admits(rs, on)
<1>1. PICK x \in ToSet(rs) \cap ReallyMatching : PathVerdict(rs, ReallyMatching) = x.act
    BY VerdictFacts
<1>2. x.act \in Actions /\ x.act # "deny"
    BY RulesAssumption DEF ReallyMatching
<1> QED BY <1>1, <1>2 DEF Admits, Actions

\* What the check let through is let in by the host, apart from the two placements it
\* judges elsewhere than ufw puts them.
LEMMA JudgedIsAdmitted ==
    ASSUME UfwInv, Without({"overlap", "rejects", "to_end"}), policy # "reject",
           SeenAsMatching = ReallyMatching,
           NEW q \in Requests, phase[q] = "checked", NEW o \in Outcomes(job[q]),
           ~job[q].force, job[q].kind # "add",
           job[q].kind \in {"edit", "on_allow"} => ~DenyInvolved(job[q])
    PROVE  Admits(o.rules, o.active)
<1> DEFINE j == job[q]
<1>0. /\ TypeOK /\ policy \in Policies /\ active \in BOOLEAN /\ j \in JobType
      /\ rules \in Rulesets /\ rules \in Seq(Rules) /\ \A r \in Rules : slot[r] \in Nat
    BY RulesetsAreDistinct DEF UfwInv, TypeOK, JobType, None
<1>1. /\ "overlap" \notin env /\ "rejects" \notin env /\ "to_end" \notin env
      /\ Without({"overlap"})
    BY DEF Without
<1>2. /\ Accepts(j)
      /\ j.kind = "move" => j.pos < Len(rules)
      /\ j.kind = "edit" => j.rule # j.new
    BY <1>1 DEF UfwInv, Judged
<1>3. Admits(rules, active)
    BY DEF UfwInv, Reachable
<1> HIDE DEF j
<1>4. ASSUME ChangeIsSafe(j), active PROVE ~WouldLockOut(Projection(j))
    <2>1. Admits(rules, TRUE)
        BY <1>0, <1>3, <1>4
    <2>2. ~WouldLockOut(rules)
        BY <1>0, <2>1, CheckIsRight
    <2> QED BY <1>4, <2>2 DEF ChangeIsSafe
<1>5. ASSUME NEW rs \in Seq(Rules), active => ~WouldLockOut(rs) PROVE Admits(rs, active)
    <2>1. CASE active
        <3>1. active = TRUE /\ Admits(rs, TRUE)
            BY <1>0, <1>5, <2>1, CheckIsRight
        <3> QED BY <3>1
    <2>2. CASE ~active
        <3>1. active = FALSE
            BY <1>0, <2>2
        <3> QED BY <3>1, OffAdmits
    <2> QED BY <2>1, <2>2
<1>6. CASE j.kind \in {"delete", "disable"}
    <2>1. o = UfwRuleDelete(j)
        BY <1>6, OutcomesByKind DEF j
    <2>2. o.rules = Deleted(rules, j.rule) /\ o.active = active
        BY <2>1 DEF UfwRuleDelete, Done
    <2>3. ChangeIsSafe(j)
        BY <1>2, <1>6 DEF Accepts, j
    <2>4. Projection(j) = Deleted(rules, j.rule)
        BY <1>6 DEF Projection
    <2>5. Deleted(rules, j.rule) \in Seq(Rules)
        BY <1>0, DeletedRuleset, RulesetsAreDistinct
    <2>6. Admits(Deleted(rules, j.rule), active)
        BY <1>4, <1>5, <2>3, <2>4, <2>5
    <2> QED BY <2>2, <2>6
<1>7. CASE j.kind = "move"
    <2> DEFINE rest == Deleted(rules, j.rule)
    <2>1. o = UfwRuleMove(j)
        BY <1>7, OutcomesByKind DEF j
    <2>2. Contains(rules, j.rule) /\ ChangeIsSafe(j)
        BY <1>2, <1>7 DEF Accepts, j
    <2>3. j.rule \in Rules /\ j.pos \in Nat /\ Len(rules) \in Nat
        BY <1>0 DEF JobType
    <2>4. /\ rest \in Rulesets /\ rest \in Seq(Rules) /\ ToSet(rest) = ToSet(rules) \ {j.rule}
          /\ Len(rest) = Len(rules) - 1
        BY <1>0, <2>2, DeletedRuleset, RulesetsAreDistinct
    <2>5. ~Contains(rest, j.rule)
        BY <2>4, ContainsIsIn
    <2>6. Projection(j) = Inserted(rest, j.rule, j.pos)
        BY <1>7, <2>2 DEF Projection, Moved
    <2>7. o = IF UfwRefuses(rest, j.pos) THEN Raised(rest, active)
              ELSE Done(UfwAdds(rest, j.rule, j.pos), active)
        BY <2>1 DEF UfwRuleMove
    <2> HIDE DEF rest
    <2>8. ~UfwRefuses(rest, j.pos)
        BY <1>2, <1>7, <2>3, <2>4 DEF UfwRefuses
    <2>9. o.rules = Inserted(rest, j.rule, j.pos) /\ o.active = active
        BY <2>5, <2>7, <2>8 DEF UfwAdds, Done
    <2>10. Inserted(rest, j.rule, j.pos) \in Seq(Rules)
        BY <2>3, <2>4, InsertedFacts
    <2>11. Admits(Inserted(rest, j.rule, j.pos), active)
        BY <1>4, <1>5, <2>2, <2>6, <2>10
    <2> QED BY <2>9, <2>11
<1>8. CASE j.kind = "enable"
    <2> DEFINE t == Inserted(rules, j.rule, slot[j.rule])
    <2>1. o = Raised(rules, active) \/ o = Done(UfwAdds(rules, j.rule, slot[j.rule]), active)
        BY <1>0, <1>8, RestoreOutcome DEF j
    <2>2. ChangeIsSafe(j)
        BY <1>2, <1>8 DEF Accepts, j
    <2>3. Projection(j) = t
        BY <1>8 DEF Projection
    <2>4. t \in Seq(Rules)
        BY <1>0, InsertedFacts DEF JobType
    <2>5. (o.rules = rules \/ o.rules = t) /\ o.active = active
        BY <2>1 DEF UfwAdds, Done, Raised
    <2> HIDE DEF t
    <2>6. Admits(t, active)
        BY <1>4, <1>5, <2>2, <2>3, <2>4
    <2> QED BY <1>3, <2>5, <2>6
<1>9. CASE j.kind = "on"
    <2>1. o \in UfwEnable(j)
        BY <1>9, OutcomesByKind DEF j
    <2>2. o = Done(rules, TRUE)
        BY ONLY <1>9, <2>1, Zenon DEF UfwEnable
    <2>3. o.rules = rules /\ o.active = TRUE
        BY <2>2 DEF Done
    <2>4. Covered
        BY <1>2, <1>9 DEF Accepts, j
    <2>5. Admits(rules, TRUE)
        BY <1>0, <2>4, CheckIsRight DEF Covered
    <2> QED BY <2>3, <2>5
<1>10. CASE j.kind = "off"
    <2>1. o = UfwDisable
        BY <1>10, OutcomesByKind DEF j
    <2>2. o.active = FALSE
        BY <2>1 DEF UfwDisable, Done
    <2> QED BY <2>2, OffAdmits
<1>11. CASE j.kind = "on_allow"
    <2> DEFINE t == UfwAdds(rules, MgmtRule, None)
    <2>1. o \in UfwEnable(j)
        BY <1>11, OutcomesByKind DEF j
    <2>2. o = Done(t, TRUE)
        BY ONLY <1>1, <1>11, <2>1, Zenon DEF UfwEnable
    <2>3. o.rules = t /\ o.active = TRUE
        BY <2>2 DEF Done
    <2>4. t \in Seq(Rules) /\ ToSet(t) = ToSet(rules) \cup {MgmtRule}
        BY <1>0, RulesAssumption, UfwAddsFacts, RulesetsAreDistinct DEF None
    <2> HIDE DEF t
    <2>5. MgmtRule \in ToSet(t) \cap ReallyMatching
        BY <2>4, RulesAssumption DEF ReallyMatching, HostMatches
    <2>6. \A x \in ToSet(t) : HostMatches(x) => x.act # "deny"
        BY <1>11, <2>4, RulesAssumption DEF DenyInvolved, j
    <2>7. Admits(t, TRUE)
        BY <2>4, <2>5, <2>6, NoDenyAdmits
    <2> QED BY <2>3, <2>7
<1>12. CASE j.kind = "edit"
    <2> DEFINE t == UfwAdds(rules, j.new, j.pos)
               u == Deleted(t, j.rule)
    <2>1. o = UfwRuleReplace(j)
        BY <1>12, OutcomesByKind DEF j
    <2>2. CASE UfwRefuses(rules, j.pos) \/ Contains(rules, j.new)
        <3>1. o.rules = rules /\ o.active = active
            BY <2>1, <2>2 DEF UfwRuleReplace, Raised
        <3> QED BY <1>3, <3>1
    <2>3. CASE ~(UfwRefuses(rules, j.pos) \/ Contains(rules, j.new))
        <3>0. j.new \in Rules /\ j.pos \in Nat /\ j.rule \in Rules
            BY <1>0 DEF JobType
        <3>1. o.rules = u /\ o.active = active
            BY <2>1, <2>3 DEF UfwRuleReplace, Done
        <3>2. t \in Rulesets /\ ToSet(t) = ToSet(rules) \cup {j.new}
            BY <1>0, <3>0, UfwAddsFacts
        <3>3. u \in Seq(Rules) /\ ToSet(u) = (ToSet(rules) \cup {j.new}) \ {j.rule}
            BY <3>2, DeletedRuleset, RulesetsAreDistinct
        <3> HIDE DEF t, u
        <3>4. \A x \in ToSet(u) : HostMatches(x) => x.act # "deny"
            BY <1>12, <3>3 DEF DenyInvolved, j
        <3>5. CASE ToSet(u) \cap ReallyMatching # {}
            <4>1. Admits(u, active)
                BY <1>0, <3>3, <3>4, <3>5, NoDenyAdmits
            <4> QED BY <3>1, <4>1
        <3>6. CASE ToSet(u) \cap ReallyMatching = {}
            \* Then no rule of the projection matches either.
            <4> DEFINE v == Projection(j)
            <4>1. PICK pos \in Nat : v = Inserted(Deleted(rules, j.rule), j.new, pos)
                <5>1. FirstIn(rules, {j.rule}) \in Nat
                    BY <1>0, FirstInFacts
                <5> DEFINE place == IF j.pos = None THEN FirstIn(rules, {j.rule}) ELSE j.pos
                <5>2. place \in Nat
                    BY <3>0, <5>1
                <5>3. v = Replaced(rules, j.rule, j.new, j.pos)
                    BY <1>12 DEF Projection
                <5>4. v = Inserted(Deleted(rules, j.rule), j.new, place)
                    BY <5>3 DEF Replaced
                <5> QED BY <5>2, <5>4
            <4>2. /\ Deleted(rules, j.rule) \in Seq(Rules)
                  /\ ToSet(Deleted(rules, j.rule)) = ToSet(rules) \ {j.rule}
                BY <1>0, DeletedRuleset, RulesetsAreDistinct
            <4>3. v \in Seq(Rules) /\ ToSet(v) = (ToSet(rules) \ {j.rule}) \cup {j.new}
                <5> DEFINE d == Deleted(rules, j.rule)
                <5> HIDE DEF d, v
                <5>1. d \in Seq(Rules) /\ ToSet(d) = ToSet(rules) \ {j.rule}
                    BY <4>2 DEF d
                <5>2. v = Inserted(d, j.new, pos)
                    BY <4>1 DEF d
                <5> QED BY <3>0, <5>1, <5>2, InsertedFacts
            <4> HIDE DEF v
            <4>4. ToSet(v) \cap ReallyMatching = {}
                <5>1. j.rule # j.new
                    BY <1>2, <1>12
                <5> QED BY <3>3, <3>6, <4>3, <5>1
            <4>5. /\ PathVerdict(u, SeenAsMatching) = "default"
                  /\ PathVerdict(v, SeenAsMatching) = "default"
                BY <3>3, <3>6, <4>3, <4>4, VerdictFacts
            <4>6. ChangeIsSafe(j)
                BY <1>2, <1>12 DEF Accepts, j
            <4>7. ASSUME active PROVE ~WouldLockOut(v)
                <5>1. ~WouldLockOut(Projection(j))
                    BY <1>4, <4>6, <4>7
                <5> QED BY <5>1 DEF v
            <4>8. active => ~WouldLockOut(u)
                BY <4>5, <4>7 DEF WouldLockOut
            <4>9. Admits(u, active)
                BY <1>5, <3>3, <4>8
            <4> QED BY <3>1, <4>9
        <3> QED BY <3>5, <3>6
    <2> QED BY <2>2, <2>3
<1> QED BY <1>0, <1>6, <1>7, <1>8, <1>9, <1>10, <1>11, <1>12 DEF JobType, AllKinds, j

\* A change that _assert_change_is_safe or enable_preflight let through without force is
\* not undone by the guard, for every ruleset and policy and every number of requests,
\* under the conditions SafeChangesStay names.
THEOREM CheckedChangesStay == Spec => SafeChangesStay
<1>1. UfwInv /\ [Next]_allVars =>
        [\A q \in Requests :
           /\ Without({"overlap", "rejects", "to_end"})
           /\ policy # "reject"
           /\ SeenAsMatching = ReallyMatching
           /\ phase[q] = "checked" /\ result'[q] = "reverted"
           => \/ job[q].force
              \/ job[q].kind = "add"
              \/ job[q].kind \in {"edit", "on_allow"} /\ DenyInvolved(job[q])]_vars
    <2> SUFFICES ASSUME UfwInv, Next, NEW q \in Requests,
                        Without({"overlap", "rejects", "to_end"}),
                        policy # "reject", SeenAsMatching = ReallyMatching,
                        phase[q] = "checked", result'[q] = "reverted",
                        ~job[q].force, job[q].kind # "add",
                        job[q].kind \in {"edit", "on_allow"} => ~DenyInvolved(job[q])
                 PROVE  FALSE
        BY DEF allVars, vars
    <2>0. /\ TypeOK
          /\ result \in [Requests -> {"none", "reverted", "error", "ok"}]
        BY DEF UfwInv, TypeOK
    <2>1. Without({"overlap"}) /\ ~("overlap" \in env)
        BY DEF Without
    <2>2. \A p \in Requests : phase[p] # "idle" => p = q
        BY <2>1 DEF UfwInv, Serial
    <2>3. ASSUME NEW p \in Requests, NEW j \in Offers, Submit(p, j) PROVE FALSE
        BY <2>1, <2>3 DEF Submit
    <2>4. ASSUME NEW p \in Requests, Apply(p) PROVE FALSE
        <3>1. p = q
            BY <2>0, <2>2, <2>4, ApplyFacts
        <3>2. \E o \in Outcomes(job[q]) : ~Admits(o.rules, o.active)
            <4>1. PICK o \in Outcomes(job[q]) :
                    \/ ~Admits(o.rules, o.active)
                    \/ result' = result
                    \/ \E how \in {"error", "ok"} : Answer(q, how)
                BY <2>0, <2>4, <3>1, ApplyFacts
            <4>2. result' # result
                BY DEF UfwInv, Unanswered
            <4>3. ASSUME NEW how \in {"error", "ok"}, Answer(q, how) PROVE FALSE
                BY <2>0, <4>3 DEF Answer
            <4> QED BY <4>1, <4>2, <4>3
        <3> QED BY <3>2, JudgedIsAdmitted
    <2>5. ASSUME NEW p \in Requests, Finish(p) PROVE FALSE
        <3>1. phase[p] = "applied"
            BY <2>5 DEF Finish
        <3> QED BY <2>2, <3>1
    <2>6. CASE Crash
        BY <2>6 DEF Crash
    <2> QED BY <2>3, <2>4, <2>5, <2>6 DEF Next, Step
<1> QED BY <1>1, UfwInvariant, PTL DEF Spec, SafeChangesStay

================================================================================
