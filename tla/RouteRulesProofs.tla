--------------------------- MODULE RouteRulesProofs ---------------------------
(***************************************************************************)
(* Proofs about the order of the rules, for names, paths and prefixes of   *)
(* any length and tables of any size: the scores give the documented order *)
(* of precedence, and in any table some rule is first.                     *)
(***************************************************************************)
EXTENDS RouteRules, SequenceTheorems, FiniteSetTheorems, TLAPS

-----------------------------------------------------------------------------
(* Greatest elements.                                                      *)

LEMMA MaxIs ==
  ASSUME NEW S \in SUBSET Nat, NEW m \in S, \A y \in S : y <= m
  PROVE  Max(S) = m
<1>1. \A y \in S : m >= y
  OBVIOUS
<1>2. \A x \in S : (\A y \in S : x >= y) => x = m
  OBVIOUS
<1>3. QED
  BY <1>1, <1>2 DEF Max

\* A bounded set of naturals has a greatest element.
LEMMA BoundedHasGreatest ==
  ASSUME NEW S \in SUBSET Nat, S # {}, NEW b \in Nat, \A y \in S : y <= b
  PROVE  \E m \in S : \A y \in S : y <= m
<1> DEFINE T == {b - y : y \in S}
           Less == {s \in Nat \X Nat : s[1] < s[2]}
<1>1. T \in SUBSET Nat /\ T # {}
  <2>1. \A y \in S : y \in Nat /\ b - y \in Nat
    OBVIOUS
  <2>2. QED
    BY <2>1
<1>2. IsWellFoundedOn(Less, Nat)
  BY NatLessThanWellFounded DEF OpToRel
<1>3. PICK x \in T : \A y \in T : ~(<<y, x>> \in Less)
  <2> HIDE DEF T, Less
  <2> QED BY <1>1, <1>2, WFMin
<1>4. PICK m \in S : x = b - m
  OBVIOUS
<1>5. ASSUME NEW y \in S PROVE y <= m
  <2>1. b - y \in T /\ b - y \in Nat /\ x \in Nat
    BY <1>1
  <2>2. ~(b - y < x)
    BY <1>3, <2>1
  <2>3. y \in Nat /\ m \in Nat
    OBVIOUS
  <2>4. QED
    BY <2>2, <2>3, <1>4
<1>6. QED
  BY <1>5

-----------------------------------------------------------------------------
(* Hosts.                                                                  *)

LEMMA HostScoreByRank ==
  ASSUME NEW r \in Route, NEW h \in Host, HostApplies(r, h)
  PROVE  /\ HostScores(r, h) # {}
         /\ Max(HostScores(r, h)) =
              IF HostRank(r, h) = 2 THEN NameBytes[h.first] + NameBytes[h.rest] + 1000
              ELSE IF HostRank(r, h) = 1 THEN NameBytes[h.rest] + 1 ELSE 0
         /\ NameBytes[h.first] \in Nat /\ NameBytes[h.rest] \in Nat
         /\ HostRank(r, h) \in {0, 1, 2}
<1> DEFINE e == NameBytes[h.first] + NameBytes[h.rest] + 1000
           w == NameBytes[h.rest] + 1
           S == HostScores(r, h)
<1>1. NameBytes[h.first] \in Nat /\ NameBytes[h.rest] \in Nat
  BY NamesAssumption DEF Host
<1>2. \A p \in Range(r.hostnames) : p \in Pattern
  BY ElementOfSeq DEF Route, Range
<1>3. \A p \in Range(r.hostnames) : HostnameMatches(p, h) =>
        /\ p.kind \in {"exact", "wildcard"}
        /\ HostnameScore(p) = IF p.kind = "exact" THEN e ELSE w
  BY <1>2 DEF HostnameMatches, HostnameScore
<1>4. CASE r.hostnames = <<>>
  <2>1. ~By(r, "exact", h) /\ ~By(r, "wildcard", h)
    BY <1>4 DEF By, Range
  <2>2. S = {0} /\ HostRank(r, h) = 0
    BY <1>4, <2>1 DEF HostScores, HostRank
  <2>3. Max(S) = 0
    BY <2>2, MaxIs
  <2>4. QED
    BY <1>1, <2>2, <2>3
<1>5. CASE r.hostnames # <<>>
  <2>1. PICK p \in Range(r.hostnames) : HostnameMatches(p, h)
    BY <1>5 DEF HostApplies
  <2>2. \A s \in S : \E q \in Range(r.hostnames) :
          HostnameMatches(q, h) /\ s = HostnameScore(q)
    BY <1>5 DEF HostScores
  <2>3. \A q \in Range(r.hostnames) : HostnameMatches(q, h) => HostnameScore(q) \in S
    BY <1>5 DEF HostScores
  <2>4. S \subseteq {e, w} /\ S # {} /\ S \in SUBSET Nat
    BY <1>1, <1>3, <2>1, <2>2, <2>3
  <2>5. By(r, "exact", h) <=> e \in S
    BY <1>1, <1>3, <2>2, <2>3 DEF By
  <2>6. By(r, "wildcard", h) <=> w \in S
    BY <1>1, <1>3, <2>2, <2>3 DEF By
  <2>7. CASE e \in S
    <3>1. HostRank(r, h) = 2
      BY <2>5, <2>7 DEF HostRank
    <3>2. Max(S) = e
      BY <1>1, <2>4, <2>7, MaxIs
    <3>3. QED
      BY <1>1, <2>4, <3>1, <3>2
  <2>8. CASE e \notin S
    <3>1. HostRank(r, h) = 1
      BY <2>4, <2>5, <2>6, <2>8 DEF HostRank
    <3>2. Max(S) = w
      BY <1>1, <2>4, <2>8, MaxIs
    <3>3. QED
      BY <1>1, <2>4, <3>1, <3>2
  <2>9. QED
    BY <2>7, <2>8
<1>6. QED
  BY <1>4, <1>5

\* HostScores is empty for a route that does not apply.
LEMMA NoHostScore ==
  ASSUME NEW r \in Route, NEW h
  PROVE  HostScores(r, h) # {} <=> HostApplies(r, h)
BY DEF HostScores, HostApplies

-----------------------------------------------------------------------------
(* Paths.                                                                  *)

LEMMA PrefixIsInitial ==
  ASSUME NEW s \in Paths, NEW t \in Paths, PrefixMatches(s, t)
  PROVE  Len(s) <= Len(t) /\ s = SubSeq(t, 1, Len(s))
<1>1. s \in Seq(Chars) /\ t \in Seq(Chars)
  BY PathsAssumption
<1>2. s = SubSeq(s, 1, Len(s)) /\ t = SubSeq(t, 1, Len(t))
  BY <1>1
<1>3. CASE s = t
  BY <1>1, <1>2, <1>3
<1>4. CASE IsPrefix(s, t)
  BY <1>2, <1>4 DEF IsPrefix
<1>5. QED
  BY <1>3, <1>4 DEF PrefixMatches

\* Of two prefixes of one path the one with more characters has more bytes.
LEMMA LongerHasMoreBytes ==
  ASSUME NEW s \in Paths, NEW u \in Paths, NEW t \in Paths,
         PrefixMatches(s, t), PrefixMatches(u, t)
  PROVE  /\ Len(s) \in Nat /\ Len(u) \in Nat
         /\ PathBytes(s) \in Nat /\ PathBytes(u) \in Nat
         /\ Len(s) > Len(u) <=> PathBytes(s) > PathBytes(u)
<1>1. s \in Seq(Chars) /\ u \in Seq(Chars) /\ t \in Seq(Chars)
  BY PathsAssumption
<1>2. /\ Len(s) \in Nat /\ Len(u) \in Nat
      /\ PathBytes(s) \in Nat /\ PathBytes(u) \in Nat
  BY <1>1, PathsAssumption
<1>3. ASSUME NEW v \in Paths, NEW w \in Paths, Len(w) < Len(v),
             PrefixMatches(v, t), PrefixMatches(w, t)
      PROVE  PathBytes(w) < PathBytes(v)
  <2>1. v \in Seq(Chars) /\ w \in Seq(Chars)
    BY PathsAssumption
  <2>2. /\ Len(v) <= Len(t) /\ v = SubSeq(t, 1, Len(v))
        /\ Len(w) <= Len(t) /\ w = SubSeq(t, 1, Len(w))
    BY <1>3, PrefixIsInitial
  <2>3. SubSeq(v, 1, Len(w)) = w
    <3>1. SubSeq(v, 1, Len(w)) \in Seq(Chars) /\ Len(SubSeq(v, 1, Len(w))) = Len(w)
      BY <1>3, <2>1
    <3>2. ASSUME NEW k \in 1..Len(w) PROVE SubSeq(v, 1, Len(w))[k] = w[k]
      <4>1. SubSeq(v, 1, Len(w))[k] = v[k]
        BY <1>3, <2>1
      <4>2. v[k] = t[k] /\ w[k] = t[k]
        BY <1>1, <1>3, <2>1, <2>2
      <4>3. QED
        BY <4>1, <4>2
    <3>3. QED
      BY <2>1, <3>1, <3>2, SeqEqual
  <2>4. SubSeq(w, 1, Len(w)) = w
    BY <2>1
  <2>5. IsStrictPrefix(w, v)
    BY <1>3, <2>1, <2>3, <2>4 DEF IsStrictPrefix, IsPrefix
  <2>6. QED
    BY <2>5, PathsAssumption
<1>4. ASSUME Len(s) = Len(u) PROVE s = u
  BY <1>4, PrefixIsInitial
<1>5. QED
  BY <1>2, <1>3, <1>4

LEMMA MatchTypes ==
  ASSUME NEW u \in Rule
  PROVE  \A m \in Range(u.matches) :
           /\ m \in PathMatch
           /\ m.type \in {"Exact", "Prefix", "Regex", "Unspecified"}
           /\ m.value \in Paths /\ PathBytes(m.value) \in Nat
<1>1. \A m \in Range(u.matches) : m \in PathMatch
  BY ElementOfSeq DEF Rule, Range
<1>2. QED
  BY <1>1, PathsAssumption DEF PathMatch

\* The longest of the prefixes of a rule that apply.
LongestPrefix(u, s, pt) ==
  s \in Values(u, "Prefix", pt) /\ \A t \in Values(u, "Prefix", pt) : PathBytes(t) <= PathBytes(s)

LEMMA LongestPrefixExists ==
  ASSUME NEW u \in Rule, NEW pt \in Paths, Values(u, "Prefix", pt) # {}
  PROVE  \E s \in Paths : LongestPrefix(u, s, pt)
<1> DEFINE V == Values(u, "Prefix", pt)
           L == {PathBytes(s) : s \in V}
<1>1. \A s \in V : s \in Paths /\ PathBytes(s) \in Nat /\ PrefixMatches(s, pt)
  BY MatchTypes DEF Values, PathMatches
<1>2. pt \in Paths /\ PathBytes(pt) \in Nat
  BY PathsAssumption
<1>3. \A s \in V : PathBytes(s) <= PathBytes(pt)
  <2>1. TAKE s \in V
  <2>2. CASE s = pt
    BY <1>2, <2>2
  <2>3. CASE s # pt
    <3>1. IsStrictPrefix(s, pt)
      BY <1>1, <2>3 DEF PrefixMatches, IsStrictPrefix
    <3>2. QED
      BY <1>1, <1>2, <3>1, PathsAssumption
  <2>4. QED
    BY <2>2, <2>3
<1>4. L \in SUBSET Nat /\ L # {} /\ \A y \in L : y <= PathBytes(pt)
  BY <1>1, <1>3
<1>5. PICK m \in L : \A y \in L : y <= m
  <2> HIDE DEF L
  <2> QED BY <1>2, <1>4, BoundedHasGreatest
<1>6. QED
  BY <1>1, <1>5 DEF LongestPrefix

LEMMA PathScoreByRank ==
  ASSUME NEW u \in Rule, NEW pt \in Paths, PathApplies(u, pt)
  PROVE  /\ PathScores(u, pt) # {}
         /\ PathRank(u, pt) = 3 => Max(PathScores(u, pt)) = 10000 + PathBytes(pt)
         /\ PathRank(u, pt) = 2 => \A s \in Paths : LongestPrefix(u, s, pt) =>
                                 Max(PathScores(u, pt)) = 1000 + PathBytes(s)
         /\ PathRank(u, pt) = 1 => Max(PathScores(u, pt)) = 500
         /\ PathRank(u, pt) = 0 => Max(PathScores(u, pt)) = 0
         /\ PathRank(u, pt) \in {0, 1, 2, 3}
<1> DEFINE S == PathScores(u, pt)
           Applying == {m \in Range(u.matches) : PathMatches(m, pt)}
<1>1. PathBytes(pt) \in Nat
  BY PathsAssumption
<1>2. PathRank(u, pt) \in {0, 1, 2, 3}
  BY DEF PathRank
<1>3. CASE u.matches = <<>>
  <2>1. Range(u.matches) = {}
    BY <1>3 DEF Range
  <2>2. PathRank(u, pt) = 0
    BY <2>1 DEF PathRank, Values
  <2>3. S = {0}
    BY <1>3 DEF PathScores
  <2>4. QED
    BY <2>2, <2>3, MaxIs
<1>4. CASE u.matches # <<>>
  <2>1. S = {PathScore(m) : m \in Applying} /\ Applying # {}
    BY <1>4 DEF PathScores, PathApplies
  <2>2. \A m \in Applying :
          /\ m.type \in {"Exact", "Prefix", "Regex", "Unspecified"}
          /\ m.value \in Paths /\ PathBytes(m.value) \in Nat
          /\ m.value \in Values(u, m.type, pt)
    BY MatchTypes DEF Values
  <2>3. \A m \in Applying :
          /\ m.type = "Exact" => PathScore(m) = 10000 + PathBytes(pt)
          /\ m.type = "Prefix" => PathScore(m) = 1000 + PathBytes(m.value)
          /\ m.type = "Regex" => PathScore(m) = 500
          /\ m.type = "Unspecified" => PathScore(m) = 0
    BY <2>2 DEF PathMatches, PathScore, Base
  <2>4. \A m \in Applying : m.type = "Prefix" => PathBytes(m.value) <= PathBytes(pt)
    <3>1. SUFFICES ASSUME NEW m \in Applying, m.type = "Prefix", m.value # pt
                   PROVE  PathBytes(m.value) <= PathBytes(pt)
      BY <1>1
    <3>2. IsStrictPrefix(m.value, pt)
      BY <3>1 DEF PathMatches, PrefixMatches, IsStrictPrefix
    <3>3. QED
      BY <1>1, <2>2, <3>2, PathsAssumption
  <2>5. S \in SUBSET Nat /\ S # {}
    <3>1. \A m \in Applying : PathScore(m) \in Nat
      BY <1>1, <2>2, <2>3
    <3>2. QED
      BY <2>1, <3>1
  <2>6. \A t \in {"Exact", "Prefix", "Regex"} : Values(u, t, pt) # {} <=> \E m \in Applying : m.type = t
    BY DEF Values
  <2>7. CASE PathRank(u, pt) = 3
    <3>1. PICK m \in Applying : m.type = "Exact"
      BY <2>6, <2>7 DEF PathRank
    <3>2. 10000 + PathBytes(pt) \in S
      BY <2>1, <2>3, <3>1
    <3>3. \A n \in Applying : PathScore(n) <= 10000 + PathBytes(pt)
      BY <1>1, <2>2, <2>3, <2>4
    <3>4. Max(S) = 10000 + PathBytes(pt)
      <4> DEFINE top == 10000 + PathBytes(pt)
      <4>1. \A y \in S : y <= top
        BY <2>1, <3>3
      <4>2. top \in S
        BY <3>2
      <4>3. Max(S) = top
        <5> HIDE DEF S, top
        <5> QED BY <2>5, <4>1, <4>2, MaxIs
      <4>4. QED
        BY <4>3
    <3>5. QED
      BY <2>5, <2>7, <3>4
  <2>8. CASE PathRank(u, pt) = 2
    <3>1. ASSUME NEW s \in Paths, LongestPrefix(u, s, pt)
          PROVE  Max(S) = 1000 + PathBytes(s)
      <4>1. PICK m \in Applying : m.type = "Prefix" /\ m.value = s
        BY <3>1 DEF LongestPrefix, Values
      <4>2. 1000 + PathBytes(s) \in S
        BY <2>1, <2>3, <4>1
      <4>3. \A n \in Applying : n.type # "Exact"
        BY <2>6, <2>8 DEF PathRank
      <4>4. \A n \in Applying : n.type = "Prefix" => PathBytes(n.value) <= PathBytes(s)
        BY <2>2, <3>1 DEF LongestPrefix
      <4>5. \A n \in Applying : PathScore(n) <= 1000 + PathBytes(s)
        BY <2>2, <2>3, <4>1, <4>3, <4>4
      <4>6. \A y \in S : y <= 1000 + PathBytes(s)
        BY <2>1, <4>5
      <4> DEFINE top == 1000 + PathBytes(s)
      <4>7. Max(S) = top
        <5> HIDE DEF S, top
        <5>1. top \in S /\ \A y \in S : y <= top
          BY <4>2, <4>6 DEF top
        <5>2. QED
          BY <2>5, <5>1, MaxIs
      <4>8. QED
        BY <4>7
    <3>2. QED
      BY <2>5, <2>8, <3>1
  <2>9. CASE PathRank(u, pt) = 1
    <3>1. /\ \E m \in Applying : m.type = "Regex"
          /\ \A m \in Applying : m.type # "Exact" /\ m.type # "Prefix"
      BY <2>6, <2>9 DEF PathRank
    <3>2. 500 \in S /\ \A n \in Applying : PathScore(n) <= 500
      BY <2>1, <2>2, <2>3, <3>1
    <3>3. Max(S) = 500
      <4>1. \A y \in S : y <= 500
        BY <2>1, <3>2
      <4>2. QED
        <5> HIDE DEF S
        <5> QED BY <2>5, <3>2, <4>1, MaxIs
    <3>4. QED
      BY <2>5, <2>9, <3>3
  <2>10. CASE PathRank(u, pt) = 0
    <3>1. \A m \in Applying : m.type = "Unspecified"
      BY <2>2, <2>6, <2>10 DEF PathRank
    <3>2. S = {0}
      BY <2>1, <2>3, <3>1
    <3>3. Max(S) = 0
      BY <3>2, MaxIs
    <3>4. QED
      BY <2>5, <2>10, <3>3
  <2>11. QED
    BY <1>2, <2>7, <2>8, <2>9, <2>10
<1>5. QED
  BY <1>3, <1>4

\* PathScores is empty for a rule that does not apply.
LEMMA NoPathScore ==
  ASSUME NEW u, NEW pt
  PROVE  PathScores(u, pt) # {} <=> PathApplies(u, pt)
BY DEF PathScores, PathApplies

-----------------------------------------------------------------------------
(* The scores give the documented precedence.                              *)

LEMMA PathScoreIsPriority ==
  ASSUME NEW u \in Rule, NEW v \in Rule, NEW pt \in Paths, PathApplies(u, pt), PathApplies(v, pt)
  PROVE  /\ Max(PathScores(u, pt)) \in Nat
         /\ Max(PathScores(v, pt)) \in Nat
         /\ Max(PathScores(u, pt)) > Max(PathScores(v, pt)) <=>
              \/ PathRank(u, pt) > PathRank(v, pt)
              \/ PathRank(u, pt) = 2 /\ PathRank(v, pt) = 2 /\ LongerPrefix(u, v, pt)
<1> DEFINE a == Max(PathScores(u, pt))
           b == Max(PathScores(v, pt))
           d == PathBytes(pt)
<1>1. d \in Nat
  BY PathsAssumption
<1>2. /\ PathRank(u, pt) = 3 => a = 10000 + d
      /\ PathRank(u, pt) = 1 => a = 500
      /\ PathRank(u, pt) = 0 => a = 0
      /\ PathRank(u, pt) \in {0, 1, 2, 3}
  BY PathScoreByRank
<1>3. /\ PathRank(v, pt) = 3 => b = 10000 + d
      /\ PathRank(v, pt) = 1 => b = 500
      /\ PathRank(v, pt) = 0 => b = 0
      /\ PathRank(v, pt) \in {0, 1, 2, 3}
  BY PathScoreByRank
<1>4. ASSUME NEW w \in Rule, PathApplies(w, pt), PathRank(w, pt) = 2
      PROVE  \E s \in Paths :
               /\ LongestPrefix(w, s, pt)
               /\ Max(PathScores(w, pt)) = 1000 + PathBytes(s)
               /\ PathBytes(s) \in Nat /\ PathBytes(s) <= d
  <2>1. Values(w, "Prefix", pt) # {}
    BY <1>4 DEF PathRank
  <2>2. PICK s \in Paths : LongestPrefix(w, s, pt)
    BY <2>1, LongestPrefixExists
  <2>3. PrefixMatches(s, pt)
    BY <2>2 DEF LongestPrefix, Values, PathMatches
  <2>4. PathBytes(s) <= d
    <3>1. s = pt \/ IsStrictPrefix(s, pt)
      BY <2>3 DEF PrefixMatches, IsStrictPrefix
    <3>2. QED
      BY <1>1, <3>1, PathsAssumption
  <2>5. QED
    BY <1>4, <2>2, <2>4, PathScoreByRank, PathsAssumption
<1>5. CASE PathRank(u, pt) = 2 /\ PathRank(v, pt) = 2
  <2>1. PICK s \in Paths : /\ LongestPrefix(u, s, pt) /\ a = 1000 + PathBytes(s)
                           /\ PathBytes(s) \in Nat
    BY <1>4, <1>5
  <2>2. PICK t \in Paths : /\ LongestPrefix(v, t, pt) /\ b = 1000 + PathBytes(t)
                           /\ PathBytes(t) \in Nat
    BY <1>4, <1>5
  <2>3. \A w \in {u, v} : \A x \in Values(w, "Prefix", pt) :
          x \in Paths /\ PathBytes(x) \in Nat /\ PrefixMatches(x, pt)
    BY MatchTypes DEF Values, PathMatches
  <2>4. s \in Values(u, "Prefix", pt) /\ t \in Values(v, "Prefix", pt)
    BY <2>1, <2>2 DEF LongestPrefix
  <2>5. ASSUME PathBytes(s) > PathBytes(t) PROVE LongerPrefix(u, v, pt)
    <3>1. \A x \in Values(v, "Prefix", pt) : PathBytes(s) > PathBytes(x)
      BY <2>1, <2>2, <2>3, <2>5 DEF LongestPrefix
    <3>2. \A x \in Values(v, "Prefix", pt) : Len(s) > Len(x)
      BY <2>3, <2>4, <3>1, LongerHasMoreBytes
    <3>3. QED
      BY <2>4, <3>2 DEF LongerPrefix
  <2>6. ASSUME LongerPrefix(u, v, pt) PROVE PathBytes(s) > PathBytes(t)
    <3>1. PICK x \in Values(u, "Prefix", pt) : \A y \in Values(v, "Prefix", pt) : Len(x) > Len(y)
      BY <2>6 DEF LongerPrefix
    <3>2. PathBytes(x) > PathBytes(t)
      BY <2>3, <2>4, <3>1, LongerHasMoreBytes
    <3>3. PathBytes(x) <= PathBytes(s)
      BY <2>1 DEF LongestPrefix
    <3>4. QED
      BY <2>1, <2>2, <2>3, <3>2, <3>3
  <2>7. QED
    BY <1>5, <2>1, <2>2, <2>5, <2>6
<1>6. CASE PathRank(u, pt) = 2 /\ PathRank(v, pt) # 2
  <2>1. PICK s \in Paths : a = 1000 + PathBytes(s) /\ PathBytes(s) \in Nat /\ PathBytes(s) <= d
    BY <1>4, <1>6
  <2>2. QED
    BY <1>1, <1>3, <1>6, <2>1
<1>7. CASE PathRank(u, pt) # 2 /\ PathRank(v, pt) = 2
  <2>1. PICK s \in Paths : b = 1000 + PathBytes(s) /\ PathBytes(s) \in Nat /\ PathBytes(s) <= d
    BY <1>4, <1>7
  <2>2. QED
    BY <1>1, <1>2, <1>7, <2>1
<1>8. CASE PathRank(u, pt) # 2 /\ PathRank(v, pt) # 2
  BY <1>1, <1>2, <1>3, <1>8
<1>9. QED
  BY <1>5, <1>6, <1>7, <1>8

LEMMA RulesAreRules ==
  ASSUME NEW r \in Route
  PROVE  /\ Len(r.rules) \in Nat /\ DOMAIN r.rules = 1..Len(r.rules)
         /\ \A i \in DOMAIN r.rules : r.rules[i] \in Rule
BY ElementOfSeq DEF Route

\* The scores of rule i of route r for a host and a path.
Scores(r, i, h, pt) == <<Max(HostScores(r, h)), Max(PathScores(r.rules[i], pt))>>

\* A rule takes precedence over another exactly when its scores are higher.
LEMMA HigherIsPriority ==
  ASSUME NEW h \in Host, NEW pt \in Paths,
         NEW r \in Route, NEW i \in DOMAIN r.rules, Applies(r, i, h, pt),
         NEW q \in Route, NEW j \in DOMAIN q.rules, Applies(q, j, h, pt)
  PROVE  /\ Scores(r, i, h, pt) \in Nat \X Nat
         /\ Outranks(r, i, q, j, h, pt) <=> Higher(Scores(r, i, h, pt), Scores(q, j, h, pt))
<1> DEFINE u == r.rules[i]
           v == q.rules[j]
           s == Scores(r, i, h, pt)
           t == Scores(q, j, h, pt)
<1>1. /\ u \in Rule /\ v \in Rule /\ PathApplies(u, pt) /\ PathApplies(v, pt)
      /\ HostApplies(r, h) /\ HostApplies(q, h)
  BY RulesAreRules DEF Applies
<1>2. s[2] > t[2] <=>
        \/ PathRank(u, pt) > PathRank(v, pt)
        \/ PathRank(u, pt) = 2 /\ PathRank(v, pt) = 2 /\ LongerPrefix(u, v, pt)
  BY <1>1, PathScoreIsPriority DEF Scores
<1>3. /\ s[1] > t[1] <=> HostRank(r, h) > HostRank(q, h)
      /\ s[1] = t[1] <=> HostRank(r, h) = HostRank(q, h)
  <2>1. s[1] = Max(HostScores(r, h)) /\ t[1] = Max(HostScores(q, h))
    BY DEF Scores
  <2>2. QED
    BY <1>1, <2>1, HostScoreByRank
<1>4. s \in Nat \X Nat
  BY <1>1, HostScoreByRank, PathScoreIsPriority DEF Scores
<1>5. QED
  BY <1>2, <1>3, <1>4 DEF Outranks, Higher

-----------------------------------------------------------------------------
(* Some rule is first.                                                     *)

\* A finite set has a member that no other is above in a strict order.
LEMMA MaximalExists ==
  ASSUME NEW S, IsFiniteSet(S), S # {}, NEW R,
         \A x \in S : <<x, x>> \notin R,
         \A x, y, z \in S : <<x, y>> \in R /\ <<y, z>> \in R => <<x, z>> \in R
  PROVE  \E x \in S : \A y \in S : <<y, x>> \notin R
<1> DEFINE Above(x) == {y \in S : <<y, x>> \in R}
           A == {Above(x) : x \in S}
<1>1. IsWellFoundedOn(StrictSubsetOrdering(S), FiniteSubsetsOf(S))
  BY FS_StrictSubsetOrderingWellFounded
<1>2. A \subseteq FiniteSubsetsOf(S) /\ A # {}
  <2>1. \A x \in S : Above(x) \in SUBSET S
    OBVIOUS
  <2> HIDE DEF Above
  <2>2. \A x \in S : IsFiniteSet(Above(x))
    BY <2>1, FS_Subset
  <2>3. QED
    BY <2>1, <2>2 DEF FiniteSubsetsOf
<1>3. PICK a \in A : \A b \in A : <<b, a>> \notin StrictSubsetOrdering(S)
  <2> HIDE DEF A
  <2>1. QED
    BY <1>1, <1>2, WFMin
<1>4. PICK x \in S : a = Above(x)
  OBVIOUS
<1>5. ASSUME NEW y \in S, <<y, x>> \in R PROVE FALSE
  <2>1. Above(y) \subseteq Above(x)
    BY <1>5
  <2>2. y \in Above(x) /\ y \notin Above(y)
    BY <1>5
  <2>3. Above(y) \in A /\ Above(x) \in SUBSET S /\ Above(y) \in SUBSET S
    OBVIOUS
  <2> HIDE DEF Above, A
  <2>4. <<Above(y), Above(x)>> \in StrictSubsetOrdering(S)
    BY <2>1, <2>2, <2>3 DEF StrictSubsetOrdering
  <2>5. QED
    BY <1>3, <1>4, <2>3, <2>4
<1>6. QED
  BY <1>5

\* Pairs of scores are in a strict order, and an earlier rule breaks a tie.
LEMMA HigherIsStrict ==
  ASSUME NEW s \in Nat \X Nat, NEW t \in Nat \X Nat, NEW u \in Nat \X Nat
  PROVE  /\ ~Higher(s, s)
         /\ Higher(s, t) /\ Higher(t, u) => Higher(s, u)
         /\ Higher(s, t) \/ Higher(t, s) \/ s = t
BY DEF Higher

\* A route with a rule that applies has a best one: none of its rules outranks
\* it, and it outranks each that comes before it.
FirstRule(r, i, h, pt) ==
  /\ i \in DOMAIN r.rules
  /\ Applies(r, i, h, pt)
  /\ \A j \in DOMAIN r.rules : Applies(r, j, h, pt) =>
       /\ ~Outranks(r, j, r, i, h, pt)
       /\ j < i => Outranks(r, i, r, j, h, pt)

LEMMA FirstRuleExists ==
  ASSUME NEW h \in Host, NEW pt \in Paths, NEW r \in Route,
         \E i \in DOMAIN r.rules : Applies(r, i, h, pt)
  PROVE  \E i : FirstRule(r, i, h, pt)
<1> DEFINE S == {i \in DOMAIN r.rules : Applies(r, i, h, pt)}
           score(i) == Scores(r, i, h, pt)
           Better(j, i) == Higher(score(j), score(i)) \/ (score(j) = score(i) /\ j < i)
           R == {p \in S \X S : Better(p[1], p[2])}
<1>1. S # {} /\ S \in SUBSET (1..Len(r.rules)) /\ Len(r.rules) \in Nat
  BY RulesAreRules
<1>2. IsFiniteSet(S)
  <2>1. IsFiniteSet(1..Len(r.rules))
    BY <1>1, FS_Interval
  <2> HIDE DEF S
  <2>2. QED
    BY <1>1, <2>1, FS_Subset
<1>3. ASSUME NEW i \in S, NEW j \in S
      PROVE  /\ score(i) \in Nat \X Nat
             /\ Outranks(r, i, r, j, h, pt) <=> Higher(score(i), score(j))
  BY HigherIsPriority
<1>4. \A i, j \in S : <<i, j>> \in R <=> Better(i, j)
  OBVIOUS
<1>5. \A i \in S : i \in Nat
  BY <1>1
<1> HIDE DEF S, R, score
<1>6. \A i \in S : ~Better(i, i)
  BY <1>3, <1>5, HigherIsStrict
<1>7. ASSUME NEW i \in S, NEW j \in S, NEW k \in S, Better(i, j), Better(j, k)
      PROVE  Better(i, k)
  <2>1. score(i) \in Nat \X Nat /\ score(j) \in Nat \X Nat /\ score(k) \in Nat \X Nat
    BY <1>3
  <2>2. i \in Nat /\ j \in Nat /\ k \in Nat
    BY <1>5
  <2>3. QED
    BY <1>7, <2>1, <2>2, HigherIsStrict
<1>8. PICK i \in S : \A j \in S : ~Better(j, i)
  <2> HIDE DEF Better
  <2>1. \A x \in S : <<x, x>> \notin R
    BY <1>4, <1>6
  <2>2. \A x, y, z \in S : <<x, y>> \in R /\ <<y, z>> \in R => <<x, z>> \in R
    BY <1>4, <1>7
  <2>3. PICK i \in S : \A j \in S : <<j, i>> \notin R
    BY <1>1, <1>2, <2>1, <2>2, MaximalExists
  <2>4. QED
    BY <1>4, <2>3
<1>9. ASSUME NEW j \in S
      PROVE  /\ ~Outranks(r, j, r, i, h, pt)
             /\ j < i => Outranks(r, i, r, j, h, pt)
  <2>1. score(i) \in Nat \X Nat /\ score(j) \in Nat \X Nat /\ ~Better(j, i)
    BY <1>3, <1>8
  <2>2. QED
    BY <1>3, <2>1, HigherIsStrict
<1>10. QED
  BY <1>8, <1>9 DEF S, FirstRule

\* Whatever the routes, the host and the path, the documented precedence puts
\* some rule first, or no rule applies: it never goes in a circle and is never
\* short of an answer, so a scan of cloned routes can be taken as one step
\* (Router::find_backend, src/proxy/router.rs:64-105).
THEOREM SomeRuleIsFirst ==
  ASSUME NEW T \in SUBSET Route, IsFiniteSet(T), NEW h \in Host, NEW pt \in Paths
  PROVE  \/ IsFirst(None, T, h, pt)
         \/ \E r \in T : \E i \in DOMAIN r.rules :
              IsFirst([route |-> r, rule |-> i], T, h, pt)
<1> DEFINE S == {r \in T : \E i \in DOMAIN r.rules : Applies(r, i, h, pt)}
           first == [r \in S |-> CHOOSE i : FirstRule(r, i, h, pt)]
           score(r) == Scores(r, first[r], h, pt)
           R == {p \in S \X S : Higher(score(p[1]), score(p[2]))}
<1>1. CASE S = {}
  BY <1>1 DEF IsFirst
<1>2. CASE S # {}
  <2>1. IsFiniteSet(S)
    <3>1. S \in SUBSET T
      OBVIOUS
    <3> HIDE DEF S
    <3>2. QED
      BY <3>1, FS_Subset
  <2>2. \A r \in S : r \in Route /\ FirstRule(r, first[r], h, pt)
    <3>1. TAKE r \in S
    <3>2. r \in Route /\ \E i : FirstRule(r, i, h, pt)
      BY FirstRuleExists
    <3> HIDE DEF S
    <3>3. QED
      BY <3>2
  <2>3. ASSUME NEW r \in S, NEW q \in S
        PROVE  /\ score(r) \in Nat \X Nat
               /\ Outranks(q, first[q], r, first[r], h, pt) <=> Higher(score(q), score(r))
    <3> HIDE DEF S, first
    <3>1. QED
      BY <2>2, HigherIsPriority DEF FirstRule
  <2>4. \A r, q \in S : <<r, q>> \in R <=> Higher(score(r), score(q))
    OBVIOUS
  <2>5. S \subseteq T
    OBVIOUS
  <2>6. \A q \in T : \A j \in DOMAIN q.rules : Applies(q, j, h, pt) => q \in S
    OBVIOUS
  <2> HIDE DEF S, R, first, score
  <2>7. PICK r \in S : \A q \in S : ~Higher(score(q), score(r))
    <3>1. \A x \in S : <<x, x>> \notin R
      BY <2>3, <2>4, HigherIsStrict
    <3>2. \A x, y, z \in S : <<x, y>> \in R /\ <<y, z>> \in R => <<x, z>> \in R
      BY <2>3, <2>4, HigherIsStrict
    <3>3. PICK r \in S : \A q \in S : <<q, r>> \notin R
      BY <1>2, <2>1, <3>1, <3>2, MaximalExists
    <3>4. QED
      BY <2>4, <3>3
  <2> DEFINE i == first[r]
  <2>8. FirstRule(r, i, h, pt) /\ r \in Route /\ r \in T
    BY <2>2, <2>5
  <2>9. ASSUME NEW q \in T, NEW j \in DOMAIN q.rules, Applies(q, j, h, pt)
        PROVE  ~Outranks(q, j, r, i, h, pt)
    <3>1. q \in S /\ q \in Route
      BY <2>6, <2>9
    <3>2. FirstRule(q, first[q], h, pt)
      BY <2>2, <3>1
    <3>3. ~Higher(Scores(q, j, h, pt), Scores(q, first[q], h, pt))
      BY <2>9, <3>1, <3>2, HigherIsPriority DEF FirstRule
    <3>4. ~Higher(score(q), score(r)) /\ score(q) = Scores(q, first[q], h, pt)
      BY <2>7, <3>1 DEF score
    <3>5. /\ Scores(q, j, h, pt) \in Nat \X Nat
          /\ score(q) \in Nat \X Nat /\ score(r) \in Nat \X Nat
      BY <2>3, <2>9, <3>1, HigherIsPriority
    <3>6. ~Higher(Scores(q, j, h, pt), score(r))
      BY <3>3, <3>4, <3>5 DEF Higher
    <3>7. score(r) = Scores(r, i, h, pt)
      BY DEF score
    <3>8. QED
      BY <2>8, <2>9, <3>1, <3>6, <3>7, HigherIsPriority DEF FirstRule
  <2> DEFINE m == [route |-> r, rule |-> i]
  <2>10. m # None
    <3>1. i \in Nat /\ r \in Route
      BY <2>8, RulesAreRules DEF FirstRule
    <3>2. m \in [route : Route, rule : Nat]
      BY <3>1
    <3>3. QED
      BY <3>2, NoneAssumption
  <2>11. IsFirst(m, T, h, pt)
    BY <2>8, <2>9, <2>10 DEF IsFirst, FirstRule
  <2>12. QED
    BY <2>8, <2>11 DEF FirstRule
<1>3. QED
  BY <1>1, <1>2
=============================================================================
