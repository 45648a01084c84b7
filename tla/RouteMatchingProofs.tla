------------------------- MODULE RouteMatchingProofs -------------------------
(***************************************************************************)
(* Proofs about the choice of a rule: the scan finds the first of the best *)
(* rules, whatever the order of the routes and the size of the tables.     *)
(***************************************************************************)
EXTENDS RouteMatching, RouteRulesProofs

-----------------------------------------------------------------------------
(* The scan.                                                               *)

LEMMA NormalizeIsHost ==
  ASSUME NEW name \in Host \cup Literals
  PROVE  Normalize(name) \in Host
BY NamesAssumption DEF Normalize, Host

LEMMA ScoreIsPriority ==
  ASSUME host \in Host, path \in Paths,
         NEW r \in Route, NEW i \in DOMAIN r.rules, Applies(r, i, host, path),
         NEW q \in Route, NEW j \in DOMAIN q.rules, Applies(q, j, host, path)
  PROVE  Outranks(r, i, q, j, host, path) <=> Higher(Score(r, i), Score(q, j))
BY HigherIsPriority DEF Scores, Score

LEMMA ScoreIsPair ==
  ASSUME host \in Host, path \in Paths,
         NEW r \in Route, NEW i \in DOMAIN r.rules, Applies(r, i, host, path)
  PROVE  Score(r, i) \in Nat \X Nat
BY HigherIsPriority DEF Scores, Score

LEMMA HigherIsOrder ==
  ASSUME NEW s \in Nat \X Nat, NEW t \in Nat \X Nat, NEW u \in Nat \X Nat,
         Higher(s, t), ~Higher(u, t)
  PROVE  Higher(s, u) /\ ~Higher(u, s)
BY DEF Higher

\* The rules that the scan has visited.
Visited(r, i) ==
  /\ r \in table \ todo
  /\ i \in DOMAIN r.rules
  /\ r = route => i < rule

\* The best match so far is the first of the highest among those visited.
BestSoFar ==
  IF best = None
  THEN \A r \in table : \A i \in DOMAIN r.rules : Visited(r, i) => ~Applies(r, i, host, path)
  ELSE /\ Visited(best.route, best.rule)
       /\ Applies(best.route, best.rule, host, path)
       /\ best.score = Score(best.route, best.rule)
       /\ \A r \in table : \A i \in DOMAIN r.rules :
            Visited(r, i) /\ Applies(r, i, host, path) =>
              /\ ~Higher(Score(r, i), best.score)
              /\ r = best.route /\ i < best.rule => Higher(best.score, Score(r, i))

ScanInv ==
  /\ MatchTypeOK
  /\ route # None => HostApplies(route, host)
  /\ BestSoFar

LEMMA InitScan == Init => ScanInv
BY DEF Init, ScanInv, MatchTypeOK, BestSoFar, Visited

\* A step that leaves the request and the best match alone, and visits only
\* rules that do not apply, keeps the invariant.
LEMMA BestSoFarKept ==
  ASSUME BestSoFar, best' = best, host' = host, path' = path, table' = table,
         \A r \in table : \A i \in DOMAIN r.rules :
           /\ Visited(r, i) => Visited(r, i)'
           /\ Visited(r, i)' => Visited(r, i) \/ ~Applies(r, i, host, path)
  PROVE  BestSoFar'
<1>1. \A r : \A i : /\ Applies(r, i, host, path)' <=> Applies(r, i, host, path)
                    /\ Score(r, i)' = Score(r, i)
  BY DEF Applies, HostApplies, PathApplies, Score
<1>2. CASE best = None
  BY <1>1, <1>2 DEF BestSoFar
<1>3. CASE best # None
  <2>1. Visited(best.route, best.rule)'
    BY <1>3 DEF BestSoFar, Visited
  <2>2. QED
    BY <1>1, <1>3, <2>1 DEF BestSoFar
<1>4. QED
  BY <1>2, <1>3

LEMMA StepScan == ScanInv /\ [Next]_vars => ScanInv'
<1>1. SUFFICES ASSUME ScanInv, [Next]_vars PROVE ScanInv'
  OBVIOUS
<1> USE <1>1
<1>2. /\ MatchTypeOK /\ BestSoFar /\ (route # None => HostApplies(route, host))
      /\ host \in Host /\ path \in Paths
      /\ table \subseteq Route /\ todo \subseteq table
      /\ route \in (table \ todo) \cup {None}
      /\ rule \in Nat \ {0}
      /\ best \in Match \cup {None}
  BY DEF ScanInv, MatchTypeOK
<1>3. ASSUME NEW name \in Host \cup Literals, NEW p \in Paths, NEW T \in SUBSET Route,
             FindBackend(name, p, T)
      PROVE  ScanInv'
  <2>1. host' \in Host
    BY <1>3, NormalizeIsHost DEF FindBackend
  <2>2. MatchTypeOK'
    BY <1>2, <1>3, <2>1 DEF FindBackend, MatchTypeOK, Scanning
  <2>3. BestSoFar' /\ route' = None
    BY <1>3 DEF FindBackend, BestSoFar, Visited, Scanning
  <2>4. QED
    BY <2>2, <2>3 DEF ScanInv
<1>4. ASSUME NEW r \in todo, PassRoute(r) PROVE ScanInv'
  <2>1. MatchTypeOK'
    BY <1>2, <1>4 DEF PassRoute, MatchTypeOK
  <2>2. ~HostApplies(r, host)
    BY <1>2, <1>4, NoHostScore DEF PassRoute
  <2>3. \A q \in table : \A i \in DOMAIN q.rules :
          /\ Visited(q, i) => Visited(q, i)'
          /\ Visited(q, i)' => Visited(q, i) \/ ~Applies(q, i, host, path)
    BY <1>4, <2>2 DEF PassRoute, Visited, Applies
  <2>4. BestSoFar'
    BY <1>2, <1>4, <2>3, BestSoFarKept DEF PassRoute
  <2>5. route' = None
    BY <1>4 DEF PassRoute
  <2>6. QED
    BY <2>1, <2>4, <2>5 DEF ScanInv
<1>5. ASSUME NEW r \in todo, EnterRoute(r) PROVE ScanInv'
  <2>1. MatchTypeOK'
    BY <1>2, <1>5 DEF EnterRoute, MatchTypeOK
  <2>2. HostApplies(r, host) /\ (HostApplies(r, host))' /\ route' = r
    BY <1>2, <1>5, NoHostScore DEF EnterRoute, HostApplies
  <2>3. \A q \in table : \A i \in DOMAIN q.rules :
          Visited(q, i)' <=> Visited(q, i)
    <3>1. TAKE q \in table
    <3>2. TAKE i \in DOMAIN q.rules
    <3>3. i \in Nat /\ i >= 1
      BY <1>2, RulesAreRules
    <3>4. None \notin table
      BY <1>2, NoneAssumption
    <3>5. QED
      BY <1>2, <1>5, <3>3, <3>4 DEF EnterRoute, Visited
  <2>4. BestSoFar'
    BY <1>2, <1>5, <2>3, BestSoFarKept DEF EnterRoute
  <2>5. QED
    BY <2>1, <2>2, <2>4 DEF ScanInv, HostApplies
<1>6. CASE LeaveRoute
  <2>1. MatchTypeOK'
    BY <1>2, <1>6 DEF LeaveRoute, MatchTypeOK
  <2>2. \A q \in table : \A i \in DOMAIN q.rules :
          Visited(q, i)' <=> Visited(q, i)
    <3>1. TAKE q \in table
    <3>2. TAKE i \in DOMAIN q.rules
    <3>3. i \in 1..Len(q.rules) /\ Len(q.rules) \in Nat /\ q # None
      BY <1>2, RulesAreRules, NoneAssumption
    <3>4. QED
      BY <1>2, <1>6, <3>3 DEF LeaveRoute, Visited
  <2>3. BestSoFar'
    BY <1>2, <1>6, <2>2, BestSoFarKept DEF LeaveRoute
  <2>4. QED
    BY <1>6, <2>1, <2>3 DEF ScanInv, LeaveRoute
<1>7. CASE VisitRule
  <2> DEFINE hit == route.rules[rule]
             found == [route |-> route, rule |-> rule, score |-> Score(route, rule)]
  <2>1. /\ route \in Route /\ route \in table \ todo /\ route # None
        /\ rule \in DOMAIN route.rules /\ HostApplies(route, host)
        /\ host' = host /\ path' = path /\ table' = table /\ todo' = todo
        /\ route' = route /\ rule' = rule + 1
    BY <1>2, <1>7, RulesAreRules, NoneAssumption DEF VisitRule
  <2>2. Applies(route, rule, host, path) <=> hit.backends # <<>> /\ PathScores(hit, path) # {}
    BY <2>1, NoPathScore DEF Applies
  <2>3. Applies(route, rule, host, path) => found \in Match
    BY <1>2, <2>1, ScoreIsPair DEF Match
  <2>4. best' = IF Applies(route, rule, host, path) /\ (best = None \/ Higher(Score(route, rule), best.score))
                THEN found ELSE best
    BY <1>7, <2>2 DEF VisitRule
  <2>5. MatchTypeOK'
    BY <1>2, <2>1, <2>3, <2>4 DEF MatchTypeOK
  <2>6. \A r : \A i : /\ Applies(r, i, host, path)' <=> Applies(r, i, host, path)
                      /\ Score(r, i)' = Score(r, i)
    BY <2>1 DEF Applies, HostApplies, PathApplies, Score
  <2>7. \A q \in table : \A i \in DOMAIN q.rules :
          Visited(q, i)' <=> Visited(q, i) \/ (q = route /\ i = rule)
    <3>1. TAKE q \in table
    <3>2. TAKE i \in DOMAIN q.rules
    <3>3. i \in Nat
      BY <1>2, RulesAreRules
    <3>4. QED
      BY <1>2, <2>1, <3>3 DEF Visited
  <2>8. CASE ~Applies(route, rule, host, path)
    <3>1. best' = best
      BY <2>4, <2>8
    <3>2. BestSoFar'
      BY <1>2, <2>1, <2>7, <2>8, <3>1, BestSoFarKept
    <3>3. QED
      BY <2>1, <2>5, <3>2 DEF ScanInv, HostApplies
  <2>9. CASE Applies(route, rule, host, path) /\ best = None
    <3>1. best' = found /\ best' # None
      BY <2>3, <2>4, <2>9, NoneAssumption
    <3>2. \A q \in table : \A i \in DOMAIN q.rules :
            Visited(q, i)' /\ Applies(q, i, host, path) => q = route /\ i = rule
      BY <1>2, <2>7, <2>9 DEF BestSoFar
    <3>3. Score(route, rule) \in Nat \X Nat
      BY <1>2, <2>1, <2>9, ScoreIsPair
    <3>4. ~Higher(Score(route, rule), Score(route, rule)) /\ ~(rule < rule)
      BY <1>2, <3>3 DEF Higher
    <3>5. BestSoFar'
      BY <2>1, <2>6, <2>7, <2>9, <3>1, <3>2, <3>4 DEF BestSoFar
    <3>6. QED
      BY <2>1, <2>5, <3>5 DEF ScanInv, HostApplies
  <2>10. CASE Applies(route, rule, host, path) /\ best # None /\ Higher(Score(route, rule), best.score)
    <3>1. best' = found /\ best' # None
      BY <2>3, <2>4, <2>10, NoneAssumption
    <3>2. Score(route, rule) \in Nat \X Nat /\ best.score \in Nat \X Nat
      BY <1>2, <2>1, <2>10, ScoreIsPair DEF Match
    <3>3. \A q \in table : \A i \in DOMAIN q.rules :
            Visited(q, i) /\ Applies(q, i, host, path) =>
              /\ ~Higher(Score(q, i), Score(route, rule))
              /\ Higher(Score(route, rule), Score(q, i))
      <4>1. SUFFICES ASSUME NEW q \in table, NEW i \in DOMAIN q.rules,
                            Visited(q, i), Applies(q, i, host, path)
                     PROVE  /\ ~Higher(Score(q, i), Score(route, rule))
                            /\ Higher(Score(route, rule), Score(q, i))
        OBVIOUS
      <4>2. Score(q, i) \in Nat \X Nat
        BY <1>2, <4>1, ScoreIsPair
      <4>3. ~Higher(Score(q, i), best.score)
        BY <1>2, <2>10, <4>1 DEF BestSoFar
      <4>4. QED
        BY <2>10, <3>2, <4>2, <4>3, HigherIsOrder
    <3>4. ~Higher(Score(route, rule), Score(route, rule)) /\ ~(rule < rule)
      BY <1>2, <3>2 DEF Higher
    <3>5. BestSoFar'
      BY <2>1, <2>6, <2>7, <2>10, <3>1, <3>3, <3>4 DEF BestSoFar
    <3>6. QED
      BY <2>1, <2>5, <3>5 DEF ScanInv, HostApplies
  <2>11. CASE Applies(route, rule, host, path) /\ best # None /\ ~Higher(Score(route, rule), best.score)
    <3>1. best' = best
      BY <2>4, <2>11
    <3>2. best.route \in table /\ best.rule \in DOMAIN best.route.rules
      BY <1>2, <2>11 DEF BestSoFar, Visited
    <3>3. ~(route = best.route /\ rule < best.rule)
      <4>1. best.rule \in Nat
        BY <1>2, <3>2, RulesAreRules
      <4>2. QED
        BY <1>2, <2>11, <4>1 DEF BestSoFar, Visited
    <3>4. BestSoFar'
      BY <1>2, <2>1, <2>6, <2>7, <2>11, <3>1, <3>2, <3>3 DEF BestSoFar
    <3>5. QED
      BY <2>1, <2>5, <3>4 DEF ScanInv, HostApplies
  <2>12. QED
    BY <2>8, <2>9, <2>10, <2>11
<1>8. CASE UNCHANGED vars
  <2>1. MatchTypeOK'
    BY <1>2, <1>8 DEF vars, MatchTypeOK
  <2>2. BestSoFar'
    BY <1>2, <1>8, BestSoFarKept DEF vars, Visited
  <2>3. QED
    BY <1>2, <1>8, <2>1, <2>2 DEF vars, ScanInv, HostApplies
<1>9. ASSUME NEW call \in Calls, FindBackend(call[1], call[2], call[3])
      PROVE  ScanInv'
  <2>1. call[1] \in Host \cup Literals /\ call[2] \in Paths /\ call[3] \in SUBSET Route
    BY CallsAssumption
  <2>2. QED
    BY <1>3, <1>9, <2>1
<1>10. QED
  BY <1>4, <1>5, <1>6, <1>7, <1>8, <1>9 DEF Next

\* The state of a scan keeps its type: the route it is in is one that it has
\* cloned and will not come to again (Router::find_backend).
THEOREM MatchTypeCorrect == Spec => []MatchTypeOK
<1>1. ScanInv => MatchTypeOK
  BY DEF ScanInv
<1>2. QED
  BY <1>1, InitScan, StepScan, PTL DEF Spec

LEMMA ScanEndsFirst == ScanInv => DocumentedPriority
<1>1. SUFFICES ASSUME ScanInv, ~Scanning PROVE DocumentedPriority
  BY DEF DocumentedPriority
<1>2. /\ BestSoFar /\ table \subseteq Route /\ host \in Host /\ path \in Paths
      /\ todo = {} /\ route = None
  BY <1>1 DEF ScanInv, MatchTypeOK, Scanning
<1>3. \A r \in table : \A i \in DOMAIN r.rules : Visited(r, i)
  BY <1>2, NoneAssumption DEF Visited
<1>4. CASE best = None
  BY <1>2, <1>3, <1>4 DEF BestSoFar, DocumentedPriority, IsFirst
<1>5. CASE best # None
  <2>1. /\ best.route \in table /\ best.rule \in DOMAIN best.route.rules
        /\ Applies(best.route, best.rule, host, path)
        /\ best.score = Score(best.route, best.rule)
    BY <1>2, <1>5 DEF BestSoFar, Visited
  <2>2. ASSUME NEW r \in table, NEW i \in DOMAIN r.rules, Applies(r, i, host, path)
        PROVE  /\ ~Outranks(r, i, best.route, best.rule, host, path)
               /\ r = best.route /\ i < best.rule => Outranks(best.route, best.rule, r, i, host, path)
    <3>1. /\ ~Higher(Score(r, i), best.score)
          /\ r = best.route /\ i < best.rule => Higher(best.score, Score(r, i))
      BY <1>2, <1>3, <1>5, <2>2 DEF BestSoFar
    <3>2. Outranks(r, i, best.route, best.rule, host, path) <=> Higher(Score(r, i), best.score)
      BY <1>2, <2>1, <2>2, ScoreIsPriority
    <3>3. Outranks(best.route, best.rule, r, i, host, path) <=> Higher(best.score, Score(r, i))
      BY <1>2, <2>1, <2>2, ScoreIsPriority
    <3>4. QED
      BY <3>1, <3>2, <3>3
  <2>3. QED
    BY <1>5, <2>1, <2>2 DEF DocumentedPriority, IsFirst
<1>6. QED
  BY <1>4, <1>5

\* Whatever lengths patterns, hosts and paths have, and in whatever order the
\* routes come, find_backend chooses the rule that the documented precedence
\* puts first.
THEOREM PriorityCorrect == Spec => []DocumentedPriority
BY InitScan, StepScan, ScanEndsFirst, PTL DEF Spec

-----------------------------------------------------------------------------
(* The scan is one question and one answer.                                *)

\* Of a match, the precedence sees the route and the rule.
LEMMA FirstIsRule ==
  ASSUME NEW m, NEW n, m # None, n # None, n.route = m.route, n.rule = m.rule,
         NEW T, NEW h, NEW t, IsFirst(m, T, h, t)
  PROVE  IsFirst(n, T, h, t)
BY DEF IsFirst

\* What a scan that is over has decided, the precedence puts first.
LEMMA DecidedIsFirst == ScanInv /\ ~Scanning => IsFirst(Decided, table, host, path)
<1> SUFFICES ASSUME ScanInv, ~Scanning PROVE IsFirst(Decided, table, host, path)
  OBVIOUS
<1>1. IsFirst(best, table, host, path)
  BY ScanEndsFirst DEF DocumentedPriority
<1>2. CASE best = None
  BY <1>1, <1>2 DEF Decided
<1>3. CASE best # None
  <2> DEFINE found == [route |-> best.route, rule |-> best.rule]
  <2>1. found \in [route : Route, rule : Nat]
    BY <1>3 DEF ScanInv, MatchTypeOK, Match
  <2>2. found # None /\ found.route = best.route /\ found.rule = best.rule
    BY <2>1, NoneAssumption
  <2>3. Decided = found
    BY <1>3 DEF Decided
  <2> HIDE DEF found
  <2>4. QED
    BY <1>1, <1>3, <2>2, <2>3, FirstIsRule
<1>4. QED
  BY <1>2, <1>3

\* The rules that RuleChoice speaks of are those of RouteRules.
LEMMA SameRules ==
  /\ Choice!Host = Host /\ Choice!Route = Route
  /\ \A m, T, h, t : Choice!IsFirst(m, T, h, t) <=> IsFirst(m, T, h, t)
<1>1. Choice!Host = Host /\ Choice!Route = Route
  BY DEF Choice!Host, Host, Choice!Pattern, Pattern, Choice!PathMatch, PathMatch,
         Choice!Rule, Rule, Choice!Route, Route
<1>2. \A p, h : Choice!HostnameMatches(p, h) <=> HostnameMatches(p, h)
  BY DEF Choice!HostnameMatches, HostnameMatches
<1>3. \A m, t : Choice!PathMatches(m, t) <=> PathMatches(m, t)
  BY DEF Choice!PathMatches, PathMatches, Choice!PrefixMatches, PrefixMatches,
         Choice!IsPrefix, IsPrefix, Choice!Last, Last
<1>4. \A r, i, h, t : Choice!Applies(r, i, h, t) <=> Applies(r, i, h, t)
  BY <1>2, <1>3 DEF Choice!Applies, Applies, Choice!HostApplies, HostApplies,
                    Choice!PathApplies, PathApplies, Choice!Range, Range
<1>5. \A r, h : Choice!HostRank(r, h) = HostRank(r, h)
  BY <1>2 DEF Choice!HostRank, HostRank, Choice!By, By, Choice!Range, Range
<1>6. \A u, type, t : Choice!Values(u, type, t) = Values(u, type, t)
  BY <1>3 DEF Choice!Values, Values, Choice!Range, Range
<1>7. /\ \A u, t : Choice!PathRank(u, t) = PathRank(u, t)
      /\ \A u, v, t : Choice!LongerPrefix(u, v, t) <=> LongerPrefix(u, v, t)
  BY <1>6 DEF Choice!PathRank, PathRank, Choice!LongerPrefix, LongerPrefix
<1>8. \A r, i, q, j, h, t : Choice!Outranks(r, i, q, j, h, t) <=> Outranks(r, i, q, j, h, t)
  BY <1>5, <1>7 DEF Choice!Outranks, Outranks
<1>9. \A m, T, h, t : Choice!IsFirst(m, T, h, t) <=> IsFirst(m, T, h, t)
  BY <1>4, <1>8 DEF Choice!IsFirst, IsFirst
<1>10. QED
  BY <1>1, <1>9

LEMMA ChoiceStep ==
  ASSUME ScanInv, IsFirst(Decided, table, host, path)' \/ Scanning', [Next]_vars
  PROVE  [Choice!Next]_(Choice!vars)
<1>1. ASSUME NEW name \in Host \cup Literals, NEW p \in Paths, NEW T \in SUBSET Route,
             FindBackend(name, p, T)
      PROVE  Choice!Ask
  <2>1. host' \in Host
    BY <1>1, NormalizeIsHost DEF FindBackend
  <2>2. /\ ~Scanning /\ path' = p /\ table' = T /\ todo' = T /\ route' = None /\ best' = None
    BY <1>1 DEF FindBackend, Scanning
  <2>3. Scanning' = (table' # {})
    BY <2>2 DEF Scanning
  <2>4. Decided' = None
    BY <2>2 DEF Decided
  <2>5. QED
    BY <2>1, <2>2, <2>3, <2>4, SameRules DEF Choice!Ask
<1>2. ASSUME Scanning, UNCHANGED <<host, path, table>>
      PROVE  Choice!Answer \/ UNCHANGED Choice!vars
  <2>1. CASE Scanning'
    BY <1>2, <2>1 DEF Choice!vars, Decided
  <2>2. CASE ~Scanning'
    <3>1. IsFirst(Decided', table, host, path)
      BY <1>2, <2>2 DEF IsFirst
    <3>2. QED
      BY <1>2, <2>2, <3>1, SameRules DEF Choice!Answer
  <2>3. QED
    BY <2>1, <2>2
<1>3. ASSUME NEW call \in Calls, FindBackend(call[1], call[2], call[3])
      PROVE  Choice!Ask
  <2>1. call[1] \in Host \cup Literals /\ call[2] \in Paths /\ call[3] \in SUBSET Route
    BY CallsAssumption
  <2>2. QED
    BY <1>1, <1>3, <2>1
<1>4. ASSUME NEW r \in todo, PassRoute(r) \/ EnterRoute(r)
      PROVE  Scanning /\ UNCHANGED <<host, path, table>>
  BY <1>4 DEF PassRoute, EnterRoute, Scanning
<1>5. ASSUME VisitRule \/ LeaveRoute
      PROVE  Scanning /\ UNCHANGED <<host, path, table>>
  BY <1>5 DEF VisitRule, LeaveRoute, Scanning
<1>6. CASE UNCHANGED vars
  BY <1>6 DEF vars, Choice!vars, Scanning, Decided
<1>7. QED
  BY <1>2, <1>3, <1>4, <1>5, <1>6 DEF Next, Choice!Next

\* A scan, however many steps it takes and in whatever order, is one question
\* and one answer: the answer that Routing's one step gives
\* (src/proxy/router.rs:40-82).
THEOREM ScanImplementsChoice == Spec => ImplementsChoice
<1>1. Init => Choice!Init
  BY SameRules DEF Init, Choice!Init, Scanning, Decided
<1>2. ScanInv' => IsFirst(Decided, table, host, path)' \/ Scanning'
  BY DecidedIsFirst, PTL
<1>3. ScanInv /\ ScanInv' /\ [Next]_vars => [Choice!Next]_(Choice!vars)
  BY <1>2, ChoiceStep
<1>4. QED
  BY <1>1, <1>3, InitScan, StepScan, PTL DEF Spec, ImplementsChoice, Choice!Spec
=============================================================================
