---------------------------- MODULE RouteMatching ----------------------------
(***************************************************************************)
(* Router::find_backend (src/proxy/router.rs) up to the choice of a rule:  *)
(* a scan of the routes cloned from the store, in whatever order the map   *)
(* yields them, that keeps the rule with the highest pair of scores.  The  *)
(* scores are byte lengths added to a base per kind of match.              *)
(***************************************************************************)
EXTENDS RouteRules

CONSTANT Calls  \* the calls: a host, a path, the routes that the store holds

ASSUME CallsAssumption == Calls \subseteq (Host \cup Literals) \X Paths \X SUBSET Route

VARIABLES
  host, path,  \* the request
  table,       \* the routes cloned from the store
  todo,        \* those the scan has not come to
  route,       \* the route it is in, or None
  rule,        \* the rule of that route it comes to next
  best         \* the best match so far, or None

vars == <<host, path, table, todo, route, rule, best>>

-----------------------------------------------------------------------------
Score(r, i) == <<Max(HostScores(r, host)), Max(PathScores(r.rules[i], path))>>

Scanning == todo # {} \/ route # None

-----------------------------------------------------------------------------
Init ==
  /\ host \in Host /\ path \in Paths
  /\ table = {} /\ todo = {}
  /\ route = None /\ rule = 1
  /\ best = None

FindBackend(name, p, T) ==
  /\ ~Scanning
  /\ host' = Normalize(name)
  /\ path' = p
  /\ table' = T
  /\ todo' = T
  /\ best' = None
  /\ UNCHANGED <<route, rule>>

PassRoute(r) ==
  /\ route = None
  /\ r \in todo
  /\ HostScores(r, host) = {}
  /\ todo' = todo \ {r}
  /\ UNCHANGED <<host, path, table, route, rule, best>>

\* Mutant of EnterRoute: the route stays among those to come.
EnterRouteAgain(r) ==
  /\ route = None
  /\ r \in todo
  /\ HostScores(r, host) # {}
  /\ route' = r
  /\ rule' = 1
  /\ UNCHANGED <<host, path, table, todo, best>>

EnterRoute(r) ==
  /\ route = None
  /\ r \in todo
  /\ HostScores(r, host) # {}
  /\ todo' = todo \ {r}
  /\ route' = r
  /\ rule' = 1
  /\ UNCHANGED <<host, path, table, best>>

VisitRule ==
  /\ route # None
  /\ rule <= Len(route.rules)
  /\ rule' = rule + 1
  /\ best' = IF /\ route.rules[rule].backends # <<>>
                /\ PathScores(route.rules[rule], path) # {}
                /\ best = None \/ Higher(Score(route, rule), best.score)
             THEN [route |-> route, rule |-> rule, score |-> Score(route, rule)]
             ELSE best
  /\ UNCHANGED <<host, path, table, todo, route>>

\* Mutant of LeaveRoute: the last rule may be left out.
LeaveRouteEarly ==
  /\ route # None
  /\ rule >= Len(route.rules)
  /\ route' = None
  /\ UNCHANGED <<host, path, table, todo, rule, best>>

LeaveRoute ==
  /\ route # None
  /\ rule > Len(route.rules)
  /\ route' = None
  /\ UNCHANGED <<host, path, table, todo, rule, best>>

Next ==
  \/ \E call \in Calls : FindBackend(call[1], call[2], call[3])
  \/ \E r \in todo : PassRoute(r) \/ EnterRoute(r)
  \/ VisitRule \/ LeaveRoute

Spec == Init /\ [][Next]_vars

-----------------------------------------------------------------------------
MatchTypeOK ==
  /\ host \in Host /\ path \in Paths
  /\ table \subseteq Route
  /\ todo \subseteq table
  /\ route \in (table \ todo) \cup {None}
  /\ rule \in Nat \ {0}
  /\ best \in Match \cup {None}

-----------------------------------------------------------------------------
\* The scores give the documented precedence: when the scan has ended, a match
\* was found if any rule applies, no rule that applies takes precedence over
\* it, and of equal rules of one route it is the first - whatever the order of
\* the map, the lengths of patterns and the mixture of matches in a rule
\* (Router::find_backend and the bases 500, 1000 and 10000 of its scores).
DocumentedPriority == ~Scanning => IsFirst(best, table, host, path)

-----------------------------------------------------------------------------
\* The rule that the scan ends with.
Decided ==
  IF Scanning \/ best = None THEN None ELSE [route |-> best.route, rule |-> best.rule]

Choice == INSTANCE RuleChoice WITH pending <- Scanning, answer <- Decided

\* However the scan goes, route by route and rule by rule, to who asks it is one
\* question and one answer, the first rule in the documented precedence: so a
\* scan may stand as one step where others run beside it (Router::find_backend).
ImplementsChoice == Choice!Spec

-----------------------------------------------------------------------------
\* "Prefix matching respecting segment boundaries. /api matches /api, /api/,
\* /api/users; /api does NOT match /apikeys" (src/proxy/router.rs:192-194): a
\* prefix matches where it ends a segment of the path, and nowhere else.
EndsSegment(s, t) ==
  \/ s = t
  \/ IsStrictPrefix(s, t) /\ (Last(s) = Slash \/ t[Len(s) + 1] = Slash)

PrefixEndsSegment ==
  \A r \in table : \A i \in DOMAIN r.rules : \A m \in Range(r.rules[i].matches) :
    m.type = "Prefix" /\ m.value # <<>> => (PathMatches(m, path) <=> EndsSegment(m.value, path))
=============================================================================
