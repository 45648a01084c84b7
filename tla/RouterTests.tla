----------------------------- MODULE RouterTests -----------------------------
(***************************************************************************)
(* The unit tests of the router (src/proxy/router.rs) that are about the   *)
(* choice of a rule: the routes of the store, and for each host and path   *)
(* that a test asks for the backends of the rule it expects, or none.      *)
(* They are judgements on the scan that nothing in RouteMatching shares.   *)
(* A segment of a path stands here as one character, and an address        *)
(* without its port.                                                       *)
(***************************************************************************)
EXTENDS RouteMatching

\* Host names.
ExampleCom == [first |-> "example", rest |-> "com"]
OtherCom == [first |-> "other", rest |-> "com"]
Sub(label) == [first |-> label, rest |-> "example.com"]
Deep == [first |-> "foo", rest |-> "bar.example.com"]
Elsewhere == {[first |-> "any", rest |-> "host.com"], [first |-> "another", rest |-> "example.org"]}
Short(label) == [first |-> label, rest |-> "com"]

\* Paths, from / to /api/v1/users, and /apikeys.
Root == <<Slash>>
Api == <<Slash, "api">>
ApiSlash == <<Slash, "api", Slash>>
ApiKeys == <<Slash, "api", "keys">>
Under(segment) == <<Slash, "api", Slash, segment>>
ApiV1Users == <<Slash, "api", Slash, "v1", Slash, "users">>
Other == <<Slash, "other">>

ExactName(h) == [kind |-> "exact", host |-> h]
WildcardName == [kind |-> "wildcard", rest |-> "example.com"]

MakeRule(type, value, backends) ==
  [matches |-> <<[type |-> type, value |-> value]>>, backends |-> backends]
MakeRoute(names, rules) == [hostnames |-> names, rules |-> rules]
RoutePrefixPath(names, value, backend) ==
  MakeRoute(names, <<MakeRule("Prefix", value, <<backend>>)>>)
RouteExactPath(names, value, backend) ==
  MakeRoute(names, <<MakeRule("Exact", value, <<backend>>)>>)
RouteNoPath(names, backend) == MakeRoute(names, <<MakeRule("Unspecified", Root, <<backend>>)>>)

ForExample == <<ExactName(ExampleCom)>>

\* A test: its routes, and triples of a host, a path and the backends expected.
Test(routes, asks) == [routes |-> routes, asks |-> asks]
Expect(hosts, paths, backends) == hosts \X paths \X {backends}

-----------------------------------------------------------------------------
NewWithEmptyStore == Test({}, Expect({ExampleCom}, {Root}, {}))

ExactHostnameMatch ==
  Test({RoutePrefixPath(ForExample, Root, "backend")},
       Expect({ExampleCom}, {Root}, {"backend"}) \cup Expect({OtherCom}, {Root}, {}))

EmptyHostnameMatchesAll ==
  Test({RoutePrefixPath(<<>>, Root, "catchall")}, Expect(Elsewhere, {Root}, {"catchall"}))

WildcardHostnameMatch ==
  Test({RoutePrefixPath(<<WildcardName>>, Root, "backend")},
       Expect({Sub("foo"), Sub("bar")}, {Root}, {"backend"})
         \cup Expect({ExampleCom, Deep}, {Root}, {}))

ExactHostnameBeatsWildcard ==
  Test({RoutePrefixPath(<<WildcardName>>, Root, "wildcard"),
        RoutePrefixPath(<<ExactName(Sub("api"))>>, Root, "exact")},
       Expect({Sub("api")}, {Root}, {"exact"}) \cup Expect({Sub("other")}, {Root}, {"wildcard"}))

MultipleHostnamesInRoute ==
  Test({RoutePrefixPath(<<ExactName(Short("a")), ExactName(Short("b"))>>, Root, "backend")},
       Expect({Short("a"), Short("b")}, {Root}, {"backend"})
         \cup Expect({Short("c")}, {Root}, {}))

ExactPathMatch ==
  Test({RouteExactPath(ForExample, Under("v1"), "backend")},
       Expect({ExampleCom}, {Under("v1")}, {"backend"})
         \cup Expect({ExampleCom}, {ApiV1Users, Api}, {}))

PrefixPathMatch ==
  Test({RoutePrefixPath(ForExample, Api, "backend")},
       Expect({ExampleCom}, {Api, ApiSlash, Under("v1"), ApiV1Users}, {"backend"})
         \cup Expect({ExampleCom}, {Other}, {}))

PrefixRequiresSegmentBoundary ==
  Test({RoutePrefixPath(ForExample, Api, "backend")},
       Expect({ExampleCom}, {Api, ApiSlash}, {"backend"})
         \cup Expect({ExampleCom}, {ApiKeys}, {}))

LongerPrefixWins ==
  Test({RoutePrefixPath(ForExample, Api, "short"),
        RoutePrefixPath(ForExample, Under("v1"), "long")},
       Expect({ExampleCom}, {ApiV1Users}, {"long"})
         \cup Expect({ExampleCom}, {Under("v2")}, {"short"}))

ExactPathBeatsPrefix ==
  Test({RoutePrefixPath(ForExample, Api, "prefix"),
        RouteExactPath(ForExample, Under("health"), "exact")},
       Expect({ExampleCom}, {Under("health")}, {"exact"})
         \cup Expect({ExampleCom}, {Under("users")}, {"prefix"}))

NoPathMatchMeansMatchAll ==
  Test({RouteNoPath(ForExample, "catchall")},
       Expect({ExampleCom}, {Root, Other, ApiV1Users}, {"catchall"}))

MultipleRulesFirstMatchWins ==
  Test({MakeRoute(ForExample, <<MakeRule("Prefix", Api, <<"api">>),
                                MakeRule("Prefix", Root, <<"default">>)>>)},
       Expect({ExampleCom}, {Under("users")}, {"api"})
         \cup Expect({ExampleCom}, {Other}, {"default"}))

MultipleBackendsWeightedSelection ==
  Test({MakeRoute(ForExample, <<MakeRule("Prefix", Root, <<"backend1", "backend2">>)>>)},
       Expect({ExampleCom}, {Root}, {"backend1", "backend2"}))

RouterTests == {
  NewWithEmptyStore, ExactHostnameMatch, EmptyHostnameMatchesAll, WildcardHostnameMatch,
  ExactHostnameBeatsWildcard, MultipleHostnamesInRoute, ExactPathMatch, PrefixPathMatch,
  PrefixRequiresSegmentBoundary, LongerPrefixWins, ExactPathBeatsPrefix,
  NoPathMatchMeansMatchAll, MultipleRulesFirstMatchWins, MultipleBackendsWeightedSelection}

TestCalls == UNION {{<<ask[1], ask[2], t.routes>> : ask \in t.asks} : t \in RouterTests}

-----------------------------------------------------------------------------
Found == IF best = None THEN {} ELSE Range(best.route.rules[best.rule].backends)

\* In whatever order the map yields the routes of a test, the scan ends with a
\* rule whose backends are those that the test expects (the tests of Router,
\* which see one order of the map each time they run).
TestsPass ==
  ~Scanning =>
    \A t \in RouterTests : table = t.routes =>
      \A ask \in t.asks : ask[1] = host /\ ask[2] = path => Found = ask[3]
=============================================================================
