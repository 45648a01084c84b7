# Verification of pingora-proxy

TLA+ models of the reverse proxy in `src/`: its route store and gRPC service, its
route matching, its health tracker, its load balancer, the life of a request, the
proxy as a whole, and the process that all of it runs in, with restarts and the
controller that configures it. TLC checks them on small instances; TLAPS proves their safety
properties, all but the replay of the unit tests, for every value of the constants.

## The system

The process (`src/main.rs`) runs three servers on three runtimes that share memory
and nothing else: the proxy, the gRPC service that a controller configures it
through, and the health endpoints.

| component | state | operations | interacts with |
|---|---|---|---|
| Route store (`store/route_store.rs`) | two sharded maps id → route, an atomic version | `update_routes`, `get_http_routes`, `get_grpc_routes`, `version` | written by the gRPC service, read by it and by every request |
| Routing gRPC service (`grpc/routing_service.rs`) | none | `UpdateRoutes`, `GetRoutes`, `Health` | calls the store, one handler per call on a multi-threaded runtime |
| Router (`proxy/router.rs`) | none of its own | `find_backend` | clones the routes, scores them, calls `LoadBalancer::next` |
| Health tracker (`proxy/upstream.rs`) | two sharded maps address → status, address → failures | `record_success`, `record_failure`, `reset`, `is_healthy` | written by the gateway, read by the load balancer |
| Load balancer (`proxy/upstream.rs`) | one atomic counter for all rules | `next` | asks the tracker for each backend |
| Gateway proxy (`proxy/gateway.rs`) | one context per request | `upstream_peer`, `connected_to_upstream`, `fail_to_connect` | called by the proxy framework; calls router and tracker |
| Process and servers (`main.rs`) | the threads | start; a server binds, ends alone; the process ends | owns the rest; nothing is persisted |
| Health endpoints (`health.rs`) | none | bind, accept, end at an error; `/healthz`, `/readyz` | constant answers; nothing waits for them |
| Routing API (`proto/routing/v1/routing.proto`) | – | messages | what controller and proxy agree on |

What is hard here, and what makes each component correct:

- **Route store.** No lock spans an update or a read. Two updates overlap (a
  controller that retries, two controllers), and reads run through the middle of
  an update. Correct means: what is left when updates have ended comes from those
  updates and from nothing older; a repeated request changes nothing; a read
  neither misses what nobody touched nor shows what was gone.
- **Router.** Precedence is encoded in sums of byte lengths and bases, so its
  correctness is arithmetic. The order of the map is arbitrary. The routes are
  cloned while updates run, so a request may be routed by a table that never was;
  correct means that its answer still fits what was stored while it was routed.
- **Health tracker.** The count and the status are two writes. Correct means that
  a mark stands for a full streak of failures.
- **Load balancer.** Statuses are read one by one while they change; threads take
  tickets from one counter for lists of different lengths. Correct means that an
  answer was true at some moment of the call, and that weights are respected.
- **Gateway.** The choice of a backend and the outcome recorded for it are far
  apart, with other requests between, and requests start over. A backend dies and
  recovers at any moment, also while connections to it are pooled. Correct means that
  an outage costs few requests.
- **Proxy.** A request that is started again is routed again, by routes that have
  changed meanwhile. Correct means that a backend which a configuration has dropped
  is left alone once the requests of before have let it go: it gets no connection,
  and no outcome is recorded for it.
- **Process.** A restart forgets every route, a server that ends is only logged,
  and a delivery that the controller takes for lost may still be served. Correct
  means that the version which `Health` reports stands for the tables in force,
  and that the configuration comes back.

`PROJECT.json` lists each hazard at its line, with the properties that watch it.

## Modules

    RouteConfig ─┬─ RouteSync                       what a full sync promises
                 └─ RouteStore ─┬─ RouteStoreSync   the store implements RouteSync
                                └─ RouteStoreReads  what a read may answer
    RouteRules ─┬─ RuleChoice                       what find_backend promises
                └─ RouteMatching ── RouterTests     its scan of the routes
    RouteStoreReads, RouteRules ── Routing          find_backend beside updates
    Routing ── ProxyProcess ── ProxyProcessRegister the process and its controller
    RouteConfig ── ConfigRegister                   what the process promises to it
    HealthTracker ── LoadBalancer ── Gateway        health, picks, requests
    Routing, Gateway ── Proxy                       the proxy as a whole

`X` EXTENDS what stands to its left. `RouteStoreSync` takes `RouteSync` with
INSTANCE, `ProxyProcessRegister` takes `ConfigRegister`, `RouteMatching` takes
`RuleChoice`. `MCX` gives the constants of `X` their values, `XProofs` holds the
theorems about `X`; those about `HealthTracker` and `LoadBalancer`, both of
`upstream.rs`, are in `UpstreamProofs`. Definitions named "Mutant of ..." are plausible wrong versions
of a definition, kept to show that a property notices them.

### RouteStore

`table` and `version` are the two maps and the atomic. Each UpdateRoutes handler
is at a `stage` of `update_routes`: clear both maps, insert both lists, store the
version. dashmap 6 is modelled by what the code uses of it: a map is an array of
shards, each behind a read-write lock; `clear` takes the write lock of one shard
after another, `insert` that of the key's shard, and an iterator holds the read
lock of the shard it is in. Every step that takes one lock is one action. A
GetRoutes handler iterates over both maps and then loads the version; the router's
read is the first of its two iterations. A route is an id and an opaque body.

`batch` is a history variable: the requests of the calls that overlap, directly or
in a chain. It takes the place of a lock in the statements: what the tables hold
when no call is under way is a function of the batch.

`RouteSync` is the abstract specification: a sync is in progress or it is not, and
when it is not each id is as one request of the batch says. `RouteStoreSync` maps
the store to it: the view is the tables between calls and `Syncing` during them.

### RouteRules, RouteMatching, RouterTests

`RouteRules` is what the router compares. A host is its first label and the rest,
which is exactly what the wildcard test of `hostname_matches` splits it into. A path
is a sequence of characters and `PathBytes` its length in bytes, because
`prefix_matches` mixes the two. Scores are the code's: `Base`, `HostnameScore`,
`PathScore`. Regex matches as a prefix, as the code does for now. Conditions on
headers, query parameters and the method are carried by the API and never read by
the router.

`RouteMatching` is one scan of the cloned routes at a time, since nothing of a scan
is shared. The order in which routes come is free (it is the order of the map), that
of the rules of a route is the list's.

`DocumentedPriority` says the same without a score: exact over wildcard over no
hostname, exact over longer prefix over shorter prefix over regex over none.

`RuleChoice` is the abstract specification: a question about a set of routes, and
one answer, the rule that the precedence puts first. A scan implements it
(`ImplementsChoice`): it is pending while the scan goes on and its answer is the best
match at the end. `Routing` takes a scan for one step on the strength of this.

`RouterTests` states the router's own unit tests as judgements on the scan, with the
routes, the requests and the backends that `router.rs` has: a second opinion on the
model that shares none of its operators. A test sees one order of the map each time
it runs, `TestsPass` sees them all.

### Routing

Each reader of `RouteStoreReads` is a `GetRoutes` call or a request that the proxy
routes: `Ask` begins to clone the HTTP routes, `Clone` goes from shard to shard,
`Decide` scans the clones and drops them. The scan is one step, whose outcome is a
rule that no other applicable rule outranks (`IsFirst`): `ImplementsChoice` is what
allows this. `AnswerFits` is stated on the step that decides,
with the histories `window` and `stable`: the rule was stored at some moment of the
routing, and nothing that was stored all along outranks it.

### ProxyProcess

`server` is the state of each server thread. `Start` is `main`, `Listen` a bind that
succeeds, `ServerEnds` any error that ends the thread and is logged, `Exit` the end of
the process in any state: the calls under way and the store are lost. The controller
is external. It is modelled by what the API is made for: it calls `Health`, and sends
the configuration it wants (`Deliver`) while the version it has heard is another. It
does so without waiting for an answer, so a retry overlaps the call it repeats. It
turns to a newer configuration (`Want`) only when no call is under way: otherwise
finding 2 applies, and two configurations may be in force at once. A configuration
has a version of its own that is not 0, the version of an empty store.

`ConfigRegister` is the abstract specification: a register that is empty under
version 0, or holds under its version what the controller wants or wanted before, or
is being synced; a restart empties it. `ProxyProcessRegister` maps the process to it
with the view of `RouteStoreSync`. Of the calls that overlap, are repeated, are late
or are lost, nothing is left in it.

### HealthTracker

Each call is one or two steps: its write of the count, then its write of the
status. `record_failure` keeps the entry of the count, and so the lock of its
shard, until it has marked the backend: `Locked` keeps other calls on the shard
out until then. `record_success` holds nothing between its two writes. The count
has a width (`CountSize`, 2^32 in the code). `streak` is a history: the failures
since the last clear, up to the threshold.

`OnlyLateLiftsEscape` says what finding 4 leaves of the promise to
demote: a full streak of failures escapes its mark in the one way that the finding
shows, and in no other.

### LoadBalancer

`Check` asks for the status of one backend; `Pick` and `Decline` end the call. The
expanded list is never built: `Slots` says which tickets fall on a backend of the
list, a weight of zero counting as one. `HealthStep` is the environment: any
success or failure at any time. `seen` and `recent` are histories of what was
healthy during a call, and of the last picks.

### Gateway

Requests are both the pickers of LoadBalancer and the workers of HealthTracker: a
request chooses, connects, records, is served, and ends or starts over. Its
environment is the proxy framework (external): it calls `connected_to_upstream`
for a connection that is new or reused, `fail_to_connect` for one that is refused,
and `upstream_peer` again when a reused connection turns out to be closed. Nothing
else is said of the backends: every connection may come about and every one may fail,
so a backend dies and recovers at any moment, and a reused connection to one that has
died records a success, as in the code, which does not look at `_reused`. `Malformed`
are the addresses that `parse_backend_address` refuses. The rule a request matches is
chosen freely at each attempt.

`refused` is a history: the connections to each backend that have failed since a write
of `record_success` to it, be it the write of the count or that of the status.
`OutageCostsFew` bounds it by the threshold plus one for every other request. For a
backend that dies this means: at most that many requests fail at once. Each write of
`record_success` that still comes then allows as many again. There are two of them for
each connection that is reused after the death, and one for a success that was half
recorded at the time of it. A backend with a pool of idle connections may thus cost
many requests, and the bound says how many for each of them.

### Proxy

The proxy as one: a request is a reader of the store, then a picker of the load
balancer, then a worker of the tracker. `upstream_peer` is `NewRequest`, or `AskAgain`
for a request that is started again, then `Clone` for each shard, then `TakeRule` or
`NoRule`, which is `Decide` of `Routing` together with the first step of `next` in
`Gateway`, and from there on the steps of `Gateway` (`Proceed`). What passes from one
half to the other is the rule found and nothing else; readers that are not pickers
are `GetRoutes` calls.

Nothing new is checked of the halves: that `Proxy` implements both `Routing` and
`Gateway` is proved, and with it everything proved of them. `DrainedStaysDrained` is
about the composition alone: it ties the tables, the updates under way, the clones of
requests being routed, the lists that requests choose from, the connections being
opened and the outcomes being recorded. A backend that is drained of all of these gets
no connection, and its count and status stay as they are. It would fail if a retry kept the backends of its first attempt, which is the
mutant of `TakeRule`.

## Runs

| run | shows | bounds |
|---|---|---|
| `route_store` | what the tables hold after overlapping updates; redelivery; what a read may answer; refinement of RouteSync | 2 handlers, 1 reader, 2 ids, 2 shards (ids apart in one map, together in the other), 2 requests that share an id, one with a duplicate |
| `process` | the version stands for the tables; the configuration comes back after restarts, lost replies and late calls; a request's answer fits what was stored while it was routed; every call ends although iterators and writers wait for shards; refinement of ConfigRegister | gRPC server and proxy, 2 handlers, 1 reader that routes a request or serves GetRoutes, 2 configurations (the second drops a route that outranks the other), 2 shards |
| `health` | a mark stands for a full streak; a full streak escapes the mark in one way only | 3 workers, 2 backends in one shard, threshold 2, count modulo 5 |
| `load_balancer` | answers were true; exact shares by weight | 2 pickers, weights 2 and 0, counter modulo 5, 3 picks of history |
| `route_matching` | the documented precedence; refinement of RuleChoice; the unit tests of the router, in every order of the map | every subset of 4 routes, 4 paths, 12 hosts and an address, one name longer than the base of 1000; the routes and requests of 14 tests |
| `gateway` | an outage costs few requests; a marked backend stays out; one whose address does not parse stays in | 2 requests, 3 backends (two that fail and recover freely, one malformed), threshold 3 as in `main.rs`, count modulo 11, 2 rules |
| `proxy` | a backend that was dropped is left alone, its count and status with it | 1 request at a time, started again at will, 1 `GetRoutes` call and 1 handler over 1 shard; 2 configurations, with and without one of 2 backends; threshold 2, count modulo 5 |
| `route_store_full_sync`, `route_store_version`, `route_store_torn_read`, `health_streak`, `route_matching_prefix` | a documented claim the code does not keep (see Findings) | as small as shows it |

Why the bounds are enough. Two overlapping calls are the least that interleave,
and every statement is about an id, a backend or a pair of calls; the proofs below
remove the bounds where there is one. Two ids in two shards give a read a shard
behind it and one before it. In `health` the count and in `load_balancer` the counter
are small enough to wrap; in `gateway` and `proxy` the count has the least width that
`WidthAssumption` allows. Three workers let a failure reach the threshold while a success and
another failure are in the middle of their calls. In `gateway` the threshold of
three is reached by two requests in every division of the failures between them, and
the bound of `OutageCostsFew` is reached.
With a window of three picks and a total weight of three, `ExactShare` is about
exactly one round; `Window` is 0 in `gateway`, where that history is not needed.
In `proxy` one request is enough to be routed, dropped from and retried across an
update, and a second one beside updates is past what TLC can do here; `gateway` has
the concurrent requests, `process` the concurrent updates, and the theorems about
`Proxy` any number of both.
In `process` restarts, server failures and retries are not bounded at all: they lead
back to states seen before.

Deadlock is checked in every run: some call can always begin or go on.

Fairness is assumed in `process` only, all of it weak:

- `Start`: whoever runs the process starts it again. `Listen` is not fair: a port
  may stay taken.
- `Work` of each handler and the steps of each reader: neither `update_routes`,
  `get_routes` nor `find_backend` awaits anything, so once polled a call runs to its
  end. Weak fairness suffices for a writer only when iterators leave its shard for
  good, which is why `CallsComplete` promises the end of updates provided that reads
  eventually stop, and the end of reads without a proviso: an unfair lock may starve
  a writer.
- `Health` and `Deliver`: the controller keeps asking and sending. This is assumed of
  a program outside the repository.

`ConfigurationReturns` has a premise instead of a fairer process: that from some time
on the gRPC server listens and no read is in progress. The first rules out a port
that stays taken and a process that is restarted for ever, the second the starved
writer.

## Proofs

Checked by `tlapm`, for every number of handlers, readers, shards, routes,
backends and requests, and every threshold, width and length.

| theorem | argument |
|---|---|
| `RouteStoreProofs!TypeCorrect` | inductive as it stands |
| `RouteStoreProofs!SettledCorrect` | `SettledIsMerge` alone is not inductive: for each id, either some call is still to write under it, or the last write left what a request of the batch says. The strengthening adds that every call at work serves a request of the batch (`BatchInv`), and says what the entry is from the moment a clear has passed its shard: nothing, or what one of the batch inserted last |
| `RouteStoreProofs!RedeliveryCorrect` | from the same invariant with a batch of one request, and `VersionFromBatch` |
| `RouteStoreProofs!StoreImplementsSync` | step by step: a call's first step is `Begin`, its last is `Publish` or `Settle`, the rest stutter; `Settle` needs the invariant above |
| `RouteStoreProofs!UntouchedCorrect`, `NothingPastCorrect` | a step changes one shard, and never one that a reader is in; what a reader has cloned was stored when it entered the shard |
| `RouteStoreProofs!QuietReadIsExact` | what is stored is in the window of every read, and what stays is in its clones: when window and `stable` are equal, so are the clones and the tables |
| `RoutingProofs!AnswerFitsCorrect` | a step of routing is one of the reads or leaves them alone, so what the clones hold is bounded by `stable` and `window`; when the last shard has been left, every route that was stored all along is among the clones, and `IsFirst` of the clones says the rest |
| `RouteRulesProofs!SomeRuleIsFirst`, `RoutingProofs!ScanHasAnswer` | a finite set of rules that apply has one of highest score, its route has a first such rule, and a higher score is higher precedence; and the clones of a reader are finite, since a shard is. So `Decide`, which chooses an `IsFirst` rule, always has one to choose: the abstraction of the scan to one step blocks no request |
| `ProxyProcessProofs!AnswersFitInProcess` | the same invariant, which the end of the process establishes anew |
| `ProxyProcessProofs!VersionTellsTableCorrect` | `ProcessInv`: all overlapping calls deliver one configuration, the wanted one while any is under way, and before the first of them the version is 0. Then `RedeliveryIsIdempotent` says what is left when they have ended |
| `ProxyProcessProofs!ProcessImplementsRegister` | step by step: the first of the overlapping deliveries is `Begin`, each `StoreVersion` is `Announce`, `Exit` is `Lose`, the rest stutter. That the last `Announce` leaves the wanted tables is `ProcessInv`. That no sync begins under a version still to come needs `VersionInv`: the version in force is never later than the one wanted |
| `ProxyProcessProofs!StoreSafeInProcess`, `NoRequestWaits` | a step of the process is one of the store and its readers, leaves them alone, or is the end of the process, which establishes their invariants anew: so all that is promised of the store alone holds in the process, and a request that has cloned the routes has an answer |
| `RouteStoreProofs!CallsRunDown`, `ReadsRunDown` | the safety half of `CallsComplete`: the number of steps that a call has left (`StepsLeft`, `ReadsLeft`) is 0 exactly when it is over, each of its own steps takes one off, and no other call changes it. Needs `AtInv`: a handler never walks past the end of what it clears or inserts |
| `RouteMatchingProofs!ScanImplementsChoice` | step by step: the call is `Ask`, the step that ends the scan is `Answer`, the rest stutter. What it answers is the invariant of `PriorityCorrect` at the end of the scan |
| `RouteMatchingProofs!MatchTypeCorrect`, `PriorityCorrect` | `ScoreIsPriority`: for rules that apply, a higher pair of scores is documented precedence. It rests on the scores of one host taking two values besides 0, on the prefixes of one path being ordered by length, in characters and in bytes alike, and on no prefix being longer than the path. Then the invariant that the best match is the first of the highest among the rules visited |
| `UpstreamProofs!HealthTypeCorrect`, `EarnedCorrect` | the count never exceeds the streak below the threshold, and a call about to mark has a full streak: the lock keeps a success from clearing it meanwhile |
| `UpstreamProofs!OnlyLateLiftsEscapeCorrect`, `GatewayProofs!RequestsMarkStreaks` | an action property, from `CountIsStreak`: short of the threshold the count and the streak are one and the same, so the failure that completes a streak finds the count one below the threshold, wraps nothing and goes on to the mark. A mark is lifted by the second half of a success or reset only, and such a half belongs to a call that began before. Requests have it from the tracker that they implement |
| `UpstreamProofs!LoadBalancerTypeCorrect`, `AnswerCorrect` | each backend kept was healthy, each one passed over was not, in a state the history has |
| `UpstreamProofs!TicketPicksOneBackend` | the slots of the places of a list are intervals, each begins where the one before ends, and together they are 0..`Total` - 1 |
| `UpstreamProofs!ExactShareCorrect` | `TicketInv`: the picks in the history took consecutive tickets, the last of them the one before `current`, and each fell on the backend it names. As many as `Total` consecutive tickets meet every remainder once, so the picks that fell on one place of the list are as many as its share, and those that fell on a backend are its share times its places: a bijection, no sum |
| `UpstreamProofs!LoadBalancerKeepsTracker` | no step of `next` writes to the tracker, every other step is one of its calls |
| `GatewayProofs!GatewayTypeCorrect` | every step of a request but its completion is one of the load balancer or of the tracker; no request resets the tracker |
| `GatewayProofs!GatewayImplementsLoadBalancer`, `RequestAnswerCorrect` | every step of a request is one of the load balancer, and its completion a stutter, because the history of a call under way holds what is healthy now; so `AnswerWasTrue` carries over to requests |
| `GatewayProofs!RequestsEarnMarks`, `RoundsShareExactly` | requests implement the load balancer, and the load balancer the tracker: `UnhealthyIsEarned` and `ExactShare` carry over. The latter is about rounds: choices in a row from one list, with no choice from another, no change of a status and no wrap between them. It says nothing of rules whose requests alternate (see below) |
| `GatewayProofs!NoWayBackCorrect` | only a success restores a backend, a success needs a connection, and a backend gets into a list of candidates only while it is healthy |
| `GatewayProofs!OutageCostsFewCorrect` | `CostInv`, by cases on the mark (`Cost`). While a backend is healthy the failures since the last write of a success are among those it has counted and below the threshold, or there are none, or they have reached it and the mark is about to be set under the lock. Once it is marked, the failures and the requests that may still connect to it add up to at most the bound: a failure moves a request from the second to the first, and no request joins the second. This needs that a count does not start again from zero by itself: |
| `GatewayProofs!CountNeverWraps` | the other half of `CostInv` (`Count`), and a result of its own. A marked backend counts on, and a late write of a success lifts its mark and leaves the count. But whoever lifts a mark late has cleared the count early. So the count, the failures that the requests near the backend may still add, and one round of failures for each lift under way stay below a bound: a failure moves one from the second to the first, a lift that lands pays for the requests that come near again, and a new lift begins with a count of zero |
| `GatewayProofs!MalformedStaysInCorrect` | for a malformed address no connection is ever open and no call of the tracker is under way: `Choose` ends such a request, so nothing is recorded |
| `ProxyProofs!ProxyImplementsRouting`, `ProxyImplementsGateway` | step by step: each action of the proxy is an action of one half and a stutter of the other, or of both. For `Routing`: a request that is started again has been routed before (`SeekOf`). For `Gateway`: a rule found is of a route in the clones, which is one that was sent, so its list is one of `Pools` (`FoundHasPool`), in whatever state updates have left the store |
| `ProxyProofs!ServedRequestsFit`, `UpdatesCostNothing`, `NoUpdateBringsBack` | `AnswerFits`, `OutageCostsFew` and `NoWayBack` carry over to the whole |
| `ProxyProofs!DrainedCorrect` | `ProxyInv`: the invariants of both halves, and that a request is routed only before it chooses a backend or after it was served. From a drained state what enters the tables is what an update offers, what enters the clones is in the tables, what is found is in the clones, what is picked is in the list found: each of the six places is fed by the one before it only. And what the tracker has of a backend changes only by a request that connects to it or has an outcome of it to record (`BackendStep`) |

Assumptions are those of the modules' ASSUMEs. Those that say something: a
constant used as "none" is not a value (`NoRouteAssumption`, `NoneAssumption` and their
like); requests ask for hosts and paths of the model (`AsksAssumption`); the
threshold is less than the width of the count, and not 0 for a request
(`FailuresAssumption`; `main.rs` has 3); the requests served at one time are
finitely many, and no more than the width of the count allows `CountNeverWraps`
(`WidthAssumption`: with 32 bits and a threshold of three, up to 65534); `VersionsAssumption`, that a version names one configuration and is
not 0; `PathsAssumption`, that a proper
prefix of a path has fewer bytes.

Induction over lists and sets is not available to the provers as a rule with an
operator for a parameter. Where an argument needs it, it is made from a fact without
one: a set of numbers that is not empty has a least element (`Least`), which the
library's theorem on well-founded finite sets gives. The least place where a claim on
the places of a list fails is the contradiction, in `BeforeCounts`; a score that is
highest is found the same way (`MaximalExists`). The sums of weights along a list are
a recursive function for this, `Before`.

Only model-checked: `CallsComplete` and `ConfigurationReturns`, which are liveness
under fairness, and that is out of the prover's reach (`CallsRunDown`,
`ReadsRunDown` and `NoRequestWaits` are their safety half: what is left is that the
steps are taken); `TestsPass`, a table of concrete routes and requests, which TLC
evaluates case by case and in which there is no constant to prove it for.

## Findings

Each is a run that TLC ends with a counterexample; `PROJECT.json` quotes the line
contradicted.

1. Overlapping UpdateRoutes calls leave a mixture of both configurations, though a
   call is documented as a full sync (`route_store_full_sync`).
2. An older version replaces a newer one, though versions are documented as
   monotonically increasing (`route_store_version`).
3. A GetRoutes reply that overlaps an update is no configuration ever sent
   (`route_store_torn_read`).
4. A success recorded between failures lifts the mark of the failures that follow
   its first write: a backend with its full streak of failures is healthy
   (`health_streak`).
5. A prefix with a multi-byte character does not end where its segment ends
   (`route_matching_prefix`).

Besides, `NoWayBack` holds and is worth knowing: once a backend is marked and no
request is engaged with it, nothing restores it for the life of the process.
An IPv6 address as Host becomes `[` (`RouteRules!Normalize`), so a route never
matches it by name. All rules share one counter, so `ExactShare` is about consecutive picks
from one list: two rules whose requests alternate may each get every second ticket,
and then a rule with two equal backends sends everything to one of them, which is less
than the "weighted round-robin" of `router.rs:20` may lead one to expect.
`routing.proto:239` calls a backend address "host:port", and
`parse_backend_address` takes an IP address and a port only: a backend given by name
is `Malformed`, and each request that picks it ends with 500. `MalformedStaysIn` says
that this goes on for ever: it is never taken out.

## Not modelled

- Metrics, logging, TLS and SNI of a connection, `route_count`, `healthy_count` and
  `healthy_backends`: no state that a property is about.
- `timeout_ms` and `RetryConfig` of a rule, headers, query parameters and method of
  a match: no code reads them. `grpc_routes` are stored and returned, never routed.
- The answers of the health endpoints: constants. Their server is one of the servers
  of `ProxyProcess`, left out of the instance because nothing depends on it: its
  probes answer ready before the first UpdateRoutes, and fail for good after one
  error of `accept`, whatever the proxy does.
- Transport of gRPC calls: a lost or late call is one not made yet, a repeated one
  is a call of its own.
- The unit tests about ports, letter case, weights and threads: `RouteRules` begins
  after the first two, `LoadBalancer` and the composition treat the others in general.
- The end of a server under calls that it serves is not a cancellation: they await
  nothing and run to their end.

## Plan

Done, in this order: route store with its abstract sync, health tracker, load
balancer, route matching, gateway; then the composition of the store with the
router, the process with its controller, and the proofs about both and about the
gateway; then the register that the process implements, and the proofs about weights
and about the choice that the scan always has; last the proxy as a whole with its
refinements of both halves, the question and answer that a scan implements, the safety
half of the end of calls, and what is left of the tracker's promise. Left:

1. An abstract tracker (a set of backends that are out) that `HealthTracker`
   implements up to the calls under way.
2. The unit tests of `upstream.rs` as judgements on the tracker and the load balancer,
   as `RouterTests` is on the scan.
3. The proxy inside the process: `Proxy` with the restarts of `ProxyProcess`.
4. Liveness of a request under the framework's bound on retries.
