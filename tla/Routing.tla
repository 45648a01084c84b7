------------------------------- MODULE Routing -------------------------------
(***************************************************************************)
(* Router::find_backend (src/proxy/router.rs) beside the updates of the    *)
(* store: each request that the proxy serves clones the HTTP routes shard  *)
(* by shard (RouteStoreReads) and then scans what it has cloned.  A scan   *)
(* shares nothing, so it is one step here, with the answer that            *)
(* RouteMatching gives; RoutingProofs shows that there is always one.      *)
(* What follows, the choice of a backend of the rule, is LoadBalancer and  *)
(* Gateway.                                                                *)
(***************************************************************************)
EXTENDS RouteStoreReads, RouteRules

CONSTANTS
  Asks,  \* the requests of clients: a host, without its port, and a path
  NoAsk  \* the read is that of a GetRoutes call

ASSUME BodiesAssumption == Bodies \subseteq Route
ASSUME NoAskAssumption == NoAsk \notin Asks
ASSUME AsksAssumption == Asks \subseteq [host : Host, path : Paths]

VARIABLES
  ask,    \* the request that each reader routes, or NoAsk
  answer  \* the rule found for it, or None: 404

routingVars == <<readsVars, ask, answer>>

\* The HTTP routes among entries of the tables, and their rules.
Routes(entries) == {e[3] : e \in {f \in entries : f[1] = "http"}}
Rules(entries) ==
  UNION {{[route |-> t, rule |-> i] : i \in DOMAIN t.rules} : t \in Routes(entries)}

RoutingInit ==
  /\ ReadsInit
  /\ ask = [r \in Readers |-> NoAsk]
  /\ answer = [r \in Readers |-> None]

-----------------------------------------------------------------------------
Update(h, R) == UpdateRoutes(h, R) /\ UNCHANGED <<ask, answer>>
Apply(h) == Serve(h) /\ UNCHANGED <<ask, answer>>

\* A GetRoutes call.
CallGetRoutes(r) ==
  /\ GetRoutes(r)
  /\ ask' = [ask EXCEPT ![r] = NoAsk]
  /\ answer' = [answer EXCEPT ![r] = None]
ReplyRoutes(r) == ask[r] = NoAsk /\ Read(r) /\ UNCHANGED <<ask, answer>>

\* find_backend begins to clone the routes.
Ask(r, a) ==
  /\ GetRoutes(r)
  /\ ask' = [ask EXCEPT ![r] = a]
  /\ answer' = [answer EXCEPT ![r] = None]

Clone(r) == ask[r] # NoAsk /\ ReadShard(r, "http") /\ UNCHANGED <<ask, answer>>

\* The scan of what has been cloned finds the best rule, or none, and the clones
\* are dropped.
Answer(r) ==
  /\ ask[r] # NoAsk /\ reading[r] = "http"
  /\ reading' = [reading EXCEPT ![r] = "replied"]
  /\ held' = [held EXCEPT ![r] = 0]
  /\ got' = [got EXCEPT ![r] = {}]
  /\ UNCHANGED <<storeVars, handlerVars, gotVersion, ask>>
  /\ \E m \in {None} \cup Rules(got[r]) :
       /\ IsFirst(m, Routes(got[r]), ask[r].host, ask[r].path)
       /\ answer' = [answer EXCEPT ![r] = m]

\* Mutant of Decide: the last shard is not waited for.
DecideEarly(r) == held[r] + 1 >= NumShards /\ Answer(r)

\* Mutant of Decide: updates are waited for, with the iterator still in a shard.
DecideWhenQuiet(r) == held[r] = NumShards /\ Quiescent /\ Answer(r)

Decide(r) == held[r] = NumShards /\ Answer(r)

RoutingNext ==
  /\ \/ \E h \in Handlers : (\E R \in Requests : Update(h, R)) \/ Apply(h)
     \/ \E r \in Readers : CallGetRoutes(r) \/ ReplyRoutes(r)
     \/ \E r \in Readers : (\E a \in Asks : Ask(r, a)) \/ Clone(r) \/ Decide(r)
  /\ Observe

RoutingSpec == RoutingInit /\ [][RoutingNext]_routingVars

-----------------------------------------------------------------------------
Answers(r) == ask[r] # NoAsk /\ InProgress(r) /\ reading'[r] = "replied"

\* The answer to a request fits the tables as they were while it was routed,
\* whatever updates ran beside it: a rule it is given was stored at some moment
\* of that time, no rule that was there all the time takes precedence over it,
\* and it is told 404 only if no rule that was there all the time applies
\* (Router::find_backend over RouteStore::get_http_routes).
AnswerFits ==
  [][\A r \in Readers : Answers(r) =>
       LET m == answer'[r]
           h == ask[r].host
           t == ask[r].path
       IN  /\ m # None => m \in Rules(window[r])
           /\ \A n \in Rules(stable[r]) :
                Applies(n.route, n.rule, h, t) =>
                  m # None /\ ~Outranks(n.route, n.rule, m.route, m.rule, h, t)]_routingVars
=============================================================================
