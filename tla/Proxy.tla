-------------------------------- MODULE Proxy --------------------------------
(***************************************************************************)
(* The proxy as a whole (src/proxy): requests that GatewayProxy serves     *)
(* find their rule in what Router clones of the store while it is updated, *)
(* choose a backend of that rule and record how it fared.  A request is a  *)
(* reader of the store, a picker of the load balancer and a worker of the  *)
(* tracker.  All that passes from Routing to Gateway is the rule found.    *)
(***************************************************************************)
EXTENDS Routing, Gateway

ASSUME RequestersAssumption == Pickers \subseteq Readers  \* the others are GetRoutes calls
ASSUME TargetsAssumption == Targets \subseteq Backend
ASSUME RulePoolsAssumption ==
  \A t \in Bodies : \A i \in DOMAIN t.rules :
    t.rules[i].backends # <<>> => t.rules[i].backends \in Pools

proxyVars == <<routingVars, gatewayVars>>

ProxyInit == RoutingInit /\ GatewayInit

\* Request q is being routed.
Seeking(q) == ask[q] # NoAsk /\ InProgress(q)

BackendsOf(m) == m.route.rules[m.rule].backends

-----------------------------------------------------------------------------
\* upstream_peer begins: for a new request, and for one that is started again.
NewRequest(q, a) == life[q] = "idle" /\ doing[q] = "none" /\ Ask(q, a)
AskAgain(q) == life[q] = "serving" /\ doing[q] = "none" /\ Ask(q, ask[q])

\* find_backend has scanned the routes: there is no rule, and the request is
\* answered 404.
NoRule(q) ==
  /\ Decide(q)
  /\ answer'[q] = None
  /\ \/ life[q] = "idle" /\ UNCHANGED gatewayVars
     \/ Complete(q) /\ ObserveHealth

\* Mutant of TakeRule: a request that is started again keeps to the backends it
\* chose from before.
TakeRuleOnce(q) ==
  /\ Decide(q)
  /\ answer'[q] # None
  /\ Arrive(q, BackendsOf(answer'[q])) \/ Retry(q, pool[q])
  /\ ObserveHealth

\* Or it goes on to choose among the backends of the rule found.
TakeRule(q) ==
  /\ Decide(q)
  /\ answer'[q] # None
  /\ Arrive(q, BackendsOf(answer'[q])) \/ Retry(q, BackendsOf(answer'[q]))
  /\ ObserveHealth

\* What a request does once it has its rule leaves the routes alone.
Proceed(q) ==
  /\ \/ CheckNext(q) \/ NotFound(q) \/ Choose(q)
     \/ Connected(q) \/ FailToConnect(q) \/ FinishRecording(q)
     \/ ~Seeking(q) /\ Complete(q)
  /\ ObserveHealth

ProxyNext ==
  \/ /\ \/ \E h \in Handlers : (\E R \in Requests : Update(h, R)) \/ Apply(h)
        \/ \E r \in Readers \ Pickers : CallGetRoutes(r) \/ ReplyRoutes(r)
        \/ \E q \in Pickers : (\E a \in Asks : NewRequest(q, a)) \/ AskAgain(q) \/ Clone(q)
     /\ Observe
     /\ UNCHANGED gatewayVars
  \/ \E q \in Pickers : (NoRule(q) \/ TakeRule(q)) /\ Observe
  \/ \E q \in Pickers : Proceed(q) /\ UNCHANGED routingVars

ProxySpec == ProxyInit /\ [][ProxyNext]_proxyVars

-----------------------------------------------------------------------------
\* A route leads to backend b.
Leads(t, b) == \E i \in DOMAIN t.rules : b \in Addresses(t.rules[i].backends)

\* The call of handler h is to store, or has stored, a route to b.
Offers(h, b) ==
  ~Free(h) /\ \E k \in DOMAIN req[h].routes["http"] : Leads(req[h].routes["http"][k].body, b)

\* Nothing in the process leads to b: no table, no update that is under way, no
\* routes cloned for a request, no list that a request chooses from, no connection
\* that is being opened, and none whose outcome is being recorded.
Drained(b) ==
  /\ \A t \in Routes(Stored) : ~Leads(t, b)
  /\ \A h \in Handlers : ~Offers(h, b)
  /\ \A q \in Pickers :
       /\ Seeking(q) => \A t \in Routes(got[q]) : ~Leads(t, b)
       /\ life[q] = "choosing" => b \notin Addresses(pool[q])
       /\ life[q] = "connecting" => BackendOf(q) # b
       /\ doing[q] # "none" => target[q] # b

\* A backend that a configuration has dropped, and that the requests of before
\* have let go, is left alone: whatever is retried, routed or updated, no
\* request comes to choose it or to connect to it until an update offers it
\* again, and no outcome is recorded for it: its count and its status stay as
\* they were when it was let go (RouteStore::update_routes, Router::find_backend
\* and the hooks of GatewayProxy together: none of them remembers a route).
DrainedStaysDrained ==
  [][\A b \in Backends :
       Drained(b) =>
         /\ Drained(b)' \/ \E h \in Handlers : Offers(h, b)'
         /\ UNCHANGED <<health[b], failures[b]>>]_proxyVars
=============================================================================
