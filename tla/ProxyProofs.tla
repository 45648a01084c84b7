----------------------------- MODULE ProxyProofs -----------------------------
(***************************************************************************)
(* Proofs about the proxy as a whole, for any number of requests, updates, *)
(* shards, routes and backends: it is both the routing of its requests and *)
(* the gateway that stand alone, so what is proved of those holds of it.   *)
(***************************************************************************)
EXTENDS Proxy, GatewayProofs, RoutingProofs

\* A request is routed before it chooses a backend or after it was served by
\* one, and a request that has been routed has a host and a path.
SeekOf(q) ==
  /\ Seeking(q) => doing[q] = "none" /\ life[q] \in {"idle", "serving"}
  /\ life[q] # "idle" => ask[q] # NoAsk

ProxyInv == RoutingInv /\ LifeInv /\ AnswerInv /\ \A q \in Pickers : SeekOf(q)

LEMMA ProxyStarts == ProxyInit => ProxyInv
<1> SUFFICES ASSUME ProxyInit PROVE ProxyInv
  OBVIOUS
<1>1. RoutingInv
  BY RoutingStarts DEF ProxyInit
<1>2. LifeInv /\ AnswerInv
  BY LifeStarts, AnswerStarts DEF ProxyInit, GatewayInit
<1>3. \A q \in Pickers : SeekOf(q)
  BY RequestersAssumption
  DEF ProxyInit, RoutingInit, ReadsInit, Init, GatewayInit, SeekOf, Seeking, InProgress
<1>4. QED
  BY <1>1, <1>2, <1>3 DEF ProxyInv

\* A rule that is found has one of the lists of backends that the gateway knows.
LEMMA FoundHasPool ==
  ASSUME RoutingInv, NEW q \in Pickers, Decide(q), answer'[q] # None
  PROVE  /\ BackendsOf(answer'[q]) \in Pools
         /\ answer'[q].route \in Routes(got[q])
         /\ answer'[q].rule \in DOMAIN answer'[q].route.rules
<1>1. q \in Readers /\ DOMAIN answer = Readers
  BY RequestersAssumption DEF RoutingInv
<1>2. PICK m \in {None} \cup Rules(got[q]) :
        IsFirst(m, Routes(got[q]), ask[q].host, ask[q].path)
        /\ answer' = [answer EXCEPT ![q] = m]
  BY DEF Decide, Answer
<1>3. answer'[q] = m
  BY <1>1, <1>2
<1>4. /\ m.route \in Routes(got[q]) /\ m.rule \in DOMAIN m.route.rules
      /\ m.route.rules[m.rule].backends # <<>>
  BY <1>2, <1>3 DEF IsFirst, Applies
<1>5. got[q] \in SUBSET (Maps \X RouteIds \X Bodies)
  BY <1>1 DEF RoutingInv, IInv, TypeOK
<1>6. m.route \in Bodies
  BY <1>4, <1>5 DEF Routes
<1>7. QED
  BY <1>3, <1>4, <1>6, RulePoolsAssumption DEF BackendsOf

\* A step of the proxy is one of the requests on the tracker and the balancer, or
\* leaves both alone.
LEMMA StepOfGateway ==
  ASSUME RoutingInv, [ProxyNext]_proxyVars
  PROVE  [GatewayNext]_gatewayVars
<1>1. CASE UNCHANGED proxyVars
  BY <1>1 DEF proxyVars
<1>2. ASSUME NEW q \in Pickers, NoRule(q)
      PROVE  [GatewayNext]_gatewayVars
  BY <1>2 DEF NoRule, GatewayNext
<1>3. ASSUME NEW q \in Pickers, TakeRule(q)
      PROVE  GatewayNext
  <2>1. BackendsOf(answer'[q]) \in Pools
    BY <1>3, FoundHasPool DEF TakeRule
  <2>2. QED
    BY <1>3, <2>1 DEF TakeRule, GatewayNext
<1>4. ASSUME NEW q \in Pickers, Proceed(q)
      PROVE  GatewayNext
  BY <1>4 DEF Proceed, GatewayNext
<1>5. QED
  BY <1>1, <1>2, <1>3, <1>4 DEF ProxyNext

\* A step of the proxy is one of the store and its readers, or leaves them alone.
LEMMA StepOfRouting ==
  ASSUME ProxyInv, [ProxyNext]_proxyVars
  PROVE  [RoutingNext]_routingVars
<1>1. CASE UNCHANGED proxyVars
  BY <1>1 DEF proxyVars
<1>2. ASSUME NEW h \in Handlers, (\E R \in Requests : Update(h, R)) \/ Apply(h), Observe
      PROVE  RoutingNext
  BY <1>2 DEF RoutingNext
<1>3. ASSUME NEW r \in Readers \ Pickers, CallGetRoutes(r) \/ ReplyRoutes(r), Observe
      PROVE  RoutingNext
  BY <1>3 DEF RoutingNext
<1>4. ASSUME NEW q \in Pickers,
             (\E a \in Asks : NewRequest(q, a)) \/ AskAgain(q) \/ Clone(q), Observe
      PROVE  RoutingNext
  <2>1. q \in Readers /\ ask[q] \in Asks \cup {NoAsk}
    BY RequestersAssumption DEF ProxyInv, RoutingInv
  <2>2. AskAgain(q) => ask[q] \in Asks
    BY <2>1 DEF AskAgain, ProxyInv, SeekOf
  <2>3. QED
    BY <1>4, <2>1, <2>2 DEF NewRequest, AskAgain, RoutingNext
<1>5. ASSUME NEW q \in Pickers, NoRule(q) \/ TakeRule(q), Observe
      PROVE  RoutingNext
  BY <1>5, RequestersAssumption DEF NoRule, TakeRule, RoutingNext
<1>6. QED
  BY <1>1, <1>2, <1>3, <1>4, <1>5 DEF ProxyNext, Proceed

\* What a request does.
Does(q) ==
  \/ \E P \in Pools : Arrive(q, P) \/ Retry(q, P)
  \/ CheckNext(q) \/ NotFound(q) \/ Choose(q)
  \/ Connected(q) \/ FailToConnect(q) \/ FinishRecording(q) \/ Complete(q)

\* It leaves the other requests where they are.
LEMMA OthersStay ==
  ASSUME LifeInv, NEW q \in Pickers, NEW p \in Pickers, p # q, Does(q)
  PROVE  /\ life'[p] = life[p] /\ doing'[p] = doing[p] /\ target'[p] = target[p]
         /\ pool'[p] = pool[p] /\ picked'[p] = picked[p]
<1>1. /\ life \in [Pickers -> Lives] /\ doing \in [Pickers -> Halves]
      /\ pool \in [Pickers -> Pools \cup {NoPool}] /\ picked \in [Pickers -> Seq(Backend)]
      /\ target \in [Pickers -> Backends]
  BY PickersAssumption DEF LifeInv, GatewayTypeOK, BalancerTypeOK, HealthTypeOK
<1>2. CASE \E P \in Pools : Arrive(q, P) \/ Retry(q, P)
  BY <1>1, <1>2 DEF Arrive, Retry, AskForPeer, CallNext, healthVars
<1>3. CASE CheckNext(q)
  BY <1>3 DEF CheckNext, Check, healthVars
<1>4. CASE NotFound(q)
  BY <1>1, <1>4 DEF NotFound, Decline, Return, healthVars
<1>5. CASE Choose(q)
  <2>1. PICK i \in 1..Len(kept[q]) : Return(q, <<kept[q][i]>>)
    BY <1>5 DEF Choose, Pick
  <2>2. UNCHANGED <<doing, target, pool>> /\ picked' = [picked EXCEPT ![q] = <<kept[q][i]>>]
    BY <2>1 DEF Return, healthVars
  <2>3. life'[p] = life[p]
    BY <1>1, <1>5 DEF Choose
  <2>4. QED
    BY <1>1, <2>2, <2>3
<1>6. CASE Connected(q) \/ FailToConnect(q)
  <2>1. UNCHANGED <<pool, picked>> /\ life'[p] = life[p]
    BY <1>1, <1>6 DEF Connected, FailToConnect, pickVars
  <2>2. doing'[p] = doing[p] /\ target'[p] = target[p]
    BY <1>1, <1>6 DEF Connected, FailToConnect, RecordSuccess, RecordFailure, Begin
  <2>3. QED
    BY <2>1, <2>2
<1>7. CASE FinishRecording(q)
  BY <1>1, <1>7 DEF FinishRecording, Finish, Restore, Mark, Forget, End, pickVars
<1>8. CASE Complete(q)
  BY <1>1, <1>8 DEF Complete, healthVars, pickVars
<1>9. QED
  BY <1>2, <1>3, <1>4, <1>5, <1>6, <1>7, <1>8 DEF Does

\* A request that has chosen or recorded something goes on from where it was.
LEMMA DoesKeepsSeek ==
  ASSUME LifeInv, NEW q \in Pickers, SeekOf(q), Proceed(q),
         reading'[q] = reading[q], ask'[q] = ask[q]
  PROVE  SeekOf(q)'
<1>1. /\ life \in [Pickers -> Lives] /\ doing \in [Pickers -> Halves]
      /\ life[q] = "choosing" <=> phase[q] = "checking"
  BY PickersAssumption DEF LifeInv, GatewayTypeOK, BalancerTypeOK, HealthTypeOK
<1>2. ~Seeking(q) /\ (life'[q] # "idle" => life[q] # "idle")
  <2>1. CASE CheckNext(q)
    BY <1>1, <2>1 DEF SeekOf, CheckNext, Check
  <2>2. CASE NotFound(q)
    BY <1>1, <2>2 DEF SeekOf, NotFound, Decline, Return
  <2>3. CASE Choose(q)
    BY <1>1, <2>3 DEF SeekOf, Choose, Pick, Return
  <2>4. CASE Connected(q) \/ FailToConnect(q)
    BY <2>4 DEF SeekOf, Connected, FailToConnect
  <2>5. CASE FinishRecording(q)
    BY <2>5 DEF SeekOf, FinishRecording, Finish, Restore, Mark, Forget, End
  <2>6. CASE ~Seeking(q) /\ Complete(q)
    BY <2>6 DEF Complete
  <2>7. QED
    BY <2>1, <2>2, <2>3, <2>4, <2>5, <2>6 DEF Proceed
<1>3. ~Seeking(q)'
  BY <1>2 DEF Seeking, InProgress
<1>4. QED
  BY <1>2, <1>3 DEF SeekOf

\* A reader that the store leaves where it is, and that asks as before.
LEMMA SeekFrame ==
  ASSUME NEW q, SeekOf(q), reading'[q] = reading[q], ask'[q] = ask[q],
         life'[q] = life[q], doing'[q] = doing[q]
  PROVE  SeekOf(q)'
BY DEF SeekOf, Seeking, InProgress

\* A step of the routing of request q alone.
Routed(q) == (\E a \in Asks : NewRequest(q, a)) \/ AskAgain(q) \/ Clone(q)

LEMMA RoutedKeepsSeek ==
  ASSUME ProxyInv, NEW q \in Pickers, Routed(q), UNCHANGED gatewayVars, NEW p \in Pickers
  PROVE  SeekOf(p)'
<1>1. /\ ask \in [Readers -> Asks \cup {NoAsk}] /\ q \in Readers /\ p \in Readers
      /\ SeekOf(p) /\ SeekOf(q)
  BY RequestersAssumption DEF ProxyInv, RoutingInv
<1>2. life' = life /\ doing' = doing
  BY DEF gatewayVars, balancerVars, healthVars
<1>3. CASE Clone(q)
  <2>1. ask' = ask /\ reading' = reading
    BY <1>3 DEF Clone, ReadShard
  <2>2. QED
    BY <1>1, <1>2, <2>1, SeekFrame
<1>4. CASE (\E a \in Asks : NewRequest(q, a)) \/ AskAgain(q)
  <2>1. PICK a \in Asks : ask' = [ask EXCEPT ![q] = a]
    BY <1>1, <1>4 DEF NewRequest, AskAgain, Ask, SeekOf
  <2>2. /\ reading' = [reading EXCEPT ![q] = "http"] /\ doing[q] = "none"
        /\ life[q] \in {"idle", "serving"}
    BY <1>4 DEF NewRequest, AskAgain, Ask, GetRoutes
  <2>3. reading \in [Readers -> ReadStages]
    BY DEF ProxyInv, RoutingInv, IInv, TypeOK
  <2>4. CASE p = q
    BY <1>1, <1>2, <2>1, <2>2, <2>4, NoAskAssumption DEF SeekOf
  <2>5. CASE p # q
    BY <1>1, <1>2, <2>1, <2>2, <2>3, <2>5, SeekFrame
  <2>6. QED
    BY <2>4, <2>5
<1>5. QED
  BY <1>3, <1>4 DEF Routed

\* An answer ends the routing of request q, which is over or goes on to choose.
LEMMA AnsweredKeepsSeek ==
  ASSUME ProxyInv, NEW q \in Pickers, NoRule(q) \/ TakeRule(q), NEW p \in Pickers
  PROVE  SeekOf(p)'
<1>1. /\ q \in Readers /\ SeekOf(p) /\ SeekOf(q) /\ LifeInv /\ RoutingInv
      /\ reading \in [Readers -> ReadStages]
      /\ life \in [Pickers -> Lives] /\ doing \in [Pickers -> Halves]
  BY RequestersAssumption, PickersAssumption
  DEF ProxyInv, RoutingInv, IInv, TypeOK, LifeInv, GatewayTypeOK, BalancerTypeOK, HealthTypeOK
<1>2. /\ Decide(q) /\ ask[q] # NoAsk /\ ask' = ask
      /\ reading' = [reading EXCEPT ![q] = "replied"]
  BY DEF NoRule, TakeRule, Decide, Answer
<1>3. UNCHANGED gatewayVars \/ Does(q)
  BY <1>1, FoundHasPool DEF NoRule, TakeRule, Does
<1>4. CASE p = q
  BY <1>1, <1>2, <1>4 DEF SeekOf, Seeking, InProgress
<1>5. CASE p # q
  <2>1. life'[p] = life[p] /\ doing'[p] = doing[p]
    BY <1>1, <1>3, <1>5, OthersStay DEF gatewayVars, balancerVars, healthVars
  <2>2. reading'[p] = reading[p]
    BY <1>1, <1>2, <1>5, RequestersAssumption
  <2>3. QED
    BY <1>1, <1>2, <2>1, <2>2, SeekFrame
<1>6. QED
  BY <1>4, <1>5

LEMMA SeekStep ==
  ASSUME ProxyInv, [ProxyNext]_proxyVars, NEW p \in Pickers
  PROVE  SeekOf(p)'
<1>1. SeekOf(p) /\ LifeInv
  BY DEF ProxyInv
<1>2. CASE UNCHANGED proxyVars
  BY <1>1, <1>2, SeekFrame
  DEF proxyVars, routingVars, readsVars, gatewayVars, balancerVars, healthVars
<1>3. ASSUME NEW h \in Handlers, (\E R \in Requests : Update(h, R)) \/ Apply(h),
             UNCHANGED gatewayVars
      PROVE  SeekOf(p)'
  <2>1. ask' = ask /\ reading' = reading
    BY <1>3 DEF Update, Apply, UpdateRoutes, Serve, ClearShard, ClearDone, InsertRoute,
       InsertDone, StoreVersion, readerVars
  <2>2. QED
    BY <1>1, <1>3, <2>1, SeekFrame DEF gatewayVars, balancerVars, healthVars
<1>4. ASSUME NEW r \in Readers \ Pickers, CallGetRoutes(r) \/ ReplyRoutes(r),
             UNCHANGED gatewayVars
      PROVE  SeekOf(p)'
  <2>1. /\ p \in Readers /\ p # r /\ reading \in [Readers -> ReadStages]
        /\ ask \in [Readers -> Asks \cup {NoAsk}]
    BY <1>4, RequestersAssumption DEF ProxyInv, RoutingInv, IInv, TypeOK
  <2>2. ask'[p] = ask[p]
    BY <1>4, <2>1 DEF CallGetRoutes, ReplyRoutes
  <2>3. reading'[p] = reading[p]
    BY <1>4, <2>1 DEF CallGetRoutes, ReplyRoutes, GetRoutes, Read, ReadShard, ReadDone,
       LoadVersion
  <2>4. QED
    BY <1>1, <1>4, <2>2, <2>3, SeekFrame DEF gatewayVars, balancerVars, healthVars
<1>5. ASSUME NEW q \in Pickers, Routed(q), UNCHANGED gatewayVars
      PROVE  SeekOf(p)'
  BY <1>5, RoutedKeepsSeek
<1>6. ASSUME NEW q \in Pickers, NoRule(q) \/ TakeRule(q)
      PROVE  SeekOf(p)'
  BY <1>6, AnsweredKeepsSeek
<1>7. ASSUME NEW q \in Pickers, Proceed(q), UNCHANGED routingVars
      PROVE  SeekOf(p)'
  <2>1. ask' = ask /\ reading' = reading
    BY <1>7 DEF routingVars, readsVars
  <2>2. CASE p = q
    BY <1>1, <1>7, <2>1, <2>2, DoesKeepsSeek
  <2>3. CASE p # q
    BY <1>1, <1>7, <2>1, <2>3, OthersStay, SeekFrame DEF Proceed, Does
  <2>4. QED
    BY <2>2, <2>3
<1>8. QED
  BY <1>2, <1>3, <1>4, <1>5, <1>6, <1>7 DEF ProxyNext, Routed

LEMMA ProxyStep == ProxyInv /\ [ProxyNext]_proxyVars => ProxyInv'
<1> SUFFICES ASSUME ProxyInv, [ProxyNext]_proxyVars PROVE ProxyInv'
  OBVIOUS
<1>1. RoutingInv'
  BY StepOfRouting, RoutingStep DEF ProxyInv
<1>2. [GatewayNext]_gatewayVars
  BY StepOfGateway DEF ProxyInv
<1>3. LifeInv' /\ AnswerInv'
  BY <1>2, LifeStep, GatewayStep, AnswerStep DEF ProxyInv
<1>4. QED
  BY <1>1, <1>3, SeekStep DEF ProxyInv

LEMMA ProxyInvariant == ProxySpec => []ProxyInv
BY ProxyStarts, ProxyStep, PTL DEF ProxySpec

-----------------------------------------------------------------------------
(* What holds of the parts holds of the whole.                             *)

\* Routing as it stands alone is what the requests of the gateway do to the
\* store, retried ones included (Router::find_backend, called by upstream_peer,
\* src/proxy/gateway.rs:67-93).
THEOREM ProxyImplementsRouting == ProxySpec => RoutingSpec
<1>1. ProxyInit => RoutingInit
  BY DEF ProxyInit
<1>2. QED
  BY <1>1, StepOfRouting, ProxyInvariant, PTL DEF ProxySpec, RoutingSpec

\* The gateway as it stands alone is what requests do to the load balancer and
\* the tracker when each choice is made among the backends of a rule that was
\* found while updates ran (GatewayProxy, src/proxy/gateway.rs:59-156).
THEOREM ProxyImplementsGateway == ProxySpec => GatewaySpec
<1>1. ProxyInit => GatewayInit
  BY DEF ProxyInit
<1>2. ProxyInv /\ [ProxyNext]_proxyVars => [GatewayNext]_gatewayVars
  BY StepOfGateway DEF ProxyInv
<1>3. QED
  BY <1>1, <1>2, ProxyInvariant, PTL DEF ProxySpec, GatewaySpec

\* The rule that a request is served by fits the tables as they were while it
\* was routed, the first time and every time it is started again.
THEOREM ServedRequestsFit == ProxySpec => AnswerFits
BY ProxyImplementsRouting, AnswerFitsCorrect, PTL

\* However the routes change meanwhile, a backend fails no more requests than its
\* threshold, and one for each other request, from one write of record_success to
\* the next: requests that are routed again turn to other backends, and the
\* outcomes of those that were served by an earlier configuration count as well
\* (connected_to_upstream and fail_to_connect, src/proxy/gateway.rs:103-131).
THEOREM UpdatesCostNothing == ProxySpec => []OutageCostsFew
BY ProxyImplementsGateway, OutageCostsFewCorrect, PTL

\* Not even a new configuration brings back a backend that was marked while no
\* request was engaged with it: the tracker outlives every route
\* (HealthTracker, made once by main, against RouteStore::update_routes).
THEOREM NoUpdateBringsBack == ProxySpec => NoWayBack
BY ProxyImplementsGateway, NoWayBackCorrect, PTL

-----------------------------------------------------------------------------
(* A backend that is drained stays so.                                     *)

\* What no update offers does not come into the tables.
LEMMA StoredStaysClear ==
  ASSUME RoutingInv, [RoutingNext]_routingVars, NEW b,
         \A t \in Routes(Stored) : ~Leads(t, b), \A h \in Handlers : ~Offers(h, b)
  PROVE  \A t \in Routes(Stored') : ~Leads(t, b)
<1>1. TypeOK
  BY DEF RoutingInv, IInv
<1>2. CASE Stored' = Stored
  BY <1>2
<1>3. ASSUME NEW h \in Handlers, Apply(h)
      PROVE  \A t \in Routes(Stored') : ~Leads(t, b)
  <2>1. CASE Stored' \subseteq Stored
    BY <2>1 DEF Routes
  <2>2. ASSUME NEW m \in Maps, NEW k \in DOMAIN req[h].routes[m], ~Free(h),
               Stored' \subseteq Stored \cup
                 {<<m, req[h].routes[m][k].id, req[h].routes[m][k].body>>}
        PROVE  \A t \in Routes(Stored') : ~Leads(t, b)
    <3> DEFINE body == req[h].routes[m][k].body
    <3>1. Routes(Stored') \subseteq Routes(Stored) \cup (IF m = "http" THEN {body} ELSE {})
      BY <2>2 DEF Routes
    <3>2. m = "http" => ~Leads(body, b)
      BY <2>2 DEF Offers
    <3>3. QED
      BY <3>1, <3>2
  <2>3. QED
    BY <1>1, <1>3, <2>1, <2>2, ServeStores DEF Apply
<1>4. ASSUME ~(\E h \in Handlers : Apply(h))
      PROVE  Stored' = Stored
  <2>1. table' = table
    <3>1. CASE UNCHANGED routingVars
      BY <3>1 DEF routingVars, readsVars
    <3>2. CASE RoutingNext
      BY <1>4, <3>2 DEF RoutingNext, Update, UpdateRoutes, CallGetRoutes, ReplyRoutes, Read,
         ReadShard, ReadDone, LoadVersion, Ask, GetRoutes, Clone, Decide, Answer, storeVars
    <3>3. QED
      BY <3>1, <3>2
  <2>2. QED
    BY <2>1 DEF Stored, Contents
<1>5. QED
  BY <1>2, <1>3, <1>4

\* What a request clones is stored.
LEMMA ClonesStayClear ==
  ASSUME ProxyInv, [ProxyNext]_proxyVars, NEW b, NEW q \in Pickers, Seeking(q)',
         \A t \in Routes(Stored) : ~Leads(t, b),
         Seeking(q) => \A t \in Routes(got[q]) : ~Leads(t, b)
  PROVE  \A t \in Routes(got'[q]) : ~Leads(t, b)
<1>1. /\ q \in Readers /\ TypeOK /\ got \in [Readers -> SUBSET (Maps \X RouteIds \X Bodies)]
      /\ reading \in [Readers -> ReadStages] /\ ask \in [Readers -> Asks \cup {NoAsk}]
  BY RequestersAssumption DEF ProxyInv, RoutingInv, IInv, TypeOK
<1>2. CASE UNCHANGED <<ask[q], reading[q], got[q]>>
  BY <1>2 DEF Seeking, InProgress
<1>3. CASE got'[q] = {}
  BY <1>3 DEF Routes
<1>4. CASE Clone(q)
  <2>1. /\ reading[q] = "http" /\ ask[q] # NoAsk
        /\ got'[q] = got[q] \cup Contents("http", held[q] + 1)
        /\ held[q] + 1 \in 1..NumShards
    BY <1>1, <1>4, ShardsAssumption DEF Clone, ReadShard, TypeOK
  <2>2. Contents("http", held[q] + 1) \subseteq Stored
    BY <2>1 DEF Stored, Maps
  <2>3. Seeking(q)
    BY <2>1 DEF Seeking, InProgress
  <2>4. QED
    BY <2>1, <2>2, <2>3 DEF Routes
<1>5. CASE UNCHANGED routingVars
  BY <1>2, <1>5 DEF routingVars, readsVars
<1>6. ASSUME NEW h \in Handlers, (\E R \in Requests : Update(h, R)) \/ Apply(h)
      PROVE  UNCHANGED <<ask[q], reading[q], got[q]>>
  BY <1>6 DEF Update, Apply, UpdateRoutes, Serve, ClearShard, ClearDone, InsertRoute,
     InsertDone, StoreVersion, readerVars
<1>7. ASSUME NEW r \in Readers, r # q, CallGetRoutes(r) \/ ReplyRoutes(r)
      PROVE  UNCHANGED <<ask[q], reading[q], got[q]>>
  <2>1. ask'[q] = ask[q]
    BY <1>1, <1>7 DEF CallGetRoutes, ReplyRoutes
  <2>2. UNCHANGED <<reading[q], got[q]>>
    BY <1>1, <1>7 DEF CallGetRoutes, ReplyRoutes, GetRoutes, Read, ReadShard, ReadDone,
       LoadVersion
  <2>3. QED
    BY <2>1, <2>2
<1>8. ASSUME NEW r \in Pickers, Routed(r)
      PROVE  UNCHANGED <<ask[q], reading[q], got[q]>> \/ got'[q] = {} \/ Clone(q)
  <2>1. CASE Clone(r) /\ r # q
    BY <1>1, <2>1 DEF Clone, ReadShard
  <2>2. CASE (\E a \in Asks : NewRequest(r, a)) \/ AskAgain(r)
    BY <1>1, <2>2 DEF NewRequest, AskAgain, Ask, GetRoutes
  <2>3. QED
    BY <1>8, <2>1, <2>2 DEF Routed
<1>9. ASSUME NEW r \in Pickers, NoRule(r) \/ TakeRule(r)
      PROVE  UNCHANGED <<ask[q], reading[q], got[q]>> \/ got'[q] = {}
  BY <1>1, <1>9 DEF NoRule, TakeRule, Decide, Answer
<1>10. CASE UNCHANGED proxyVars
  BY <1>5, <1>10 DEF proxyVars
<1>11. QED
  BY <1>2, <1>3, <1>4, <1>5, <1>6, <1>7, <1>8, <1>9, <1>10 DEF ProxyNext, Routed

\* Request q neither chooses from a list with b, nor connects to b, nor has an
\* outcome of b to record.
Shuns(q, b) ==
  /\ life[q] = "choosing" => b \notin Addresses(pool[q])
  /\ life[q] = "connecting" => BackendOf(q) # b
  /\ doing[q] # "none" => target[q] # b

LEMMA ShunsFrame ==
  ASSUME NEW q, NEW b, Shuns(q, b), life'[q] = life[q], pool'[q] = pool[q],
         picked'[q] = picked[q], doing'[q] = doing[q], target'[q] = target[q]
  PROVE  Shuns(q, b)'
BY DEF Shuns, BackendOf, Addresses

\* The backend that is picked is one of the list.
LEMMA ProceedShuns ==
  ASSUME LifeInv, AnswerInv, NEW q \in Pickers, NEW b, Shuns(q, b), Proceed(q)
  PROVE  Shuns(q, b)'
<1>1. /\ life \in [Pickers -> Lives] /\ picked \in [Pickers -> Seq(Backend)]
      /\ pool \in [Pickers -> Pools \cup {NoPool}]
      /\ life[q] = "choosing" <=> phase[q] = "checking"
      /\ doing \in [Pickers -> Halves] /\ target \in [Pickers -> Backends]
  BY PickersAssumption DEF LifeInv, GatewayTypeOK, BalancerTypeOK, HealthTypeOK
<1>2. CASE CheckNext(q)
  BY <1>2, ShunsFrame DEF CheckNext, Check, healthVars
<1>3. CASE NotFound(q) \/ Complete(q)
  <2>1. life'[q] = "idle" /\ UNCHANGED healthVars
    BY <1>1, <1>3 DEF NotFound, Decline, Return, Complete
  <2>2. QED
    BY <2>1 DEF Shuns, healthVars
<1>4. CASE Connected(q) \/ FailToConnect(q)
  <2>1. life[q] = "connecting" /\ life'[q] \in {"idle", "serving"}
    BY <1>1, <1>4 DEF Connected, FailToConnect
  <2>2. target'[q] = BackendOf(q)
    BY <1>1, <1>4 DEF Connected, FailToConnect, RecordSuccess, RecordFailure, Begin
  <2>3. QED
    BY <2>1, <2>2 DEF Shuns
<1>5. CASE FinishRecording(q)
  <2>1. doing'[q] = "none" /\ UNCHANGED <<life, pool, picked>>
    BY <1>1, <1>5 DEF FinishRecording, Finish, Restore, Mark, Forget, End, pickVars
  <2>2. QED
    BY <2>1 DEF Shuns, BackendOf, Addresses
<1>6. CASE Choose(q)
  <2>1. PICK i \in 1..Len(kept[q]) : Return(q, <<kept[q][i]>>)
    BY <1>6 DEF Choose, Pick
  <2>2. phase[q] = "checking" /\ picked'[q] = <<kept[q][i]>>
    BY <1>1, <2>1 DEF Return
  <2>3. kept[q][i] \in Range(pool[q])
    BY <2>2 DEF AnswerInv, CheckingInv, KeptWasUp
  <2>4. pool[q] \in Seq(Backend)
    BY <2>2, PoolsAssumption DEF LifeInv, GatewayTypeOK, BalancerTypeOK
  <2>5. kept[q][i].address \in Addresses(pool[q])
    <3>1. PICK j \in DOMAIN pool[q] : kept[q][i] = pool[q][j]
      BY <2>3 DEF Range
    <3>2. QED
      BY <2>4, <3>1 DEF Addresses
  <2>6. b \notin Addresses(pool[q])
    BY <1>1, <2>2 DEF Shuns
  <2>7. life'[q] \in {"idle", "connecting"}
    BY <1>1, <1>6 DEF Choose
  <2>8. BackendOf(q)' # b
    BY <2>2, <2>5, <2>6 DEF BackendOf
  <2>9. doing' = doing /\ target' = target
    BY <2>1 DEF Return, healthVars
  <2>10. QED
    BY <2>7, <2>8, <2>9 DEF Shuns
<1>7. QED
  BY <1>2, <1>3, <1>4, <1>5, <1>6 DEF Proceed

\* A request that finds its rule among routes that do not lead to b.
LEMMA FoundShuns ==
  ASSUME ProxyInv, NEW q \in Pickers, NEW b, TakeRule(q),
         Seeking(q) => \A t \in Routes(got[q]) : ~Leads(t, b)
  PROVE  Shuns(q, b)'
<1> DEFINE m == answer'[q]
<1>1. Decide(q) /\ m # None /\ RoutingInv
  BY DEF TakeRule, ProxyInv
<1>2. m.route \in Routes(got[q]) /\ m.rule \in DOMAIN m.route.rules
  BY <1>1, FoundHasPool
<1>3. Seeking(q)
  BY <1>1 DEF Decide, Answer, Seeking, InProgress
<1>4. b \notin Addresses(BackendsOf(m))
  BY <1>2, <1>3 DEF Leads, BackendsOf
<1>5. /\ life \in [Pickers -> Lives]
      /\ pool \in [Pickers -> Pools \cup {NoPool}]
  BY DEF ProxyInv, LifeInv, GatewayTypeOK, BalancerTypeOK
<1>6. life'[q] = "choosing" /\ pool'[q] = BackendsOf(m) /\ doing'[q] = "none"
  BY <1>5 DEF TakeRule, Arrive, Retry, AskForPeer, CallNext, healthVars
<1>7. QED
  BY <1>4, <1>6 DEF Shuns, Addresses

LEMMA RequestsShun ==
  ASSUME ProxyInv, [ProxyNext]_proxyVars, NEW b, NEW p \in Pickers, Shuns(p, b),
         Seeking(p) => \A t \in Routes(got[p]) : ~Leads(t, b)
  PROVE  Shuns(p, b)'
<1>1. LifeInv /\ AnswerInv /\ RoutingInv /\ life \in [Pickers -> Lives]
  BY DEF ProxyInv, LifeInv, GatewayTypeOK
<1>2. CASE UNCHANGED gatewayVars
  BY <1>2, ShunsFrame DEF gatewayVars, balancerVars, pickVars, healthVars
<1>3. ASSUME NEW q \in Pickers, q # p, NoRule(q) \/ TakeRule(q) \/ Proceed(q)
      PROVE  Shuns(p, b)'
  <2>1. UNCHANGED gatewayVars \/ Does(q)
    BY <1>1, <1>3, FoundHasPool DEF NoRule, TakeRule, Proceed, Does
  <2>2. QED
    BY <1>1, <1>2, <1>3, <2>1, OthersStay, ShunsFrame
<1>4. CASE NoRule(p)
  <2>1. CASE Complete(p)
    BY <1>1, <2>1 DEF Complete, Shuns, healthVars
  <2>2. QED
    BY <1>2, <1>4, <2>1 DEF NoRule
<1>5. CASE TakeRule(p)
  BY <1>5, FoundShuns
<1>6. CASE Proceed(p)
  BY <1>1, <1>6, ProceedShuns
<1>7. CASE UNCHANGED proxyVars
  BY <1>2, <1>7 DEF proxyVars
<1>8. QED
  BY <1>2, <1>3, <1>4, <1>5, <1>6, <1>7 DEF ProxyNext

\* Nothing is recorded for a backend that no request connects to, and for which
\* none has an outcome to record.
LEMMA ShunnedIsLeftAlone ==
  ASSUME ProxyInv, [ProxyNext]_proxyVars, NEW b \in Backends, \A q \in Pickers : Shuns(q, b)
  PROVE  UNCHANGED <<health[b], failures[b]>>
<1>1. LifeInv /\ [GatewayNext]_gatewayVars
  BY StepOfGateway DEF ProxyInv
<1>2. ASSUME NEW q \in Pickers PROVE ~((Connected(q) \/ FailToConnect(q)) /\ BackendOf(q) = b)
  BY DEF Shuns, Connected, FailToConnect
<1>3. ASSUME NEW q \in Pickers PROVE ~(FinishRecording(q) /\ target[q] = b)
  BY DEF Shuns, FinishRecording, Finish, Restore, Mark, Forget, End
<1>4. Quiet(b)
  BY <1>1, <1>2, <1>3, BackendStep
<1>5. QED
  BY <1>4 DEF Quiet

LEMMA DrainedStep ==
  ASSUME ProxyInv, [ProxyNext]_proxyVars, NEW b \in Backends, Drained(b),
         ~\E h \in Handlers : Offers(h, b)'
  PROVE  Drained(b)'
<1>1. \A t \in Routes(Stored') : ~Leads(t, b)
  BY StepOfRouting, StoredStaysClear DEF ProxyInv, Drained
<1>2. ASSUME NEW q \in Pickers
      PROVE  /\ Seeking(q)' => \A t \in Routes(got'[q]) : ~Leads(t, b)
             /\ Shuns(q, b)'
  <2>1. /\ Shuns(q, b) /\ \A t \in Routes(Stored) : ~Leads(t, b)
        /\ Seeking(q) => \A t \in Routes(got[q]) : ~Leads(t, b)
    BY DEF Drained, Shuns
  <2>2. QED
    BY <2>1, ClonesStayClear, RequestsShun
<1>3. QED
  BY <1>1, <1>2 DEF Drained, Shuns, Routes, Leads, Addresses

\* Whatever updates, retries and requests there are, and however the tables are
\* sharded, a backend that nothing in the process leads to any more gets no
\* connection, and nothing is recorded for it, until an update offers it again
\* (upstream_peer and the hooks that record an outcome, src/proxy/gateway.rs:60-131,
\* with RouteStore::update_routes, src/proxy/route_store.rs:37-55).
THEOREM DrainedCorrect == ProxySpec => DrainedStaysDrained
<1> DEFINE LeftAlone(b) == /\ Drained(b)' \/ \E h \in Handlers : Offers(h, b)'
                           /\ UNCHANGED <<health[b], failures[b]>>
<1>1. ASSUME ProxyInv, [ProxyNext]_proxyVars, NEW b \in Backends, Drained(b)
      PROVE  LeftAlone(b)
  <2>1. \A q \in Pickers : Shuns(q, b)
    BY <1>1 DEF Drained, Shuns
  <2>2. QED
    BY <1>1, <2>1, DrainedStep, ShunnedIsLeftAlone
<1>2. ProxyInv /\ [ProxyNext]_proxyVars =>
        [\A b \in Backends : Drained(b) => LeftAlone(b)]_proxyVars
  BY <1>1
<1>3. QED
  BY <1>2, ProxyInvariant, PTL DEF ProxySpec, DrainedStaysDrained
=============================================================================
