---------------------------- MODULE RoutingProofs ----------------------------
(***************************************************************************)
(* Proofs about requests routed beside updates, for any number of updates, *)
(* requests, shards and routes.                                            *)
(***************************************************************************)
EXTENDS Routing, RouteStoreProofs, RouteRulesProofs

\* What holds of the store and of every read, and the shape of the requests.
RoutingInv ==
  /\ IInv /\ HeldInv /\ ReadsInv
  /\ ask \in [Readers -> Asks \cup {NoAsk}]
  /\ DOMAIN answer = Readers

LEMMA RoutingStarts == RoutingInit => RoutingInv
<1> SUFFICES ASSUME RoutingInit PROVE RoutingInv
  OBVIOUS
<1>1. Init /\ ask \in [Readers -> Asks \cup {NoAsk}] /\ DOMAIN answer = Readers
  BY DEF RoutingInit, ReadsInit
<1>2. IInv
  BY <1>1, InitInv
<1>3. HeldInv /\ ReadsInv
  BY <1>1 DEF Init, HeldInv, ReadsInv, ReadInv, InProgress
<1>4. QED
  BY <1>1, <1>2, <1>3 DEF RoutingInv

\* A step of the store keeps what holds of the store and of reads.
LEMMA StoreStepKeeps ==
  ASSUME IInv, HeldInv, ReadsInv, Next, Observe
  PROVE  IInv' /\ HeldInv' /\ ReadsInv'
<1>1. TypeOK /\ TypeOK'
  BY StepType DEF IInv
<1>2. IInv' /\ HeldInv'
  BY <1>1, StepInv, StepHeld
<1>3. ReadsInv'
  BY <1>1, StepReads DEF ReadsNext
<1>4. QED
  BY <1>2, <1>3

\* An answer ends a read, and leaves the store and the other reads alone.
LEMMA DecideKeeps ==
  ASSUME RoutingInv, NEW r \in Readers, Decide(r), Observe
  PROVE  IInv' /\ HeldInv' /\ ReadsInv'
<1>1. /\ reading[r] = "http" /\ held[r] = NumShards
      /\ reading' = [reading EXCEPT ![r] = "replied"]
      /\ held' = [held EXCEPT ![r] = 0]
      /\ got' = [got EXCEPT ![r] = {}]
      /\ UNCHANGED <<table, version, stage, at, req, batch, gotVersion>>
  BY DEF Decide, Answer, storeVars, handlerVars
<1>2. TypeOK
  BY DEF RoutingInv, IInv
<1>3. TypeOK'
  BY <1>1, <1>2, ShardsAssumption DEF TypeOK, ReadStages
<1>4. IInv'
  BY <1>1, <1>3, ReadKeepsIInv DEF RoutingInv, IInv
<1>5. HeldInv'
  BY <1>1, <1>2 DEF RoutingInv, HeldInv, TypeOK
<1>6. ASSUME NEW q \in Readers PROVE ReadInv(q)'
  <2>1. CASE q = r
    BY <1>1, <1>2, <2>1 DEF ReadInv, InProgress, TypeOK
  <2>2. CASE q # r
    BY <1>1, <1>2, <2>2, ReadFrame DEF RoutingInv, ReadsInv, TypeOK
  <2>3. QED
    BY <2>1, <2>2
<1>7. QED
  BY <1>4, <1>5, <1>6 DEF ReadsInv

LEMMA RoutingStep == RoutingInv /\ [RoutingNext]_routingVars => RoutingInv'
<1> SUFFICES ASSUME RoutingInv, [RoutingNext]_routingVars PROVE RoutingInv'
  OBVIOUS
<1>1. IInv /\ HeldInv /\ ReadsInv
  BY DEF RoutingInv
<1>2. ASSUME NEW h \in Handlers, (\E R \in Requests : Update(h, R)) \/ Apply(h), Observe
      PROVE  RoutingInv'
  <2>1. Next /\ UNCHANGED <<ask, answer>>
    BY <1>2 DEF Update, Apply, Next
  <2>2. QED
    BY <1>1, <1>2, <2>1, StoreStepKeeps DEF RoutingInv
<1>3. ASSUME NEW r \in Readers, NEW a \in Asks, Ask(r, a), Observe
      PROVE  RoutingInv'
  <2>1. Next /\ ask' \in [Readers -> Asks \cup {NoAsk}] /\ DOMAIN answer' = Readers
    BY <1>3 DEF Ask, Next, RoutingInv
  <2>2. QED
    BY <1>1, <1>3, <2>1, StoreStepKeeps DEF RoutingInv
<1>4. ASSUME NEW r \in Readers, Clone(r) \/ ReplyRoutes(r), Observe
      PROVE  RoutingInv'
  <2>1. Next /\ UNCHANGED <<ask, answer>>
    BY <1>4 DEF Clone, ReplyRoutes, Next, Read, Maps
  <2>2. QED
    BY <1>1, <1>4, <2>1, StoreStepKeeps DEF RoutingInv
<1>5. ASSUME NEW r \in Readers, Decide(r), Observe
      PROVE  RoutingInv'
  <2>1. UNCHANGED ask /\ DOMAIN answer' = DOMAIN answer
    BY <1>5 DEF Decide, Answer
  <2>2. QED
    BY <1>5, <2>1, DecideKeeps DEF RoutingInv
<1>6. CASE UNCHANGED routingVars
  <2>1. UNCHANGED vars /\ UNCHANGED readsVars /\ UNCHANGED <<ask, answer>>
    BY <1>6 DEF routingVars, readsVars, vars
  <2>2. TypeOK /\ TypeOK'
    BY <1>1, <2>1, StepType DEF IInv
  <2>3. IInv' /\ HeldInv' /\ ReadsInv'
    BY <1>1, <2>1, <2>2, StepInv, StepHeld, StepReads
  <2>4. QED
    BY <2>1, <2>3 DEF RoutingInv
<1>7. ASSUME NEW r \in Readers, CallGetRoutes(r), Observe
      PROVE  RoutingInv'
  <2>1. Next /\ ask' \in [Readers -> Asks \cup {NoAsk}] /\ DOMAIN answer' = Readers
    BY <1>7 DEF CallGetRoutes, Next, RoutingInv
  <2>2. QED
    BY <1>1, <1>7, <2>1, StoreStepKeeps DEF RoutingInv
<1>8. QED
  BY <1>2, <1>3, <1>4, <1>5, <1>6, <1>7 DEF RoutingNext

-----------------------------------------------------------------------------
\* An iteration that has been through every shard has cloned each route that
\* was stored all the time, and none that was not stored at some moment.
LEMMA WholeRead ==
  ASSUME RoutingInv, NEW r \in Readers, reading[r] = "http", held[r] = NumShards
  PROVE  /\ Routes(got[r]) \subseteq Routes(window[r])
         /\ Routes(stable[r]) \subseteq Routes(got[r])
<1>1. /\ got[r] \subseteq window[r] /\ stable[r] \subseteq Stored
      /\ \A e \in stable[r] : ShardOf[e[1]][e[2]] \in Visited(r, e[1]) => e \in got[r]
  BY DEF RoutingInv, ReadsInv, ReadInv, InProgress
<1>2. Visited(r, "http") = 1..NumShards
  BY DEF Visited
<1>3. \A e \in Stored : e[1] \in Maps /\ e[2] \in RouteIds
  BY DEF Stored, Contents
<1>4. \A e \in stable[r] : e[1] = "http" => e \in got[r]
  BY <1>1, <1>2, <1>3, ShardsAssumption DEF Maps
<1>5. QED
  BY <1>1, <1>4 DEF Routes

LEMMA DecideFits ==
  ASSUME RoutingInv, NEW r \in Readers, Decide(r)
  PROVE  LET m == answer'[r]
             h == ask[r].host
             t == ask[r].path
         IN  /\ m # None => m \in Rules(window[r])
             /\ \A n \in Rules(stable[r]) :
                  Applies(n.route, n.rule, h, t) =>
                    m # None /\ ~Outranks(n.route, n.rule, m.route, m.rule, h, t)
<1> DEFINE h == ask[r].host
           t == ask[r].path
<1>1. /\ reading[r] = "http" /\ held[r] = NumShards
      /\ DOMAIN answer = Readers
  BY DEF Decide, Answer, RoutingInv
<1>2. PICK m \in {None} \cup Rules(got[r]) :
        IsFirst(m, Routes(got[r]), h, t) /\ answer' = [answer EXCEPT ![r] = m]
  BY DEF Decide, Answer
<1>3. answer'[r] = m
  BY <1>1, <1>2
<1>4. Routes(got[r]) \subseteq Routes(window[r]) /\ Routes(stable[r]) \subseteq Routes(got[r])
  BY <1>1, WholeRead
<1>5. m # None => m \in Rules(window[r])
  BY <1>2, <1>4 DEF Rules
<1>6. ASSUME NEW n \in Rules(stable[r]), Applies(n.route, n.rule, h, t)
      PROVE  m # None /\ ~Outranks(n.route, n.rule, m.route, m.rule, h, t)
  <2>1. n.route \in Routes(got[r]) /\ n.rule \in DOMAIN n.route.rules
    BY <1>4 DEF Rules
  <2>2. QED
    BY <1>2, <1>6, <2>1 DEF IsFirst
<1>7. QED
  BY <1>3, <1>5, <1>6

\* No step but Decide ends a read of the proxy.
LEMMA OnlyDecideAnswers ==
  ASSUME RoutingInv, [RoutingNext]_routingVars, NEW r \in Readers, Answers(r)
  PROVE  Decide(r)
<1>1. /\ reading \in [Readers -> ReadStages] /\ ask[r] # NoAsk
      /\ reading[r] # "replied" /\ reading'[r] = "replied"
  BY DEF RoutingInv, IInv, TypeOK, Answers, InProgress
<1>2. reading' # reading /\ RoutingNext
  BY <1>1 DEF routingVars, readsVars
<1>3. ASSUME NEW h \in Handlers, (\E R \in Requests : Update(h, R)) \/ Apply(h)
      PROVE  reading' = reading
  BY <1>3 DEF Update, Apply, UpdateRoutes, Serve, ClearShard, ClearDone, InsertRoute,
     InsertDone, StoreVersion, readerVars
<1>4. ASSUME NEW q \in Readers, CallGetRoutes(q) \/ \E a \in Asks : Ask(q, a)
      PROVE  reading'[r] # "replied"
  BY <1>1, <1>4 DEF CallGetRoutes, Ask, GetRoutes
<1>5. ASSUME NEW q \in Readers, Clone(q)
      PROVE  reading' = reading
  BY <1>5 DEF Clone, ReadShard
<1>6. ASSUME NEW q \in Readers, ReplyRoutes(q)
      PROVE  reading'[r] = reading[r]
  BY <1>1, <1>6 DEF ReplyRoutes, Read, ReadShard, ReadDone, LoadVersion
<1>7. ASSUME NEW q \in Readers, Decide(q)
      PROVE  q = r
  BY <1>1, <1>7 DEF Decide, Answer
<1>8. QED
  BY <1>1, <1>2, <1>3, <1>4, <1>5, <1>6, <1>7 DEF RoutingNext

\* A step of the proxy and the store answers each request as AnswerFits says.
LEMMA StepFits ==
  ASSUME RoutingInv, [RoutingNext]_routingVars, NEW r \in Readers, Answers(r)
  PROVE  LET m == answer'[r]
             h == ask[r].host
             t == ask[r].path
         IN  /\ m # None => m \in Rules(window[r])
             /\ \A n \in Rules(stable[r]) :
                  Applies(n.route, n.rule, h, t) =>
                    m # None /\ ~Outranks(n.route, n.rule, m.route, m.rule, h, t)
<1>1. Decide(r)
  BY OnlyDecideAnswers
<1>2. QED
  BY <1>1, DecideFits

\* Whatever updates run beside a request, with however many shards and routes,
\* the rule it is given fits the tables as they were while it was routed.
THEOREM AnswerFitsCorrect == RoutingSpec => AnswerFits
<1>1. RoutingSpec => []RoutingInv
  BY RoutingStarts, RoutingStep, PTL DEF RoutingSpec
<1>2. RoutingInv /\ [RoutingNext]_routingVars =>
        [\A r \in Readers : Answers(r) =>
           LET m == answer'[r]
               h == ask[r].host
               t == ask[r].path
           IN  /\ m # None => m \in Rules(window[r])
               /\ \A n \in Rules(stable[r]) :
                    Applies(n.route, n.rule, h, t) =>
                      m # None /\ ~Outranks(n.route, n.rule, m.route, m.rule, h, t)]_routingVars
  BY StepFits
<1>3. QED
  BY <1>1, <1>2, PTL DEF RoutingSpec, AnswerFits

-----------------------------------------------------------------------------
(* A scan always has an answer.                                            *)

\* The tables and what reads clone of them are finite.
FiniteInv == IsFiniteSet(Stored) /\ \A r \in Readers : IsFiniteSet(got[r])

LEMMA FiniteStarts == Init => FiniteInv
<1>1. Init => Stored = {} /\ \A r \in Readers : got[r] = {}
  BY DEF Init, Empty, Stored, Contents, Maps
<1>2. QED
  BY <1>1, FS_EmptySet DEF FiniteInv

\* A step that stores no more than one new entry, and lets the reads alone.
LEMMA OneMoreIsFinite ==
  ASSUME FiniteInv, got' = got, NEW e, Stored' \subseteq Stored \cup {e}
  PROVE  FiniteInv'
<1>1. IsFiniteSet(Stored \cup {e})
  BY FS_AddElement DEF FiniteInv
<1>2. IsFiniteSet(Stored')
  BY <1>1, FS_Subset
<1>3. QED
  BY <1>2 DEF FiniteInv

\* An insert stores one entry, that of its request, and nothing else stores any.
LEMMA ServeStores ==
  ASSUME TypeOK, NEW h \in Handlers, Serve(h)
  PROVE  /\ got' = got
         /\ \/ Stored' \subseteq Stored
            \/ \E m \in Maps : \E k \in DOMAIN req[h].routes[m] :
                 /\ ~Free(h)
                 /\ Stored' \subseteq Stored \cup
                      {<<m, req[h].routes[m][k].id, req[h].routes[m][k].body>>}
<1>1. CASE \E m \in Maps : ClearShard(h, m)
  <2>1. PICK m \in Maps :
          table' = [table EXCEPT ![m] = [id \in RouteIds |->
                      IF ShardOf[m][id] = at[h] THEN NoRoute ELSE table[m][id]]]
    BY <1>1 DEF ClearShard
  <2>2. \A n \in Maps, id \in RouteIds : table'[n][id] \in {table[n][id], NoRoute}
    BY <2>1 DEF TypeOK, Tables
  <2>3. Stored' \subseteq Stored
    <3>1. SUFFICES ASSUME NEW x \in Stored' PROVE x \in Stored
      OBVIOUS
    <3>2. PICK n \in Maps, s \in 1..NumShards : x \in Contents(n, s)'
      BY <3>1 DEF Stored
    <3>3. x \in Contents(n, s)
      BY <2>2, <3>2 DEF Contents
    <3>4. QED
      BY <3>2, <3>3 DEF Stored
  <2>4. got' = got
    BY <1>1 DEF ClearShard, readerVars
  <2>5. QED
    BY <2>3, <2>4
<1>2. CASE \E m \in Maps : InsertRoute(h, m)
  <2>1. PICK m \in Maps : InsertRoute(h, m)
    BY <1>2
  <2> DEFINE e == req[h].routes[m][at[h]]
             new == <<m, e.id, e.body>>
  <2>2. table' = [table EXCEPT ![m] = [@ EXCEPT ![e.id] = e.body]] /\ got' = got
    BY <2>1 DEF InsertRoute, readerVars
  <2>3. \A n \in Maps, id \in RouteIds :
          table'[n][id] = table[n][id] \/ (n = m /\ id = e.id /\ table'[n][id] = e.body)
    BY <2>2 DEF TypeOK, Tables
  <2>4. ~Free(h) /\ at[h] \in DOMAIN req[h].routes[m]
    <3>1. /\ stage[h] = Inserting(m) /\ at[h] \in Nat \ {0}
          /\ at[h] <= Len(req[h].routes[m])
      BY <2>1 DEF InsertRoute, TypeOK
    <3>2. stage[h] # "idle" /\ stage[h] # "replied"
      BY <3>1 DEF Inserting
    <3>3. req[h].routes[m] \in Seq(Entry)
      BY <3>2, RequestsAssumption DEF TypeOK, Request
    <3>4. QED
      BY <3>1, <3>2, <3>3 DEF Free
  <2> HIDE DEF e
  <2>5. Stored' \subseteq Stored \cup {new}
    <3>1. SUFFICES ASSUME NEW x \in Stored' PROVE x \in Stored \cup {new}
      OBVIOUS
    <3>2. PICK n \in Maps, s \in 1..NumShards : x \in Contents(n, s)'
      BY <3>1 DEF Stored
    <3>3. PICK id \in RouteIds : /\ x = <<n, id, table'[n][id]>>
                                /\ ShardOf[n][id] = s /\ table'[n][id] # NoRoute
      BY <3>2 DEF Contents
    <3>4. CASE table'[n][id] = table[n][id]
      <4>1. x \in Contents(n, s)
        BY <3>3, <3>4 DEF Contents
      <4>2. QED
        BY <3>2, <4>1 DEF Stored
    <3>5. CASE n = m /\ id = e.id /\ table'[n][id] = e.body
      BY <3>3, <3>5
    <3>6. QED
      BY <2>3, <3>4, <3>5
  <2>6. QED
    BY <2>2, <2>4, <2>5 DEF e
<1>3. CASE StoreVersion(h) \/ \E m \in Maps : ClearDone(h, m) \/ InsertDone(h, m)
  <2>1. table' = table /\ got' = got
    BY <1>3 DEF StoreVersion, ClearDone, InsertDone, storeVars, readerVars
  <2>2. QED
    BY <2>1 DEF Stored, Contents
<1>4. QED
  BY <1>1, <1>2, <1>3 DEF Serve

LEMMA ServeIsFinite ==
  ASSUME TypeOK, FiniteInv, NEW h \in Handlers, Serve(h)
  PROVE  FiniteInv'
<1>1. got' = got /\ \E e : Stored' \subseteq Stored \cup {e}
  BY ServeStores
<1>2. QED
  BY <1>1, OneMoreIsFinite

\* What a reader clones is finite, because what is stored is.
LEMMA ReadIsFinite ==
  ASSUME TypeOK, FiniteInv, NEW r \in Readers, Stored' = Stored,
         \/ got' = got
         \/ got' = [got EXCEPT ![r] = {}]
         \/ \E m \in Maps : ReadShard(r, m)
  PROVE  FiniteInv'
<1>1. CASE got' = got
  BY <1>1 DEF FiniteInv
<1>2. CASE got' = [got EXCEPT ![r] = {}]
  BY <1>2, FS_EmptySet DEF FiniteInv, TypeOK
<1>3. ASSUME NEW m \in Maps, ReadShard(r, m) PROVE FiniteInv'
  <2> DEFINE new == Contents(m, held[r] + 1)
  <2>1. got' = [got EXCEPT ![r] = got[r] \cup new] /\ held[r] + 1 \in 1..NumShards
    BY <1>3, ShardsAssumption DEF ReadShard, TypeOK
  <2>2. new \in SUBSET Stored
    BY <2>1, ShardContents
  <2> HIDE DEF new
  <2>3. IsFiniteSet(new)
    BY <2>2, FS_Subset DEF FiniteInv
  <2>4. IsFiniteSet(got[r] \cup new)
    BY <2>3, FS_Union DEF FiniteInv
  <2>5. QED
    BY <2>1, <2>4 DEF FiniteInv, TypeOK
<1>4. QED
  BY <1>1, <1>2, <1>3

LEMMA FiniteStep == TypeOK /\ FiniteInv /\ [RoutingNext]_routingVars => FiniteInv'
<1> SUFFICES ASSUME TypeOK, FiniteInv, [RoutingNext]_routingVars PROVE FiniteInv'
  OBVIOUS
<1>1. ASSUME NEW h \in Handlers, Apply(h) PROVE FiniteInv'
  BY <1>1, ServeIsFinite DEF Apply
<1>2. ASSUME NEW h \in Handlers, NEW R \in Requests, Update(h, R) PROVE FiniteInv'
  <2>1. table' = table /\ got' = got
    BY <1>2 DEF Update, UpdateRoutes, storeVars, readerVars
  <2>2. QED
    BY <2>1 DEF FiniteInv, Stored, Contents
<1>3. ASSUME NEW r \in Readers,
             CallGetRoutes(r) \/ ReplyRoutes(r) \/ (\E a \in Asks : Ask(r, a)) \/ Clone(r) \/ Decide(r)
      PROVE  FiniteInv'
  <2>1. table' = table
    BY <1>3 DEF CallGetRoutes, ReplyRoutes, Read, ReadShard, ReadDone, LoadVersion, Ask,
       GetRoutes, Clone, Decide, Answer, storeVars
  <2>2. \/ got' = got
        \/ got' = [got EXCEPT ![r] = {}]
        \/ \E m \in Maps : ReadShard(r, m)
    BY <1>3 DEF CallGetRoutes, ReplyRoutes, Read, ReadDone, LoadVersion, Ask, GetRoutes,
       Clone, Decide, Answer, Maps
  <2>3. Stored' = Stored
    BY <2>1 DEF Stored, Contents
  <2>4. QED
    BY <2>2, <2>3, ReadIsFinite
<1>4. CASE UNCHANGED routingVars
  BY <1>4 DEF routingVars, readsVars, FiniteInv, Stored, Contents
<1>5. QED
  BY <1>1, <1>2, <1>3, <1>4 DEF RoutingNext

\* Reader r has cloned every route and has yet to answer.
HasCloned(r) == ask[r] # NoAsk /\ reading[r] = "http" /\ held[r] = NumShards

\* There is an answer that Decide can give it.
HasAnswer(r) ==
  \E m \in {None} \cup Rules(got[r]) :
    IsFirst(m, Routes(got[r]), ask[r].host, ask[r].path)

LEMMA ClonedHasAnswer ==
  ASSUME RoutingInv, FiniteInv, NEW r \in Readers, HasCloned(r)
  PROVE  HasAnswer(r)
<1> DEFINE T == Routes(got[r])
<1>1. ask[r].host \in Host /\ ask[r].path \in Paths
  BY AsksAssumption DEF RoutingInv, HasCloned
<1>2. T \in SUBSET Route
  <2>1. got[r] \in SUBSET (Maps \X RouteIds \X Bodies)
    BY DEF RoutingInv, IInv, TypeOK
  <2>2. QED
    BY <2>1, BodiesAssumption DEF Routes
<1>3. IsFiniteSet(T)
  <2> DEFINE H == {e \in got[r] : e[1] = "http"}
             f == [e \in H |-> e[3]]
  <2>1. H \in SUBSET got[r]
    OBVIOUS
  <2>2. IsFiniteSet(H)
    <3> HIDE DEF H
    <3>1. QED
      BY <2>1, FS_Subset DEF FiniteInv
  <2>3. f \in Surjection(H, T)
    BY DEF Surjection, Routes
  <2> HIDE DEF H, f, T
  <2>4. QED
    BY <2>2, <2>3, FS_Surjection DEF ExistsSurjection
<1> HIDE DEF T
<1>4. \/ IsFirst(None, T, ask[r].host, ask[r].path)
      \/ \E t \in T : \E i \in DOMAIN t.rules :
           IsFirst([route |-> t, rule |-> i], T, ask[r].host, ask[r].path)
  BY <1>1, <1>2, <1>3, SomeRuleIsFirst
<1>5. ASSUME NEW t \in T, NEW i \in DOMAIN t.rules
      PROVE  [route |-> t, rule |-> i] \in Rules(got[r])
  BY DEF T, Rules
<1>6. QED
  BY <1>4, <1>5 DEF T, HasAnswer

\* Whatever a request has cloned while updates ran beside it, the scan of it has
\* an answer: some rule that the documented precedence puts first, or 404
\* (the loops of Router::find_backend end with a choice).
THEOREM ScanHasAnswer == RoutingSpec => [](\A r \in Readers : HasCloned(r) => HasAnswer(r))
<1>1. RoutingInit => FiniteInv
  BY FiniteStarts DEF RoutingInit, ReadsInit
<1>2. RoutingInv => TypeOK
  BY DEF RoutingInv, IInv
<1>3. RoutingInv /\ FiniteInv => \A r \in Readers : HasCloned(r) => HasAnswer(r)
  BY ClonedHasAnswer
<1>4. QED
  BY <1>1, <1>2, <1>3, RoutingStarts, RoutingStep, FiniteStep, PTL DEF RoutingSpec
=============================================================================
