--------------------------- MODULE RouteStoreProofs ---------------------------
(***************************************************************************)
(* Proofs about RouteStore and the reads of it, for any number of          *)
(* handlers, readers, shards, ids and requests.                            *)
(***************************************************************************)
EXTENDS RouteStoreSync, RouteStoreReads, TLAPS

\* The lists of a request hold routes.
LEMMA ListEntry ==
  ASSUME NEW R \in Requests, NEW m \in Maps,
         NEW k \in Nat \ {0}, k <= Len(R.routes[m])
  PROVE  R.routes[m][k] \in Entry
<1>1. R.routes[m] \in Seq(Entry)
  BY RequestsAssumption DEF Request
<1>2. k \in 1..Len(R.routes[m])
  BY <1>1
<1>3. QED
  BY <1>1, <1>2

\* Every step of the store keeps its type.
LEMMA StepType == TypeOK /\ [Next]_vars => TypeOK'
<1> SUFFICES ASSUME TypeOK, [Next]_vars PROVE TypeOK'
  OBVIOUS
<1> USE DEF TypeOK, Stages, ReadStages, storeVars, handlerVars, readerVars
<1>1. ASSUME NEW h \in Handlers, NEW R \in Requests, UpdateRoutes(h, R)
      PROVE  TypeOK'
  BY <1>1 DEF UpdateRoutes
<1>2. ASSUME NEW h \in Handlers, NEW m \in Maps, ClearShard(h, m)
      PROVE  TypeOK'
  <2>1. table' \in Tables
    BY <1>2 DEF ClearShard, Tables
  <2>2. at' \in [Handlers -> Nat \ {0}]
    BY <1>2 DEF ClearShard
  <2>3. QED
    BY <1>2, <2>1, <2>2 DEF ClearShard
<1>3. ASSUME NEW h \in Handlers, NEW m \in Maps, ClearDone(h, m)
      PROVE  TypeOK'
  BY <1>3 DEF ClearDone, Clearing, AfterClear
<1>4. ASSUME NEW h \in Handlers, NEW m \in Maps, InsertRoute(h, m)
      PROVE  TypeOK'
  <2> DEFINE e == req[h].routes[m][at[h]]
  <2>1. req[h] \in Requests /\ at[h] \in Nat \ {0}
    BY <1>4 DEF InsertRoute, Inserting
  <2>2. /\ at[h] <= Len(req[h].routes[m])
        /\ table' = [table EXCEPT ![m] = [@ EXCEPT ![e.id] = e.body]]
        /\ at' = [at EXCEPT ![h] = at[h] + 1]
    BY <1>4 DEF InsertRoute
  <2>3. table' \in Tables
    <3> HIDE DEF TypeOK, e
    <3>1. e.id \in RouteIds /\ e.body \in Bodies
      BY <2>1, <2>2, ListEntry DEF e, Entry
    <3>2. table \in Tables
      BY DEF TypeOK
    <3>3. QED
      BY <2>2, <3>1, <3>2 DEF Tables
  <2>4. at' \in [Handlers -> Nat \ {0}]
    BY <2>2
  <2>5. QED
    BY <1>4, <2>3, <2>4 DEF InsertRoute
<1>5. ASSUME NEW h \in Handlers, NEW m \in Maps, InsertDone(h, m)
      PROVE  TypeOK'
  BY <1>5 DEF InsertDone, Inserting, AfterInsert
<1>6. ASSUME NEW h \in Handlers, StoreVersion(h)
      PROVE  TypeOK'
  <2>1. req[h] \in Request
    BY <1>6, RequestsAssumption DEF StoreVersion
  <2>2. QED
    BY <1>6, <2>1 DEF StoreVersion, Request
<1>7. ASSUME NEW r \in Readers, GetRoutes(r)
      PROVE  TypeOK'
  BY <1>7 DEF GetRoutes
<1>8. ASSUME NEW r \in Readers, NEW m \in Maps, ReadShard(r, m)
      PROVE  TypeOK'
  <2>1. Contents(m, held[r] + 1) \subseteq Maps \X RouteIds \X Bodies
    BY DEF Contents, Tables
  <2>2. held' \in [Readers -> 0..NumShards]
    BY <1>8, ShardsAssumption DEF ReadShard
  <2>3. got' \in [Readers -> SUBSET (Maps \X RouteIds \X Bodies)]
    BY <1>8, <2>1 DEF ReadShard
  <2>4. QED
    BY <1>8, <2>2, <2>3 DEF ReadShard
<1>9. ASSUME NEW r \in Readers, NEW m \in Maps, ReadDone(r, m)
      PROVE  TypeOK'
  BY <1>9, ShardsAssumption DEF ReadDone, AfterRead
<1>10. ASSUME NEW r \in Readers, LoadVersion(r)
       PROVE  TypeOK'
  BY <1>10 DEF LoadVersion
<1>11. CASE UNCHANGED vars
  BY <1>11 DEF vars
<1>12. QED
  BY <1>1, <1>2, <1>3, <1>4, <1>5, <1>6, <1>7, <1>8, <1>9, <1>10, <1>11
  DEF Next, Serve, Read

\* The state of the route store keeps its type
\* (src/store/route_store.rs, src/grpc/routing_service.rs).
THEOREM TypeCorrect == Spec => []TypeOK
<1>1. Init => TypeOK
  BY ShardsAssumption DEF Init, TypeOK, Tables, Empty, Stages, ReadStages, Quiescent
<1>2. QED
  BY <1>1, StepType, PTL DEF Spec

-----------------------------------------------------------------------------
(* What the list of a request leaves under an id.                          *)

LEMMA FinalAtLast ==
  ASSUME NEW R \in Request, NEW m \in Maps, NEW id \in RouteIds,
         NEW k \in 1..Len(R.routes[m]),
         R.routes[m][k].id = id,
         \A j \in (k + 1)..Len(R.routes[m]) : R.routes[m][j].id # id
  PROVE  Final(R, m, id) = R.routes[m][k].body
<1>1. Len(R.routes[m]) \in Nat
  BY DEF Request
<1>2. \A j \in 1..Len(R.routes[m]) : R.routes[m][j].id = id => j <= k
  BY <1>1
<1>3. LastEntry(R, m, id) = k
  BY <1>1, <1>2 DEF LastEntry
<1>4. Listed(R, m, id)
  BY DEF Listed
<1>5. QED
  BY <1>3, <1>4 DEF Final

LEMMA FinalUnlisted ==
  ASSUME NEW R, NEW m, NEW id, ~Listed(R, m, id)
  PROVE  Final(R, m, id) = NoRoute
BY DEF Final

-----------------------------------------------------------------------------
(* The inductive invariant: an id that no handler may still write is as    *)
(* some request of the batch describes it.  A handler at work is needed in *)
(* the batch, because the step that settles an id settles it as the        *)
(* request of that handler says.                                           *)

IInv == TypeOK /\ BatchInv /\ SettledIsMerge /\ VersionFromBatch

\* A step that neither writes (m, id) nor settles it for anyone keeps it.
LEMMA KeptSettled ==
  ASSUME SettledIsMerge, NEW m \in Maps, NEW id \in RouteIds,
         batch # {}, batch' = batch, table'[m][id] = table[m][id],
         \A h \in Handlers : Unsettled(h, m, id) => Unsettled(h, m, id)',
         \A h \in Handlers : ~Unsettled(h, m, id)'
  PROVE  \E R \in batch' : table'[m][id] = Final(R, m, id)
BY DEF SettledIsMerge

\* Whether a handler may still write an id depends on its own position only.
LEMMA UnsettledFrame ==
  ASSUME NEW h, NEW m, NEW id,
         stage'[h] = stage[h], at'[h] = at[h], req'[h] = req[h]
  PROVE  Unsettled(h, m, id)' <=> Unsettled(h, m, id)
BY DEF Unsettled

\* A call that starts will write every id: it clears the whole table first.
LEMMA StartUnsettles ==
  ASSUME TypeOK, NEW h \in Handlers, NEW R \in Requests, UpdateRoutes(h, R),
         NEW m \in Maps, NEW id \in RouteIds
  PROVE  Unsettled(h, m, id)'
<1>1. stage'[h] = "clear_http" /\ at'[h] = 1
  BY DEF UpdateRoutes, TypeOK
<1>2. 1 <= ShardOf[m][id]
  BY ShardsAssumption
<1>3. CASE m = "http"
  BY <1>1, <1>2, <1>3 DEF Unsettled, Clearing
<1>4. CASE m = "grpc"
  BY <1>1, <1>4 DEF Unsettled
<1>5. QED
  BY <1>3, <1>4 DEF Maps

LEMMA ClearShardSettled ==
  ASSUME IInv, NEW h \in Handlers, NEW m \in Maps, ClearShard(h, m)
  PROVE  SettledIsMerge'
<1> SUFFICES ASSUME NEW n \in Maps, NEW id \in RouteIds, batch' # {},
                    \A g \in Handlers : ~Unsettled(g, n, id)'
             PROVE  \E R \in batch' : table'[n][id] = Final(R, n, id)
  BY DEF SettledIsMerge
<1>1. /\ stage[h] = Clearing(m)
      /\ batch' = batch
      /\ at' = [at EXCEPT ![h] = at[h] + 1]
      /\ UNCHANGED <<stage, req>>
  BY DEF ClearShard
<1>2. at[h] \in Nat /\ ShardOf[n][id] \in Nat
  BY ShardsAssumption DEF IInv, TypeOK
<1>3. CASE n = m /\ ShardOf[n][id] = at[h]
  <2>1. table'[n][id] = NoRoute
    BY <1>3 DEF ClearShard, IInv, TypeOK, Tables
  <2>2. stage'[h] \in {"clear_http", "clear_grpc"} /\ req'[h] = req[h]
    BY <1>1 DEF Clearing, IInv, TypeOK
  <2>3. ~Listed(req[h], n, id)
    BY <2>2 DEF Unsettled
  <2>4. req[h] \in batch
    BY <1>1 DEF IInv, BatchInv, Free, Clearing
  <2>5. QED
    BY <1>1, <2>1, <2>3, <2>4, FinalUnlisted
<1>4. CASE ~(n = m /\ ShardOf[n][id] = at[h])
  <2>1. table'[n][id] = table[n][id]
    BY <1>4 DEF ClearShard, IInv, TypeOK, Tables
  <2>2. ASSUME NEW g \in Handlers, Unsettled(g, n, id)
        PROVE  Unsettled(g, n, id)'
    <3>1. CASE g # h
      BY <1>1, <2>2, <3>1, UnsettledFrame DEF IInv, TypeOK
    <3>2. CASE g = h
      <4>1. at'[h] = at[h] + 1
        BY <1>1 DEF IInv, TypeOK
      <4>2. stage[h] = Clearing(n) => n = m
        BY <1>1 DEF Clearing, Maps
      <4>3. stage[h] # Inserting(n)
        BY <1>1 DEF Clearing, Inserting
      <4>4. QED
        BY <1>1, <1>2, <1>4, <2>2, <3>2, <4>1, <4>2, <4>3 DEF Unsettled
    <3>3. QED
      BY <3>1, <3>2
  <2>3. QED
    BY <1>1, <2>1, <2>2, KeptSettled DEF IInv
<1>5. QED
  BY <1>3, <1>4

LEMMA ClearDoneSettled ==
  ASSUME IInv, NEW h \in Handlers, NEW m \in Maps, ClearDone(h, m)
  PROVE  SettledIsMerge'
<1> SUFFICES ASSUME NEW n \in Maps, NEW id \in RouteIds, batch' # {},
                    \A g \in Handlers : ~Unsettled(g, n, id)'
             PROVE  \E R \in batch' : table'[n][id] = Final(R, n, id)
  BY DEF SettledIsMerge
<1>1. /\ stage[h] = Clearing(m)
      /\ at[h] > NumShards
      /\ stage' = [stage EXCEPT ![h] = AfterClear(m)]
      /\ at' = [at EXCEPT ![h] = 1]
      /\ UNCHANGED <<table, req, batch>>
  BY DEF ClearDone, storeVars
<1>2. /\ ShardOf[n][id] \in 1..NumShards
      /\ at[h] \in Nat
      /\ NumShards \in Nat
  BY ShardsAssumption DEF IInv, TypeOK
<1>3. stage'[h] = AfterClear(m) /\ at'[h] = 1
  BY <1>1 DEF IInv, TypeOK
<1>4. ASSUME NEW g \in Handlers, Unsettled(g, n, id)
      PROVE  Unsettled(g, n, id)'
  <2>1. CASE g # h
    BY <1>1, <1>4, <2>1, UnsettledFrame DEF IInv, TypeOK
  <2>2. CASE g = h /\ m = "http"
    <3>1. stage[h] = "clear_http" /\ stage'[h] = "clear_grpc" /\ req'[h] = req[h]
      BY <1>1, <1>3, <2>2 DEF Clearing, AfterClear
    <3>2. CASE n = "http"
      BY <1>1, <1>2, <1>4, <2>2, <3>1, <3>2 DEF Unsettled, Clearing, Inserting
    <3>3. CASE n = "grpc"
      BY <1>2, <1>3, <2>2, <3>1, <3>3 DEF Unsettled, Clearing
    <3>4. QED
      BY <3>2, <3>3 DEF Maps
  <2>3. CASE g = h /\ m = "grpc"
    <3>1. stage[h] = "clear_grpc" /\ stage'[h] = "insert_http" /\ req'[h] = req[h]
      BY <1>1, <1>3, <2>3 DEF Clearing, AfterClear
    <3>2. Listed(req[h], n, id)
      BY <1>1, <1>2, <1>4, <2>3, <3>1 DEF Unsettled, Clearing, Inserting, Maps
    <3>3. QED
      BY <1>3, <2>3, <3>1, <3>2 DEF Unsettled, Listed, Inserting, Maps
  <2>4. QED
    BY <2>1, <2>2, <2>3 DEF Maps
<1>5. QED
  BY <1>1, <1>4, KeptSettled DEF IInv

LEMMA InsertRouteSettled ==
  ASSUME IInv, NEW h \in Handlers, NEW m \in Maps, InsertRoute(h, m)
  PROVE  SettledIsMerge'
<1> SUFFICES ASSUME NEW n \in Maps, NEW id \in RouteIds, batch' # {},
                    \A g \in Handlers : ~Unsettled(g, n, id)'
             PROVE  \E R \in batch' : table'[n][id] = Final(R, n, id)
  BY DEF SettledIsMerge
<1> DEFINE list == req[h].routes[m]
           e == list[at[h]]
<1>1. /\ stage[h] = Inserting(m)
      /\ at[h] <= Len(list)
      /\ at' = [at EXCEPT ![h] = at[h] + 1]
      /\ table' = [table EXCEPT ![m] = [@ EXCEPT ![e.id] = e.body]]
      /\ UNCHANGED <<stage, req, batch>>
  BY DEF InsertRoute
<1>2. req[h] \in Request /\ req[h] \in batch
  BY <1>1, RequestsAssumption DEF IInv, TypeOK, BatchInv, Free, Inserting
<1>3. Len(list) \in Nat /\ at[h] \in 1..Len(list) /\ e \in Entry
  BY <1>1, <1>2 DEF Request, IInv, TypeOK
<1>4. at'[h] = at[h] + 1 /\ stage'[h] = stage[h] /\ req'[h] = req[h]
  BY <1>1 DEF IInv, TypeOK
<1>5. CASE n = m /\ id = e.id
  <2>1. table'[n][id] = e.body
    BY <1>1, <1>3, <1>5 DEF IInv, TypeOK, Tables, Entry
  <2>2. \A k \in (at[h] + 1)..Len(list) : list[k].id # id
    BY <1>1, <1>4, <1>5 DEF Unsettled
  <2>3. Final(req[h], n, id) = e.body
    BY <1>2, <1>3, <1>5, <2>2, FinalAtLast
  <2>4. QED
    BY <1>1, <1>2, <2>1, <2>3
<1>6. CASE ~(n = m /\ id = e.id)
  <2>1. table'[n][id] = table[n][id]
    BY <1>1, <1>3, <1>6 DEF IInv, TypeOK, Tables, Entry
  <2>2. ASSUME NEW g \in Handlers, Unsettled(g, n, id)
        PROVE  Unsettled(g, n, id)'
    <3>1. CASE g # h
      BY <1>1, <2>2, <3>1, UnsettledFrame DEF IInv, TypeOK
    <3>2. CASE g = h /\ stage[h] = Inserting(n)
      <4>1. n = m
        BY <1>1, <3>2 DEF Inserting, Maps
      <4>2. PICK k \in at[h]..Len(list) : list[k].id = id
        BY <2>2, <3>2, <4>1 DEF Unsettled, Inserting, Clearing
      <4>3. k \in (at[h] + 1)..Len(list)
        BY <1>3, <1>6, <4>1, <4>2
      <4>4. QED
        BY <1>4, <3>2, <4>1, <4>2, <4>3 DEF Unsettled
    <3>3. CASE g = h /\ stage[h] # Inserting(n)
      BY <1>1, <1>4, <2>2, <3>3 DEF Unsettled, Inserting, Clearing
    <3>4. QED
      BY <3>1, <3>2, <3>3
  <2>3. QED
    BY <1>1, <2>1, <2>2, KeptSettled DEF IInv
<1>7. QED
  BY <1>5, <1>6

LEMMA InsertDoneSettled ==
  ASSUME IInv, NEW h \in Handlers, NEW m \in Maps, InsertDone(h, m)
  PROVE  SettledIsMerge'
<1> SUFFICES ASSUME NEW n \in Maps, NEW id \in RouteIds, batch' # {},
                    \A g \in Handlers : ~Unsettled(g, n, id)'
             PROVE  \E R \in batch' : table'[n][id] = Final(R, n, id)
  BY DEF SettledIsMerge
<1>1. /\ stage[h] = Inserting(m)
      /\ at[h] > Len(req[h].routes[m])
      /\ stage' = [stage EXCEPT ![h] = AfterInsert(m)]
      /\ at' = [at EXCEPT ![h] = 1]
      /\ UNCHANGED <<table, req, batch>>
  BY DEF InsertDone, storeVars
<1>2. Len(req[h].routes[m]) \in Nat /\ at[h] \in Nat
  BY <1>1, RequestsAssumption DEF IInv, TypeOK, Inserting, Request
<1>3. stage'[h] = AfterInsert(m) /\ at'[h] = 1 /\ req'[h] = req[h]
  BY <1>1 DEF IInv, TypeOK
<1>4. ASSUME NEW g \in Handlers, Unsettled(g, n, id)
      PROVE  Unsettled(g, n, id)'
  <2>1. CASE g # h
    BY <1>1, <1>4, <2>1, UnsettledFrame DEF IInv, TypeOK
  <2>2. CASE g = h
    <3>1. n = "grpc" /\ m = "http" /\ Listed(req[h], n, id)
      BY <1>1, <1>2, <1>4, <2>2 DEF Unsettled, Inserting, Clearing, Maps
    <3>2. QED
      BY <1>3, <2>2, <3>1 DEF Unsettled, Listed, Inserting, AfterInsert
  <2>3. QED
    BY <2>1, <2>2
<1>5. QED
  BY <1>1, <1>4, KeptSettled DEF IInv

-----------------------------------------------------------------------------
(* The other conjuncts, and the steps that do not write a table.           *)

LEMMA StartKeepsIInv ==
  ASSUME IInv, NEW h \in Handlers, NEW R \in Requests, UpdateRoutes(h, R)
  PROVE  BatchInv' /\ SettledIsMerge' /\ VersionFromBatch'
<1>1. stage'[h] = "clear_http" /\ req'[h] = R
  BY DEF UpdateRoutes, IInv, TypeOK
<1>2. BatchInv'
  <2> SUFFICES ASSUME NEW g \in Handlers, ~Free(g)' PROVE req'[g] \in batch'
    BY DEF BatchInv
  <2>1. CASE g = h
    BY <1>1, <2>1 DEF UpdateRoutes
  <2>2. CASE g # h
    <3>1. stage'[g] = stage[g] /\ req'[g] = req[g]
      BY <2>2 DEF UpdateRoutes, IInv, TypeOK
    <3>2. ~Free(g) /\ ~Quiescent
      BY <3>1 DEF Free, Quiescent
    <3>3. QED
      BY <3>1, <3>2 DEF UpdateRoutes, IInv, BatchInv
  <2>3. QED
    BY <2>1, <2>2
<1>3. SettledIsMerge'
  BY StartUnsettles DEF SettledIsMerge, IInv
<1>4. VersionFromBatch'
  BY <1>1 DEF VersionFromBatch, Quiescent, Free
<1>5. QED
  BY <1>2, <1>3, <1>4

LEMMA WorkKeepsBatch ==
  ASSUME IInv, NEW h \in Handlers, NEW m \in Maps,
         ClearShard(h, m) \/ ClearDone(h, m) \/ InsertRoute(h, m) \/ InsertDone(h, m)
  PROVE  BatchInv' /\ VersionFromBatch'
<1>1. ~Free(h) /\ ~Free(h)' /\ batch' = batch /\ req' = req
  BY DEF ClearShard, ClearDone, InsertRoute, InsertDone, Free, Clearing, Inserting,
         AfterClear, AfterInsert, IInv, TypeOK
<1>2. \A g \in Handlers : g # h => stage'[g] = stage[g]
  BY DEF ClearShard, ClearDone, InsertRoute, InsertDone, IInv, TypeOK
<1>3. BatchInv'
  BY <1>1, <1>2 DEF IInv, BatchInv, Free
<1>4. ~Quiescent'
  BY <1>1 DEF Quiescent
<1>5. QED
  BY <1>3, <1>4 DEF VersionFromBatch

LEMMA StoreVersionKeepsIInv ==
  ASSUME IInv, NEW h \in Handlers, StoreVersion(h)
  PROVE  BatchInv' /\ SettledIsMerge' /\ VersionFromBatch'
<1>1. /\ stage[h] = "store_version" /\ stage'[h] = "replied"
      /\ UNCHANGED <<table, at, req, batch>>
      /\ version' = req[h].version
      /\ \A g \in Handlers : g # h => stage'[g] = stage[g]
  BY DEF StoreVersion, IInv, TypeOK
<1>2. BatchInv'
  BY <1>1 DEF IInv, BatchInv, Free
<1>3. SettledIsMerge'
  <2> SUFFICES ASSUME NEW n \in Maps, NEW id \in RouteIds, batch' # {},
                      \A g \in Handlers : ~Unsettled(g, n, id)'
               PROVE  \E R \in batch' : table'[n][id] = Final(R, n, id)
    BY DEF SettledIsMerge
  <2>1. ~Unsettled(h, n, id)
    BY <1>1 DEF Unsettled, Clearing, Inserting
  <2>2. \A g \in Handlers : Unsettled(g, n, id) => Unsettled(g, n, id)'
    BY <1>1, <2>1, UnsettledFrame
  <2>3. QED
    BY <1>1, <2>2, KeptSettled DEF IInv
<1>4. VersionFromBatch'
  <2>1. req[h] \in batch
    BY <1>1 DEF IInv, BatchInv, Free
  <2>2. QED
    BY <1>1, <2>1 DEF VersionFromBatch
<1>5. QED
  BY <1>2, <1>3, <1>4

LEMMA ReadKeepsIInv ==
  ASSUME IInv, UNCHANGED <<table, version, stage, at, req, batch>>
  PROVE  BatchInv' /\ SettledIsMerge' /\ VersionFromBatch'
<1>1. BatchInv' /\ VersionFromBatch'
  BY DEF IInv, BatchInv, VersionFromBatch, Quiescent, Free
<1>2. SettledIsMerge'
  BY UnsettledFrame DEF IInv, SettledIsMerge
<1>3. QED
  BY <1>1, <1>2

\* Every step of the store keeps the inductive invariant.
LEMMA StepInv == IInv /\ TypeOK' /\ [Next]_vars => IInv'
<1> SUFFICES ASSUME IInv, TypeOK', [Next]_vars
             PROVE  BatchInv' /\ SettledIsMerge' /\ VersionFromBatch'
  BY DEF IInv
<1>1. ASSUME NEW h \in Handlers, NEW R \in Requests, UpdateRoutes(h, R)
      PROVE  BatchInv' /\ SettledIsMerge' /\ VersionFromBatch'
  BY <1>1, StartKeepsIInv
<1>2. ASSUME NEW h \in Handlers, NEW m \in Maps,
             ClearShard(h, m) \/ ClearDone(h, m)
               \/ InsertRoute(h, m) \/ InsertDone(h, m)
      PROVE  BatchInv' /\ SettledIsMerge' /\ VersionFromBatch'
  BY <1>2, WorkKeepsBatch, ClearShardSettled, ClearDoneSettled,
     InsertRouteSettled, InsertDoneSettled
<1>3. ASSUME NEW h \in Handlers, StoreVersion(h)
      PROVE  BatchInv' /\ SettledIsMerge' /\ VersionFromBatch'
  BY <1>3, StoreVersionKeepsIInv
<1>4. ASSUME NEW r \in Readers, GetRoutes(r) \/ Read(r)
      PROVE  BatchInv' /\ SettledIsMerge' /\ VersionFromBatch'
  <2>1. UNCHANGED <<table, version, stage, at, req, batch>>
    BY <1>4 DEF GetRoutes, Read, ReadShard, ReadDone, LoadVersion,
                storeVars, handlerVars
  <2>2. QED
    BY <2>1, ReadKeepsIInv
<1>5. CASE UNCHANGED vars
  BY <1>5, ReadKeepsIInv DEF vars
<1>6. QED
  BY <1>1, <1>2, <1>3, <1>4, <1>5 DEF Next, Serve

LEMMA InitInv == Init => IInv
<1> SUFFICES ASSUME Init PROVE IInv
  OBVIOUS
<1>1. TypeOK
  BY ShardsAssumption DEF Init, TypeOK, Tables, Empty, Stages, ReadStages
<1>2. BatchInv /\ SettledIsMerge /\ VersionFromBatch
  BY DEF Init, BatchInv, SettledIsMerge, VersionFromBatch, Free
<1>3. QED
  BY <1>1, <1>2 DEF IInv

\* The inductive invariant of the store.
THEOREM Invariance == Spec => []IInv
BY InitInv, StepInv, TypeCorrect, PTL DEF Spec

\* However UpdateRoutes calls overlap, an id that none of them may still write
\* is as one of their requests describes it (RouteStore::update_routes).
THEOREM SettledCorrect == Spec => []SettledIsMerge
<1>1. IInv => SettledIsMerge
  BY DEF IInv
<1>2. QED
  BY <1>1, Invariance, PTL

-----------------------------------------------------------------------------
(* Between calls the tables are a merge of the batch.                      *)

LEMMA FreeSettles ==
  ASSUME NEW h \in Handlers, Free(h), NEW m, NEW id
  PROVE  ~Unsettled(h, m, id)
BY DEF Unsettled, Free, Clearing, Inserting

\* RouteSync sees the same requests and tables as the store.
LEMMA SameConfig ==
  /\ Sync!Maps = Maps
  /\ Sync!Tables = Tables
  /\ Sync!Empty = Empty
  /\ \A R, m, id : Sync!Final(R, m, id) = Final(R, m, id)
BY DEF Maps, Tables, Empty, Final, Listed, LastEntry,
       Sync!Maps, Sync!Tables, Sync!Empty, Sync!Final, Sync!Listed, Sync!LastEntry

LEMMA QuiescentIsMerge ==
  ASSUME IInv, Quiescent, batch # {}
  PROVE  Sync!IsMerge(table, batch)
<1>1. ASSUME NEW m \in Maps, NEW id \in RouteIds
      PROVE  \E R \in batch : table[m][id] = Final(R, m, id)
  BY FreeSettles DEF IInv, SettledIsMerge, Quiescent
<1>2. QED
  BY <1>1, SameConfig DEF Sync!IsMerge, IInv, TypeOK

LEMMA RedeliveryFollows == IInv => RedeliveryIsIdempotent
<1> SUFFICES ASSUME IInv, NEW R \in Requests, Quiescent, batch = {R}
             PROVE  table = TablesOf(R) /\ version = R.version
  BY DEF RedeliveryIsIdempotent
<1>1. \A m \in Maps, id \in RouteIds : table[m][id] = Final(R, m, id)
  BY QuiescentIsMerge, SameConfig DEF Sync!IsMerge
<1>2. table = TablesOf(R)
  BY <1>1 DEF TablesOf, IInv, TypeOK, Tables
<1>3. QED
  BY <1>2 DEF IInv, VersionFromBatch

\* A request delivered again while its first delivery is being served leaves
\* the store exactly as it says (RouteStore::update_routes).
THEOREM RedeliveryCorrect == Spec => []RedeliveryIsIdempotent
BY RedeliveryFollows, Invariance, PTL

-----------------------------------------------------------------------------
(* The refinement.  A step that ends the last call at work settles the     *)
(* batch; any other step of a handler is a step inside the sync.           *)

\* The route store, whatever the number of handlers and shards, implements
\* the full sync that RouteSync describes (RouteStore::update_routes).
THEOREM StoreImplementsSync == Spec => ImplementsSync
<1>1. Init => Sync!Init
  BY SameConfig DEF Init, Sync!Init, view, Quiescent, Free
<1>2. IInv /\ IInv' /\ [Next]_vars => [Sync!Next]_(Sync!vars)
  <2> SUFFICES ASSUME IInv, IInv', [Next]_vars
               PROVE  Sync!Next \/ UNCHANGED Sync!vars
    OBVIOUS
  <2>1. table # Syncing
    BY SyncingAssumption DEF IInv, TypeOK
  <2>2. ASSUME NEW h \in Handlers, NEW R \in Requests, UpdateRoutes(h, R)
        PROVE  Sync!Begin(R)
    <3>1. ~Quiescent'
      BY <2>2 DEF UpdateRoutes, Quiescent, Free, IInv, TypeOK
    <3>2. QED
      BY <2>1, <2>2, <3>1 DEF UpdateRoutes, Sync!Begin, view, storeVars
  <2>3. ASSUME NEW h \in Handlers, NEW m \in Maps,
               ClearShard(h, m) \/ ClearDone(h, m)
                 \/ InsertRoute(h, m) \/ InsertDone(h, m)
        PROVE  UNCHANGED Sync!vars
    <3>1. ~Free(h) /\ ~Free(h)'
      BY <2>3 DEF ClearShard, ClearDone, InsertRoute, InsertDone, Free, Clearing,
                  Inserting, AfterClear, AfterInsert, IInv, TypeOK
    <3>2. UNCHANGED <<version, batch>>
      BY <2>3 DEF ClearShard, ClearDone, InsertRoute, InsertDone, storeVars
    <3>3. QED
      BY <3>1, <3>2 DEF Sync!vars, view, Quiescent
  <2>4. ASSUME NEW h \in Handlers, StoreVersion(h)
        PROVE  Sync!Next
    <3>1. ~Free(h) /\ req[h] \in batch /\ req[h] \in Requests
      BY <2>4 DEF StoreVersion, Free, IInv, BatchInv, TypeOK
    <3>2. view = Syncing /\ version' = req[h].version /\ batch' = batch
      BY <2>4, <3>1 DEF StoreVersion, view, Quiescent
    <3>3. CASE Quiescent'
      <4>1. Sync!IsMerge(table', batch')
        <5>1. ASSUME NEW m \in Maps, NEW id \in RouteIds
              PROVE  \A g \in Handlers : ~Unsettled(g, m, id)'
          BY <3>3 DEF Quiescent, Free, Unsettled, Clearing, Inserting
        <5>2. batch' # {} /\ table' \in Tables
          BY <3>1, <3>2 DEF IInv, TypeOK
        <5>3. ASSUME NEW m \in Maps, NEW id \in RouteIds
              PROVE  \E R \in batch' : table'[m][id] = Final(R, m, id)
          BY <5>1, <5>2 DEF IInv, SettledIsMerge
        <5>4. QED
          BY <5>2, <5>3, SameConfig DEF Sync!IsMerge
      <4>2. view' = table'
        BY <3>3 DEF view
      <4>3. Sync!Settle(req[h])
        BY <3>1, <3>2, <4>1, <4>2 DEF Sync!Settle, Sync!IsMerge
      <4>4. QED
        BY <3>1, <4>3 DEF Sync!Next
    <3>4. CASE ~Quiescent'
      BY <3>1, <3>2, <3>4 DEF Sync!Publish, Sync!Next, view
    <3>5. QED
      BY <3>3, <3>4
  <2>5. ASSUME NEW r \in Readers, GetRoutes(r) \/ Read(r)
        PROVE  UNCHANGED Sync!vars
    BY <2>5 DEF GetRoutes, Read, ReadShard, ReadDone, LoadVersion, storeVars,
                handlerVars, Sync!vars, view, Quiescent, Free
  <2>6. CASE UNCHANGED vars
    BY <2>6 DEF vars, Sync!vars, view, Quiescent, Free
  <2>7. QED
    BY <2>2, <2>3, <2>4, <2>5, <2>6 DEF Next, Serve, Sync!Next
<1>3. QED
  BY <1>1, <1>2, Invariance, PTL DEF Spec, ImplementsSync, Sync!Spec

-----------------------------------------------------------------------------
(* What a read may answer.                                                 *)

\* Following the reads does not restrict the store.
LEMMA ReadsAreCalls == ReadsSpec => Spec
<1>1. ReadsInit => Init
  BY DEF ReadsInit
<1>2. [ReadsNext]_readsVars => [Next]_vars
  BY DEF ReadsNext, readsVars, vars
<1>3. QED
  BY <1>1, <1>2, PTL DEF ReadsSpec, Spec

LEMMA ReadsTypeCorrect == ReadsSpec => []TypeOK
BY ReadsAreCalls, TypeCorrect, PTL

\* What the histories say of a read in progress.
ReadInv(r) ==
  InProgress(r) =>
    /\ got[r] \subseteq window[r]
    /\ stable[r] \subseteq Stored
    /\ \A e \in stable[r] : ShardOf[e[1]][e[2]] \in Visited(r, e[1]) => e \in got[r]

ReadsInv == \A r \in Readers : ReadInv(r)

\* A step leaves in the histories of a read what they should hold.
LEMMA Observed ==
  ASSUME Observe, NEW r \in Readers, InProgress(r)'
  PROVE  /\ Stored' \subseteq window'[r]
         /\ stable'[r] \subseteq Stored'
         /\ InProgress(r) => window[r] \subseteq window'[r]
         /\ InProgress(r) => stable'[r] \subseteq stable[r]
BY DEF Observe, Starts

\* The routes of a shard are stored, and a stored route is in its shard.
LEMMA ShardContents ==
  ASSUME TypeOK, NEW m \in Maps, NEW s \in 1..NumShards
  PROVE  /\ Contents(m, s) \subseteq Stored
         /\ \A e \in Stored : e[1] = m /\ ShardOf[e[1]][e[2]] = s => e \in Contents(m, s)
<1>1. Contents(m, s) \subseteq Stored
  BY DEF Stored
<1>2. ASSUME NEW e \in Stored, e[1] = m, ShardOf[e[1]][e[2]] = s
      PROVE  e \in Contents(m, s)
  <2>1. PICK n \in Maps, t \in 1..NumShards : e \in Contents(n, t)
    BY DEF Stored
  <2>2. PICK id \in RouteIds : /\ e = <<n, id, table[n][id]>>
                              /\ ShardOf[n][id] = t /\ table[n][id] # NoRoute
    BY <2>1 DEF Contents
  <2>3. n = m /\ t = s
    BY <1>2, <2>2
  <2>4. QED
    BY <2>1, <2>3
<1>3. QED
  BY <1>1, <1>2

\* A reader that a step leaves alone keeps its invariant.
LEMMA ReadFrame ==
  ASSUME TypeOK, Observe, NEW r \in Readers, ReadInv(r),
         reading'[r] = reading[r], held'[r] = held[r], got'[r] = got[r]
  PROVE  ReadInv(r)'
<1> SUFFICES ASSUME InProgress(r)' PROVE ReadInv(r)'
  BY DEF ReadInv
<1>1. InProgress(r)
  BY DEF InProgress
<1>2. \A m : Visited(r, m)' = Visited(r, m)
  BY DEF Visited
<1>3. /\ got[r] \subseteq window[r]
      /\ \A e \in stable[r] : ShardOf[e[1]][e[2]] \in Visited(r, e[1]) => e \in got[r]
  BY <1>1 DEF ReadInv
<1>4. /\ window[r] \subseteq window'[r]
      /\ stable'[r] \subseteq stable[r] /\ stable'[r] \subseteq Stored'
  BY <1>1, Observed
<1>5. QED
  BY <1>2, <1>3, <1>4 DEF ReadInv

\* A new read has been through no shard.
LEMMA GetRoutesKeepsReadInv ==
  ASSUME TypeOK, TypeOK', Observe, NEW r \in Readers, GetRoutes(r), held[r] = 0
  PROVE  ReadInv(r)'
<1>1. reading'[r] = "http" /\ got'[r] = {} /\ held'[r] = 0
  BY DEF GetRoutes, TypeOK
<1>2. \A m : Visited(r, m)' = {}
  BY <1>1 DEF Visited
<1>3. InProgress(r)'
  BY <1>1 DEF InProgress
<1>4. QED
  BY <1>1, <1>2, <1>3, Observed DEF ReadInv

\* A read that enters a shard clones all of it.
LEMMA ReadShardKeepsReadInv ==
  ASSUME TypeOK, Observe, NEW r \in Readers, ReadInv(r),
         NEW m \in Maps, ReadShard(r, m)
  PROVE  ReadInv(r)'
<1> DEFINE s == held[r] + 1
<1>1. /\ reading[r] = m /\ reading'[r] = m /\ held'[r] = s /\ held[r] \in Nat
      /\ got'[r] = got[r] \cup Contents(m, s)
      /\ table' = table
  BY ShardsAssumption DEF ReadShard, TypeOK, storeVars
<1>2. s \in 1..NumShards
  BY ShardsAssumption DEF ReadShard, TypeOK
<1>3. InProgress(r) /\ InProgress(r)'
  BY <1>1 DEF InProgress, Maps
<1>4. Stored' = Stored
  BY <1>1 DEF Stored, Contents
<1>5. got'[r] \subseteq window'[r]
  BY <1>1, <1>2, <1>3, <1>4, Observed, ShardContents DEF ReadInv
<1>6. ASSUME NEW e \in stable'[r], ShardOf[e[1]][e[2]] \in Visited(r, e[1])'
      PROVE  e \in got'[r]
  <2>1. e \in stable[r] /\ e \in Stored
    BY <1>3, <1>4, Observed
  <2>2. CASE ShardOf[e[1]][e[2]] \in Visited(r, e[1])
    BY <1>1, <1>3, <2>1, <2>2 DEF ReadInv
  <2>3. CASE ShardOf[e[1]][e[2]] \notin Visited(r, e[1])
    <3>1. e[1] \in Maps
      BY <2>1 DEF Stored, Contents
    <3>2. CASE e[1] = m
      <4>1. Visited(r, m) = 1..held[r] /\ Visited(r, m)' = 1..s
        BY <1>1 DEF Visited
      <4>2. ShardOf[e[1]][e[2]] = s
        BY <1>1, <1>6, <2>3, <3>2, <4>1
      <4>3. QED
        BY <1>1, <1>2, <2>1, <3>2, <4>2, ShardContents
    <3>3. CASE e[1] # m
      <4>1. Visited(r, e[1])' = Visited(r, e[1])
        BY <1>1, <3>1, <3>3 DEF Visited, Maps
      <4>2. QED
        BY <1>6, <2>3, <4>1
    <3>4. QED
      BY <3>2, <3>3
  <2>4. QED
    BY <2>2, <2>3
<1>7. QED
  BY <1>3, <1>5, <1>6, Observed DEF ReadInv

\* Leaving a map adds no shard to those the read has been through.
LEMMA ReadDoneKeepsReadInv ==
  ASSUME TypeOK, Observe, NEW r \in Readers, ReadInv(r),
         NEW m \in Maps, ReadDone(r, m)
  PROVE  ReadInv(r)'
<1>1. /\ reading[r] = m /\ reading'[r] = AfterRead(m)
      /\ held[r] = NumShards /\ held'[r] = 0
      /\ got'[r] = got[r]
  BY DEF ReadDone, TypeOK
<1>2. InProgress(r) /\ InProgress(r)'
  BY <1>1 DEF InProgress, Maps, AfterRead
<1>3. \A n \in Maps : Visited(r, n)' = Visited(r, n)
  BY <1>1, ShardsAssumption DEF Visited, Maps, AfterRead
<1>4. \A e \in Stored' : e[1] \in Maps
  BY DEF Stored, Contents
<1>5. QED
  BY <1>1, <1>2, <1>3, <1>4, Observed DEF ReadInv

\* A reader between two maps or two calls holds no shard.
HeldInv == \A r \in Readers : reading[r] \notin Maps => held[r] = 0

\* Every step of the store keeps that.
LEMMA StepHeld == HeldInv /\ TypeOK /\ [Next]_vars => HeldInv'
<1> SUFFICES ASSUME HeldInv, TypeOK, [Next]_vars PROVE HeldInv'
  OBVIOUS
<1> USE DEF HeldInv, TypeOK, Maps
<1>1. ASSUME NEW h \in Handlers, NEW R \in Requests, UpdateRoutes(h, R)
      PROVE  HeldInv'
  BY <1>1 DEF UpdateRoutes, readerVars
<1>2. ASSUME NEW h \in Handlers, Serve(h)
      PROVE  HeldInv'
  <2>1. UNCHANGED readerVars
    BY <1>2 DEF Serve, ClearShard, ClearDone, InsertRoute, InsertDone, StoreVersion
  <2>2. QED
    BY <2>1 DEF readerVars
<1>3. ASSUME NEW r \in Readers, GetRoutes(r)
      PROVE  HeldInv'
  BY <1>3 DEF GetRoutes
<1>4. ASSUME NEW r \in Readers, NEW m \in Maps, ReadShard(r, m) \/ ReadDone(r, m)
      PROVE  HeldInv'
  BY <1>4 DEF ReadShard, ReadDone
<1>5. ASSUME NEW r \in Readers, LoadVersion(r)
      PROVE  HeldInv'
  BY <1>5 DEF LoadVersion
<1>6. CASE UNCHANGED vars
  BY <1>6 DEF vars
<1>7. QED
  BY <1>1, <1>2, <1>3, <1>4, <1>5, <1>6 DEF Next, Read

LEMMA HeldCorrect == Spec => []HeldInv
<1>1. Init => HeldInv
  BY DEF Init, HeldInv
<1>2. QED
  BY <1>1, StepHeld, TypeCorrect, PTL DEF Spec

\* Every step keeps what the histories say.
LEMMA StepReads == ReadsInv /\ TypeOK /\ TypeOK' /\ HeldInv /\ [ReadsNext]_readsVars => ReadsInv'
<1> SUFFICES ASSUME ReadsInv, TypeOK, TypeOK', HeldInv, [ReadsNext]_readsVars,
                    NEW q \in Readers
             PROVE  ReadInv(q)'
  BY DEF ReadsInv
<1>1. ReadInv(q)
  BY DEF ReadsInv
<1>2. CASE ReadsNext
  <2>1. Observe
    BY <1>2 DEF ReadsNext
  <2>2. ASSUME NEW h \in Handlers, (\E R \in Requests : UpdateRoutes(h, R)) \/ Serve(h)
        PROVE  ReadInv(q)'
    <3>1. UNCHANGED readerVars
      BY <2>2 DEF UpdateRoutes, Serve, ClearShard, ClearDone, InsertRoute, InsertDone,
                  StoreVersion
    <3>2. QED
      BY <1>1, <2>1, <3>1, ReadFrame DEF readerVars
  <2>3. ASSUME NEW r \in Readers, GetRoutes(r) \/ Read(r), r # q
        PROVE  ReadInv(q)'
    <3>1. reading'[q] = reading[q] /\ held'[q] = held[q] /\ got'[q] = got[q]
      BY <2>3 DEF GetRoutes, Read, ReadShard, ReadDone, LoadVersion, TypeOK
    <3>2. QED
      BY <1>1, <2>1, <3>1, ReadFrame
  <2>4. CASE GetRoutes(q)
    <3>1. held[q] = 0
      BY <2>4 DEF GetRoutes, HeldInv, Maps
    <3>2. QED
      BY <2>1, <2>4, <3>1, GetRoutesKeepsReadInv
  <2>5. CASE LoadVersion(q)
    <3>1. ~InProgress(q)'
      BY <2>5 DEF LoadVersion, InProgress, TypeOK
    <3>2. QED
      BY <3>1 DEF ReadInv
  <2>6. ASSUME NEW m \in Maps, ReadShard(q, m) \/ ReadDone(q, m)
        PROVE  ReadInv(q)'
    BY <1>1, <2>1, <2>6, ReadShardKeepsReadInv, ReadDoneKeepsReadInv
  <2>7. QED
    BY <1>2, <2>2, <2>3, <2>4, <2>5, <2>6 DEF ReadsNext, Next, Read
<1>3. CASE UNCHANGED readsVars
  BY <1>1, <1>3 DEF readsVars, ReadInv, InProgress, Visited, Stored, Contents
<1>4. QED
  BY <1>2, <1>3

\* What the histories say holds in every state.
LEMMA ReadsCorrect == ReadsSpec => []ReadsInv
<1>1. ReadsInit => ReadsInv
  BY DEF ReadsInit, Init, ReadsInv, ReadInv, InProgress
<1>2. QED
  BY <1>1, StepReads, ReadsTypeCorrect, ReadsAreCalls, HeldCorrect, PTL DEF ReadsSpec

\* A read never misses a route that nobody touches while it runs
\* (src/store/route_store.rs:59-72).
THEOREM UntouchedCorrect == ReadsSpec => []UntouchedRouteIsSeen
<1>1. ReadsInv => UntouchedRouteIsSeen
  BY DEF ReadsInv, ReadInv, UntouchedRouteIsSeen
<1>2. QED
  BY <1>1, ReadsCorrect, PTL

\* A read never answers with a route that was gone before it began
\* (src/store/route_store.rs:59-72).
THEOREM NothingPastCorrect == ReadsSpec => []NothingFromThePast
<1>1. ReadsInv => NothingFromThePast
  BY DEF ReadsInv, ReadInv, NothingFromThePast
<1>2. QED
  BY <1>1, ReadsCorrect, PTL

\* A GetRoutes call that has walked both maps while the tables stayed as they
\* were has cloned exactly the tables: nothing is missing or stale
\* (RouteStore::get_http_routes and get_grpc_routes).
THEOREM QuietReadIsExact ==
  ReadsSpec => [](\A r \in Readers :
                    reading[r] = "version" /\ window[r] = stable[r] => got[r] = Stored)
<1> DEFINE WindowInv == \A r \in Readers : InProgress(r) => Stored \subseteq window[r]
<1>1. ReadsInit => WindowInv
  BY DEF ReadsInit, Init, InProgress
<1>2. WindowInv /\ [ReadsNext]_readsVars => WindowInv'
  <2>1. CASE ReadsNext
    BY <2>1, Observed DEF ReadsNext
  <2>2. CASE UNCHANGED readsVars
    BY <2>2 DEF readsVars, InProgress, Stored, Contents
  <2>3. QED
    BY <2>1, <2>2
<1>3. TypeOK /\ ReadsInv /\ WindowInv =>
        \A r \in Readers : reading[r] = "version" /\ window[r] = stable[r] => got[r] = Stored
  <2> SUFFICES ASSUME TypeOK, ReadsInv, WindowInv, NEW r \in Readers,
                      reading[r] = "version", window[r] = stable[r]
               PROVE  got[r] = Stored
    OBVIOUS
  <2>1. InProgress(r) /\ Visited(r, "http") = 1..NumShards /\ Visited(r, "grpc") = 1..NumShards
    BY DEF InProgress, Visited
  <2>2. window[r] = Stored /\ got[r] \subseteq Stored
    BY <2>1 DEF ReadsInv, ReadInv
  <2>3. ASSUME NEW e \in Stored PROVE e \in got[r]
    <3>1. e[1] \in Maps /\ e[2] \in RouteIds
      BY DEF Stored, Contents
    <3>2. ShardOf[e[1]][e[2]] \in Visited(r, e[1])
      BY <2>1, <3>1, ShardsAssumption DEF Maps
    <3>3. QED
      BY <2>1, <2>2, <3>2 DEF ReadsInv, ReadInv
  <2>4. QED
    BY <2>2, <2>3
<1> HIDE DEF WindowInv
<1>4. QED
  BY <1>1, <1>2, <1>3, ReadsTypeCorrect, ReadsCorrect, PTL DEF ReadsSpec

-----------------------------------------------------------------------------
(* Calls run down: however they interleave, each has a number of steps     *)
(* left that only its own steps change, one at a time.  What CallsComplete *)
(* adds is that these steps are taken.                                     *)

Listing(h, m) == Len(req[h].routes[m])

\* The steps that an UpdateRoutes call has left.
StepsLeft(h) ==
  CASE stage[h] = "clear_http" ->
         (NumShards + 2 - at[h]) + (NumShards + 1) + Listing(h, "http") + Listing(h, "grpc") + 3
    [] stage[h] = "clear_grpc" ->
         (NumShards + 2 - at[h]) + Listing(h, "http") + Listing(h, "grpc") + 3
    [] stage[h] = "insert_http" -> (Listing(h, "http") + 2 - at[h]) + Listing(h, "grpc") + 2
    [] stage[h] = "insert_grpc" -> (Listing(h, "grpc") + 2 - at[h]) + 1
    [] stage[h] = "store_version" -> 1
    [] OTHER -> 0

\* It never goes past the end of what it walks.
AtInv ==
  \A h \in Handlers :
    /\ stage[h] \in {"clear_http", "clear_grpc"} => at[h] <= NumShards + 1
    /\ \A m \in Maps : stage[h] = Inserting(m) => at[h] <= Listing(h, m) + 1

LEMMA ListsHaveLengths ==
  ASSUME TypeOK, NEW h \in Handlers, ~Free(h), NEW m \in Maps
  PROVE  Listing(h, m) \in Nat
<1>1. req[h] \in Requests
  BY DEF TypeOK, Free, Stages
<1>2. req[h].routes[m] \in Seq(Entry)
  BY <1>1, RequestsAssumption DEF Request
<1>3. QED
  BY <1>2 DEF Listing

LEMMA ServeRunsDown ==
  ASSUME TypeOK, AtInv, NEW h \in Handlers, Serve(h)
  PROVE  /\ StepsLeft(h)' = StepsLeft(h) - 1
         /\ req' = req
         /\ stage'[h] \in {"clear_http", "clear_grpc"} => at'[h] <= NumShards + 1
         /\ \A m \in Maps : stage'[h] = Inserting(m) => at'[h] <= Listing(h, m) + 1
         /\ \A g \in Handlers \ {h} : stage'[g] = stage[g] /\ at'[g] = at[g]
<1>1. /\ stage \in [Handlers -> Stages] /\ at \in [Handlers -> Nat \ {0}]
      /\ NumShards \in Nat
  BY ShardsAssumption DEF TypeOK
<1>2. /\ ~Free(h) /\ req' = req
  BY DEF Serve, ClearShard, ClearDone, InsertRoute, InsertDone, StoreVersion, Free, Maps,
     Clearing, Inserting
<1>3. Listing(h, "http") \in Nat /\ Listing(h, "grpc") \in Nat
  BY <1>2, ListsHaveLengths DEF Maps
<1>4. \A m \in Maps : Listing(h, m)' = Listing(h, m)
  BY <1>2 DEF Listing
<1>5. /\ stage[h] \in {"clear_http", "clear_grpc"} => at[h] <= NumShards + 1
      /\ stage[h] = "insert_http" => at[h] <= Listing(h, "http") + 1
      /\ stage[h] = "insert_grpc" => at[h] <= Listing(h, "grpc") + 1
  BY DEF AtInv, Maps, Inserting
<1> USE <1>1, <1>2, <1>3, <1>4, <1>5
    DEF StepsLeft, Maps, Clearing, Inserting, AfterClear, AfterInsert
<1>6. CASE \E m \in Maps : ClearShard(h, m)
  BY <1>6 DEF ClearShard
<1>7. CASE \E m \in Maps : ClearDone(h, m)
  BY <1>7 DEF ClearDone
<1>8. CASE \E m \in Maps : InsertRoute(h, m)
  <2>1. PICK m \in Maps : InsertRoute(h, m)
    BY <1>8
  <2>2. /\ stage[h] = Inserting(m) /\ at[h] <= Listing(h, m)
        /\ at' = [at EXCEPT ![h] = at[h] + 1] /\ stage' = stage
    BY <2>1 DEF InsertRoute, Listing
  <2>3. QED
    BY <2>2
<1>9. CASE \E m \in Maps : InsertDone(h, m)
  <2>1. PICK m \in Maps : InsertDone(h, m)
    BY <1>9
  <2>2. /\ stage[h] = Inserting(m) /\ at[h] > Listing(h, m)
        /\ at' = [at EXCEPT ![h] = 1] /\ stage' = [stage EXCEPT ![h] = AfterInsert(m)]
    BY <2>1 DEF InsertDone, Listing
  <2>3. QED
    BY <2>2
<1>10. CASE StoreVersion(h)
  BY <1>10 DEF StoreVersion
<1>11. QED
  BY <1>6, <1>7, <1>8, <1>9, <1>10 DEF Serve

LEMMA HandlersRunDown ==
  ASSUME TypeOK, AtInv, [Next]_vars
  PROVE  /\ AtInv'
         /\ \A h \in Handlers : ~Free(h) =>
              UNCHANGED <<stage[h], at[h], req[h]>> \/ StepsLeft(h)' = StepsLeft(h) - 1
<1>1. /\ stage \in [Handlers -> Stages] /\ at \in [Handlers -> Nat \ {0}]
      /\ NumShards \in Nat
  BY ShardsAssumption DEF TypeOK
<1>2. CASE UNCHANGED handlerVars
  BY <1>2 DEF handlerVars, AtInv, Listing
<1>3. ASSUME NEW h \in Handlers, NEW R \in Requests, UpdateRoutes(h, R)
      PROVE  /\ AtInv'
             /\ \A g \in Handlers : ~Free(g) => UNCHANGED <<stage[g], at[g], req[g]>>
  <2>1. /\ Free(h) /\ stage' = [stage EXCEPT ![h] = "clear_http"]
        /\ at' = [at EXCEPT ![h] = 1] /\ req' = [req EXCEPT ![h] = R]
    BY <1>3 DEF UpdateRoutes
  <2>2. ASSUME NEW g \in Handlers, g # h
        PROVE  UNCHANGED <<stage[g], at[g], req[g]>>
    BY <1>1, <2>1, <2>2 DEF TypeOK
  <2>3. AtInv'
    BY <1>1, <2>1, <2>2 DEF AtInv, Listing, Inserting, Maps
  <2>4. QED
    BY <2>1, <2>2, <2>3
<1>4. ASSUME NEW h \in Handlers, Serve(h)
      PROVE  /\ AtInv'
             /\ \A g \in Handlers : ~Free(g) =>
                  UNCHANGED <<stage[g], at[g], req[g]>> \/ StepsLeft(g)' = StepsLeft(g) - 1
  <2>1. AtInv'
    BY <1>4, ServeRunsDown DEF AtInv, Listing
  <2>2. QED
    BY <1>4, <2>1, ServeRunsDown
<1>5. ASSUME NEW r \in Readers, GetRoutes(r) \/ Read(r)
      PROVE  UNCHANGED handlerVars
  BY <1>5 DEF GetRoutes, Read, ReadShard, ReadDone, LoadVersion
<1>6. QED
  BY <1>2, <1>3, <1>4, <1>5 DEF Next, vars, handlerVars

\* Whatever other calls do, an UpdateRoutes call has a number of steps left that
\* only its own steps change, and each of them takes one off: it is over after
\* twice the shards, its lists and five more, and no other call makes it start
\* again (RouteStore::update_routes neither loops nor retries).
THEOREM CallsRunDown ==
  Spec => /\ [](\A h \in Handlers : StepsLeft(h) \in Nat /\ (StepsLeft(h) = 0 <=> Free(h)))
          /\ [][\A h \in Handlers : ~Free(h) =>
                  UNCHANGED <<stage[h], at[h], req[h]>> \/ StepsLeft(h)' = StepsLeft(h) - 1]_vars
<1>1. Init => AtInv
  BY DEF Init, AtInv, Inserting, Maps
<1>2. TypeOK /\ AtInv =>
        \A h \in Handlers : StepsLeft(h) \in Nat /\ (StepsLeft(h) = 0 <=> Free(h))
  <2> SUFFICES ASSUME TypeOK, AtInv, NEW h \in Handlers
               PROVE  StepsLeft(h) \in Nat /\ (StepsLeft(h) = 0 <=> Free(h))
    OBVIOUS
  <2>1. stage[h] \in Stages /\ at[h] \in Nat \ {0} /\ NumShards \in Nat
    BY ShardsAssumption DEF TypeOK
  <2>2. CASE Free(h)
    BY <2>2 DEF Free, StepsLeft
  <2>3. CASE ~Free(h)
    <3>1. Listing(h, "http") \in Nat /\ Listing(h, "grpc") \in Nat
      BY <2>3, ListsHaveLengths DEF Maps
    <3>2. /\ stage[h] \in {"clear_http", "clear_grpc"} => at[h] <= NumShards + 1
          /\ stage[h] = "insert_http" => at[h] <= Listing(h, "http") + 1
          /\ stage[h] = "insert_grpc" => at[h] <= Listing(h, "grpc") + 1
      BY DEF AtInv, Maps, Inserting
    <3>3. QED
      BY <2>1, <2>3, <3>1, <3>2 DEF StepsLeft, Free, Stages
  <2>4. QED
    BY <2>2, <2>3
<1>3. TypeOK /\ AtInv /\ [Next]_vars =>
        /\ AtInv'
        /\ [\A h \in Handlers : ~Free(h) =>
              UNCHANGED <<stage[h], at[h], req[h]>> \/ StepsLeft(h)' = StepsLeft(h) - 1]_vars
  BY HandlersRunDown
<1>4. QED
  BY <1>1, <1>2, <1>3, TypeCorrect, PTL DEF Spec

\* The steps that a GetRoutes call has left.
ReadsLeft(r) ==
  CASE reading[r] = "http" -> (NumShards + 1 - held[r]) + NumShards + 2
    [] reading[r] = "grpc" -> (NumShards + 1 - held[r]) + 1
    [] reading[r] = "version" -> 1
    [] OTHER -> 0

\* A read too is over after a number of its own steps, which no update can add
\* to: it walks each shard of each map once, whatever is inserted behind or ahead
\* of it (RouteStore::get_http_routes and get_grpc_routes).
THEOREM ReadsRunDown ==
  Spec => /\ [](\A r \in Readers : ReadsLeft(r) \in Nat /\ (ReadsLeft(r) = 0 <=> ~InProgress(r)))
          /\ [][\A r \in Readers : InProgress(r) =>
                  UNCHANGED <<reading[r], held[r]>> \/ ReadsLeft(r)' = ReadsLeft(r) - 1]_vars
<1>1. TypeOK => \A r \in Readers : ReadsLeft(r) \in Nat /\ (ReadsLeft(r) = 0 <=> ~InProgress(r))
  BY ShardsAssumption DEF TypeOK, ReadsLeft, InProgress, ReadStages
<1>2. ASSUME TypeOK, HeldInv, [Next]_vars, NEW r \in Readers, InProgress(r)
      PROVE  UNCHANGED <<reading[r], held[r]>> \/ ReadsLeft(r)' = ReadsLeft(r) - 1
  <2>1. /\ reading \in [Readers -> ReadStages] /\ held \in [Readers -> 0..NumShards]
        /\ NumShards \in Nat
    BY <1>2, ShardsAssumption DEF TypeOK
  <2>2. CASE UNCHANGED readerVars
    BY <2>2 DEF readerVars
  <2>3. ASSUME NEW h \in Handlers, Serve(h) \/ \E R \in Requests : UpdateRoutes(h, R)
        PROVE  UNCHANGED readerVars
    BY <2>3 DEF UpdateRoutes, Serve, ClearShard, ClearDone, InsertRoute, InsertDone, StoreVersion
  <2>4. ASSUME NEW q \in Readers, q # r, GetRoutes(q) \/ Read(q)
        PROVE  UNCHANGED <<reading[r], held[r]>>
    BY <2>1, <2>4 DEF GetRoutes, Read, ReadShard, ReadDone, LoadVersion
  <2>5. ~GetRoutes(r)
    BY <1>2 DEF GetRoutes, InProgress
  <2>6. CASE Read(r)
    <3>1. CASE \E m \in Maps : ReadShard(r, m)
      BY <2>1, <3>1 DEF ReadShard, ReadsLeft, Maps
    <3>2. CASE \E m \in Maps : ReadDone(r, m)
      BY <1>2, <2>1, <3>2 DEF ReadDone, ReadsLeft, Maps, AfterRead
    <3>3. CASE LoadVersion(r)
      BY <2>1, <3>3 DEF LoadVersion, ReadsLeft
    <3>4. QED
      BY <2>6, <3>1, <3>2, <3>3 DEF Read
  <2>7. QED
    BY <1>2, <2>2, <2>3, <2>4, <2>5, <2>6 DEF Next, vars, readerVars
<1>3. TypeOK /\ HeldInv /\ [Next]_vars =>
        [\A r \in Readers : InProgress(r) =>
           UNCHANGED <<reading[r], held[r]>> \/ ReadsLeft(r)' = ReadsLeft(r) - 1]_vars
  BY <1>2
<1>4. QED
  BY <1>1, <1>3, TypeCorrect, HeldCorrect, PTL DEF Spec
=============================================================================
