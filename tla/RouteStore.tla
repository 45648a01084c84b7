------------------------------ MODULE RouteStore ------------------------------
(***************************************************************************)
(* RouteStore (src/store/route_store.rs) under the gRPC service            *)
(* (src/grpc/routing_service.rs): UpdateRoutes handlers and GetRoutes      *)
(* handlers run on the worker threads of one tokio runtime and share two   *)
(* DashMaps and an atomic version.  No lock spans a call.  A DashMap is an *)
(* array of shards, each behind a read-write lock: clear() locks the       *)
(* shards one at a time, insert() locks the shard of its key, and iter()   *)
(* walks the shards in order, holding the read lock of the shard it is in  *)
(* until it holds that of the next one.                                    *)
(***************************************************************************)
EXTENDS RouteConfig

CONSTANTS
  Handlers,   \* UpdateRoutes calls that may be in progress at one time
  Readers,    \* GetRoutes calls that may be in progress at one time
  NumShards,  \* shards of a DashMap
  ShardOf,    \* [Maps -> [RouteIds -> 1..NumShards]]: the hash of a key
  NoRequest   \* a handler that has served no call yet

ASSUME ShardsAssumption ==
  /\ NumShards \in Nat
  /\ ShardOf \in [Maps -> [RouteIds -> 1..NumShards]]

ASSUME NoRequestAssumption == NoRequest \notin Requests

VARIABLES
  table,      \* http_routes and grpc_routes
  version,    \* the AtomicU64
  stage,      \* where in update_routes each handler is
  at,         \* the next shard to clear or list position to insert
  req,        \* the request each handler serves
  batch,      \* history: requests of the calls overlapping the last ones
  reading,    \* where in get_routes each reader is
  held,       \* the shard whose read lock its iterator holds; 0: none
  got,        \* the routes it has cloned, as <<map, id, body>>
  gotVersion  \* the version it has loaded

storeVars == <<table, version>>
handlerVars == <<stage, at, req, batch>>
readerVars == <<reading, held, got, gotVersion>>
vars == <<table, version, stage, at, req, batch, reading, held, got, gotVersion>>

-----------------------------------------------------------------------------
Stages == {"idle", "clear_http", "clear_grpc", "insert_http", "insert_grpc",
           "store_version", "replied"}
Clearing(m) == IF m = "http" THEN "clear_http" ELSE "clear_grpc"
Inserting(m) == IF m = "http" THEN "insert_http" ELSE "insert_grpc"
AfterClear(m) == IF m = "http" THEN "clear_grpc" ELSE "insert_http"
AfterInsert(m) == IF m = "http" THEN "insert_grpc" ELSE "store_version"

ReadStages == {"idle", "http", "grpc", "version", "replied"}
AfterRead(m) == IF m = "http" THEN "grpc" ELSE "version"

Free(h) == stage[h] \in {"idle", "replied"}
Quiescent == \A h \in Handlers : Free(h)

\* A write lock on a shard waits for the iterators that are in it.
Unlocked(m, s) == \A r \in Readers : ~(reading[r] = m /\ held[r] = s)

Contents(m, s) ==
  {<<m, id, table[m][id]>> : id \in {i \in RouteIds : /\ ShardOf[m][i] = s
                                                     /\ table[m][i] # NoRoute}}
Stored == UNION {Contents(m, s) : m \in Maps, s \in 1..NumShards}

TypeOK ==
  /\ table \in Tables
  /\ version \in Nat
  /\ stage \in [Handlers -> Stages]
  /\ at \in [Handlers -> Nat \ {0}]
  /\ req \in [Handlers -> Requests \cup {NoRequest}]
  /\ \A h \in Handlers : stage[h] # "idle" => req[h] \in Requests
  /\ batch \subseteq Requests
  /\ reading \in [Readers -> ReadStages]
  /\ held \in [Readers -> 0..NumShards]
  /\ got \in [Readers -> SUBSET (Maps \X RouteIds \X Bodies)]
  /\ gotVersion \in [Readers -> Nat]

Init ==
  /\ table = Empty
  /\ version = 0
  /\ stage = [h \in Handlers |-> "idle"]
  /\ at = [h \in Handlers |-> 1]
  /\ req = [h \in Handlers |-> NoRequest]
  /\ batch = {}
  /\ reading = [r \in Readers |-> "idle"]
  /\ held = [r \in Readers |-> 0]
  /\ got = [r \in Readers |-> {}]
  /\ gotVersion = [r \in Readers |-> 0]

-----------------------------------------------------------------------------
(* UpdateRoutes.  The request is taken as it comes: nothing compares its   *)
(* version with the one in force, nothing excludes another call.           *)

UpdateRoutes(h, R) ==
  /\ Free(h)
  /\ stage' = [stage EXCEPT ![h] = "clear_http"]
  /\ at' = [at EXCEPT ![h] = 1]
  /\ req' = [req EXCEPT ![h] = R]
  /\ batch' = IF Quiescent THEN {R} ELSE batch \cup {R}
  /\ UNCHANGED <<storeVars, readerVars>>

ClearShard(h, m) ==
  /\ stage[h] = Clearing(m)
  /\ at[h] <= NumShards
  /\ Unlocked(m, at[h])
  /\ table' = [table EXCEPT ![m] = [id \in RouteIds |->
                 IF ShardOf[m][id] = at[h] THEN NoRoute ELSE table[m][id]]]
  /\ at' = [at EXCEPT ![h] = at[h] + 1]
  /\ UNCHANGED <<version, stage, req, batch, readerVars>>

\* Mutant of ClearDone: the last shard is not cleared.
ClearDoneEarly(h, m) ==
  /\ stage[h] = Clearing(m)
  /\ at[h] >= NumShards
  /\ stage' = [stage EXCEPT ![h] = AfterClear(m)]
  /\ at' = [at EXCEPT ![h] = 1]
  /\ UNCHANGED <<storeVars, req, batch, readerVars>>

ClearDone(h, m) ==
  /\ stage[h] = Clearing(m)
  /\ at[h] > NumShards
  /\ stage' = [stage EXCEPT ![h] = AfterClear(m)]
  /\ at' = [at EXCEPT ![h] = 1]
  /\ UNCHANGED <<storeVars, req, batch, readerVars>>

\* Mutant of InsertRoute: entry(id).or_insert(route) in place of insert.
InsertIfAbsent(h, m) ==
  LET list == req[h].routes[m]
      e == list[at[h]]
  IN
  /\ stage[h] = Inserting(m)
  /\ at[h] <= Len(list)
  /\ Unlocked(m, ShardOf[m][e.id])
  /\ table' = [table EXCEPT ![m] = [@ EXCEPT ![e.id] = IF @ = NoRoute THEN e.body ELSE @]]
  /\ at' = [at EXCEPT ![h] = at[h] + 1]
  /\ UNCHANGED <<version, stage, req, batch, readerVars>>

InsertRoute(h, m) ==
  LET list == req[h].routes[m]
      e == list[at[h]]
  IN
  /\ stage[h] = Inserting(m)
  /\ at[h] <= Len(list)
  /\ Unlocked(m, ShardOf[m][e.id])
  /\ table' = [table EXCEPT ![m] = [@ EXCEPT ![e.id] = e.body]]
  /\ at' = [at EXCEPT ![h] = at[h] + 1]
  /\ UNCHANGED <<version, stage, req, batch, readerVars>>

\* Mutant of InsertDone: the last route of the list may be left out.
InsertDoneEarly(h, m) ==
  /\ stage[h] = Inserting(m)
  /\ at[h] >= Len(req[h].routes[m])
  /\ stage' = [stage EXCEPT ![h] = AfterInsert(m)]
  /\ at' = [at EXCEPT ![h] = 1]
  /\ UNCHANGED <<storeVars, req, batch, readerVars>>

InsertDone(h, m) ==
  /\ stage[h] = Inserting(m)
  /\ at[h] > Len(req[h].routes[m])
  /\ stage' = [stage EXCEPT ![h] = AfterInsert(m)]
  /\ at' = [at EXCEPT ![h] = 1]
  /\ UNCHANGED <<storeVars, req, batch, readerVars>>

\* Mutant of StoreVersion: fetch_max in place of store.
StoreNewestVersion(h) ==
  /\ stage[h] = "store_version"
  /\ version' = IF req[h].version > version THEN req[h].version ELSE version
  /\ stage' = [stage EXCEPT ![h] = "replied"]
  /\ UNCHANGED <<table, at, req, batch, readerVars>>

\* The version is stored last, and the reply reports that version.
StoreVersion(h) ==
  /\ stage[h] = "store_version"
  /\ version' = req[h].version
  /\ stage' = [stage EXCEPT ![h] = "replied"]
  /\ UNCHANGED <<table, at, req, batch, readerVars>>

Serve(h) ==
  \/ \E m \in Maps : ClearShard(h, m) \/ ClearDone(h, m)
                       \/ InsertRoute(h, m) \/ InsertDone(h, m)
  \/ StoreVersion(h)

-----------------------------------------------------------------------------
(* GetRoutes: an iteration of each map, then a load of the version.  The   *)
(* router's own read (Router::find_backend) is the first of the two        *)
(* iterations.                                                             *)

\* Mutant of GetRoutes: the routes of an earlier reply are kept.
GetRoutesInto(r) ==
  /\ reading[r] \in {"idle", "replied"}
  /\ reading' = [reading EXCEPT ![r] = "http"]
  /\ gotVersion' = [gotVersion EXCEPT ![r] = 0]
  /\ UNCHANGED <<storeVars, handlerVars, held, got>>

GetRoutes(r) ==
  /\ reading[r] \in {"idle", "replied"}
  /\ reading' = [reading EXCEPT ![r] = "http"]
  /\ got' = [got EXCEPT ![r] = {}]
  /\ gotVersion' = [gotVersion EXCEPT ![r] = 0]
  /\ UNCHANGED <<storeVars, handlerVars, held>>

\* Mutant of ReadShard: the walk goes on past the last shard.
ReadPastLastShard(r, m) ==
  /\ reading[r] = m
  /\ held' = [held EXCEPT ![r] = held[r] + 1]
  /\ got' = [got EXCEPT ![r] = got[r] \cup Contents(m, held[r] + 1)]
  /\ UNCHANGED <<storeVars, handlerVars, reading, gotVersion>>

\* Mutant of ReadShard: the shard it leaves is read, not the one it enters.
ReadShardBehind(r, m) ==
  /\ reading[r] = m
  /\ held[r] < NumShards
  /\ held' = [held EXCEPT ![r] = held[r] + 1]
  /\ got' = [got EXCEPT ![r] = got[r] \cup Contents(m, held[r])]
  /\ UNCHANGED <<storeVars, handlerVars, reading, gotVersion>>

ReadShard(r, m) ==
  /\ reading[r] = m
  /\ held[r] < NumShards
  /\ held' = [held EXCEPT ![r] = held[r] + 1]
  /\ got' = [got EXCEPT ![r] = got[r] \cup Contents(m, held[r] + 1)]
  /\ UNCHANGED <<storeVars, handlerVars, reading, gotVersion>>

ReadDone(r, m) ==
  /\ reading[r] = m
  /\ held[r] = NumShards
  /\ held' = [held EXCEPT ![r] = 0]
  /\ reading' = [reading EXCEPT ![r] = AfterRead(m)]
  /\ UNCHANGED <<storeVars, handlerVars, got, gotVersion>>

LoadVersion(r) ==
  /\ reading[r] = "version"
  /\ gotVersion' = [gotVersion EXCEPT ![r] = version]
  /\ reading' = [reading EXCEPT ![r] = "replied"]
  /\ UNCHANGED <<storeVars, handlerVars, held, got>>

Read(r) ==
  \/ \E m \in Maps : ReadShard(r, m) \/ ReadDone(r, m)
  \/ LoadVersion(r)

-----------------------------------------------------------------------------
Next ==
  \/ \E h \in Handlers : (\E R \in Requests : UpdateRoutes(h, R)) \/ Serve(h)
  \/ \E r \in Readers : GetRoutes(r) \/ Read(r)

Spec == Init /\ [][Next]_vars

-----------------------------------------------------------------------------
(* Handler h may still write under id: its clear() has not passed the      *)
(* shard, or the list it inserts still holds the id.                       *)
Unsettled(h, m, id) ==
  \/ stage[h] = Clearing(m) /\ at[h] <= ShardOf[m][id]
  \/ m = "grpc" /\ stage[h] = "clear_http"
  \/ /\ stage[h] \in {"clear_http", "clear_grpc"}
     /\ Listed(req[h], m, id)
  \/ /\ m = "grpc" /\ stage[h] = "insert_http"
     /\ Listed(req[h], m, id)
  \/ /\ stage[h] = Inserting(m)
     /\ \E k \in at[h]..Len(req[h].routes[m]) : req[h].routes[m][k].id = id

\* An id that no call may still write is as one of the overlapping requests
\* describes it: a clear() of one call and the inserts of another may mix,
\* but they never leave a stale route of an earlier configuration, nor lose
\* a route that every one of those requests lists
\* (RouteStore::update_routes, clear before insert).
SettledIsMerge ==
  \A m \in Maps, id \in RouteIds :
    (batch # {} /\ \A h \in Handlers : ~Unsettled(h, m, id))
      => \E R \in batch : table[m][id] = Final(R, m, id)

\* Once every call has ended, the version in force is that of one of the
\* overlapping requests.
VersionFromBatch ==
  Quiescent /\ batch # {} => \E R \in batch : version = R.version

\* A handler at work serves a request of the current batch.
BatchInv == \A h \in Handlers : ~Free(h) => req[h] \in batch

\* A request that is delivered again while its first delivery is still being
\* served does no harm: when every overlapping call carries the same request,
\* the tables and the version end up exactly as it says, duplicates in its
\* lists included (RouteStore::update_routes).
RedeliveryIsIdempotent ==
  \A R \in Requests :
    Quiescent /\ batch = {R} => table = TablesOf(R) /\ version = R.version

-----------------------------------------------------------------------------
InProgress(r) == reading[r] \in {"http", "grpc", "version"}

\* Every call ends: an iterator waits for nobody, so a read always ends, and an
\* update that waits for iterators to leave a shard ends unless reads keep
\* coming (dashmap's shard locks under update_routes and get_routes).
CallsComplete ==
  /\ \A r \in Readers : []<>~InProgress(r)
  /\ \A h \in Handlers : []<>(Free(h) \/ \E r \in Readers : InProgress(r))

-----------------------------------------------------------------------------
(* What the documentation says and the code does not do.                   *)

\* "UpdateRoutes replaces all routes with the provided configuration. This is
\* a full sync operation - all existing routes are replaced."
\* (proto/routing/v1/routing.proto:14-15): between calls the tables are those
\* of one request.
FullSyncReplaces ==
  Quiescent /\ batch # {} => \E R \in batch : table = TablesOf(R)

\* "Configuration version for tracking updates. Monotonically increasing, used
\* for optimistic concurrency." (proto/routing/v1/routing.proto:33-34): an
\* older configuration never takes the place of a newer one.
VersionNeverRegresses == [][version' >= version]_vars

\* "GetRoutes returns all currently configured routes."
\* (proto/routing/v1/routing.proto:18): a reply is the configuration of one
\* request, under its version, or the empty one of a new process.
Triples(t) == {e \in Maps \X RouteIds \X Bodies : t[e[1]][e[2]] = e[3]}
ReplyIsOneConfiguration ==
  \A r \in Readers : reading[r] = "replied" =>
    \/ got[r] = {} /\ gotVersion[r] = 0
    \/ \E R \in Requests : got[r] = Triples(TablesOf(R)) /\ gotVersion[r] = R.version
=============================================================================
