--------------------------- MODULE RouteStoreReads ---------------------------
(***************************************************************************)
(* What a GetRoutes call may answer while UpdateRoutes calls run beside    *)
(* it.  Two history variables follow each read from its start: the routes  *)
(* that were stored at some moment of it, and those that were at every     *)
(* moment of it.  They are emptied when the read ends: what it has cloned  *)
(* changes no more.                                                        *)
(***************************************************************************)
EXTENDS RouteStore

VARIABLES
  window,   \* per reader: the routes stored at some moment of its read
  stable    \* per reader: the routes stored at every moment of its read

readsVars == <<table, version, stage, at, req, batch,
               reading, held, got, gotVersion, window, stable>>

Starts(r) == ~InProgress(r) /\ InProgress(r)'

ReadsInit ==
  /\ Init
  /\ window = [r \in Readers |-> {}]
  /\ stable = [r \in Readers |-> {}]

Observe ==
  /\ window' = [r \in Readers |->
       IF ~InProgress(r)' THEN {}
       ELSE IF Starts(r) THEN Stored' ELSE window[r] \cup Stored']
  /\ stable' = [r \in Readers |->
       IF ~InProgress(r)' THEN {}
       ELSE IF Starts(r) THEN Stored' ELSE stable[r] \cap Stored']

ReadsNext == Next /\ Observe

ReadsSpec == ReadsInit /\ [][ReadsNext]_readsVars

-----------------------------------------------------------------------------
\* The shards of map m that a read in progress has been through.
Visited(r, m) ==
  CASE reading[r] = m -> 1..held[r]
    [] m = "http" /\ reading[r] \in {"grpc", "version"} -> 1..NumShards
    [] m = "grpc" /\ reading[r] = "version" -> 1..NumShards
    [] OTHER -> {}

\* A read never misses a route that nobody touches while it runs, however the
\* clears and inserts of other routes interleave with its walk of the shards
\* (RouteStore::get_http_routes and get_grpc_routes).  So a request can only
\* lose a route whose own entry an update has removed.
UntouchedRouteIsSeen ==
  \A r \in Readers : InProgress(r) =>
    \A e \in stable[r] : ShardOf[e[1]][e[2]] \in Visited(r, e[1]) => e \in got[r]

\* A read never answers with a route that was gone before it began
\* (RouteStore::get_http_routes and get_grpc_routes clone live entries only).
NothingFromThePast == \A r \in Readers : InProgress(r) => got[r] \subseteq window[r]
=============================================================================
