----------------------------- MODULE RouteConfig -----------------------------
(***************************************************************************)
(* The data that RouteStore (src/store/route_store.rs) keeps and that an   *)
(* UpdateRoutes call carries: two tables of routes keyed by route id, and  *)
(* requests that list the routes of each table.  Only the id of a route    *)
(* and the fact that two routes under one id may differ matter here, so    *)
(* the hostnames and rules of a route are one opaque body.                 *)
(***************************************************************************)
EXTENDS Naturals, Sequences

CONSTANTS
  RouteIds,   \* the "namespace/name" ids of routes
  Bodies,     \* what a route says besides its id: hostnames and rules
  NoRoute,    \* the id is not in the table
  Requests    \* the UpdateRoutes requests a controller may send

\* The two DashMaps of the store.
Maps == {"http", "grpc"}

Entry == [id : RouteIds, body : Bodies]
Request == [routes : [Maps -> Seq(Entry)], version : Nat]
Tables == [Maps -> [RouteIds -> Bodies \cup {NoRoute}]]
Empty == [m \in Maps |-> [id \in RouteIds |-> NoRoute]]

ASSUME NoRouteAssumption == NoRoute \notin Bodies

ASSUME RequestsAssumption == \A R \in Requests : R \in Request

-----------------------------------------------------------------------------
Listed(R, m, id) == \E k \in 1..Len(R.routes[m]) : R.routes[m][k].id = id

\* What inserting the list of R, in its order, leaves under an id: the last
\* entry with that id, because DashMap::insert replaces.
LastEntry(R, m, id) ==
  CHOOSE k \in 1..Len(R.routes[m]) :
    /\ R.routes[m][k].id = id
    /\ \A j \in 1..Len(R.routes[m]) : R.routes[m][j].id = id => j <= k

Final(R, m, id) ==
  IF Listed(R, m, id) THEN R.routes[m][LastEntry(R, m, id)].body ELSE NoRoute

\* The tables that request R describes.
TablesOf(R) == [m \in Maps |-> [id \in RouteIds |-> Final(R, m, id)]]
=============================================================================
