--------------------------- MODULE RouteStoreSync ---------------------------
(***************************************************************************)
(* The route store implements RouteSync: between calls its tables are the  *)
(* promised view, and while any UpdateRoutes call is in progress nothing   *)
(* is promised about them.                                                 *)
(***************************************************************************)
EXTENDS RouteStore

CONSTANT Syncing

ASSUME SyncingAssumption == Syncing \notin Tables

view == IF Quiescent THEN table ELSE Syncing

Sync == INSTANCE RouteSync WITH view <- view

\* RouteStore::update_routes, run by any number of handlers over sharded maps,
\* is a full sync as RouteSync describes it.
ImplementsSync == Sync!Spec
=============================================================================
