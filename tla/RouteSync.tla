------------------------------ MODULE RouteSync ------------------------------
(***************************************************************************)
(* What the route store promises to whoever configures it, without shards, *)
(* loops or handler threads.  A sync is in progress or it is not.  When    *)
(* none is, the table is determined, id by id, by the requests of the last *)
(* batch of overlapping calls: every id is as one of those requests says.  *)
(* A batch of one request, delivered once or many times over, therefore    *)
(* leaves exactly what that request describes.                             *)
(***************************************************************************)
EXTENDS RouteConfig

CONSTANT Syncing   \* the view while calls are in progress: nothing is promised

VARIABLES
  view,     \* the tables, or Syncing
  version,  \* the configuration version that Health and GetRoutes report
  batch     \* the requests of the calls that overlap, directly or in a chain

vars == <<view, version, batch>>

\* Each id of v is as some request of the batch describes it.
IsMerge(v, B) ==
  /\ v \in Tables
  /\ \A m \in Maps, id \in RouteIds : \E R \in B : v[m][id] = Final(R, m, id)

Init ==
  /\ view = Empty
  /\ version = 0
  /\ batch = {}

Begin(R) ==
  /\ view' = Syncing
  /\ batch' = IF view = Syncing THEN batch \cup {R} ELSE {R}
  /\ UNCHANGED version

\* A call of the batch announces its version while others are still at work.
Publish(R) ==
  /\ view = Syncing
  /\ R \in batch
  /\ version' = R.version
  /\ UNCHANGED <<view, batch>>

\* The last call at work announces its version: the batch is over.
Settle(R) ==
  /\ view = Syncing
  /\ R \in batch
  /\ version' = R.version
  /\ IsMerge(view', batch)
  /\ UNCHANGED batch

Next == \E R \in Requests : Begin(R) \/ Publish(R) \/ Settle(R)

Spec == Init /\ [][Next]_vars
=============================================================================
