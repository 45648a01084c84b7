-------------------------- MODULE MCRouteStoreCalls --------------------------
(* The route store alone, for what the documentation says of its calls.     *)
EXTENDS RouteStore, MCRoutes
=============================================================================
