---------------------------- MODULE MCRouteStore ----------------------------
(* The route store with its readers' histories and its refinement.         *)
EXTENDS RouteStoreReads, RouteStoreSync, MCRoutes

HandlerSymmetry == Permutations(Handlers)
=============================================================================
