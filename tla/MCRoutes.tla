------------------------------- MODULE MCRoutes -------------------------------
(* Route ids, shards and requests small enough for TLC.                      *)
EXTENDS Naturals, TLC

CONSTANTS a, b, x, y

E(i, c) == [id |-> i, body |-> c]

\* The hash puts the two ids in different shards of one map and in the same
\* shard of the other.
MCShardOf == [http |-> (a :> 1 @@ b :> 2), grpc |-> (a :> 2 @@ b :> 2)]

\* Two configurations that share an id, with a duplicate id in the second.
MCRequests == {
  [routes |-> [http |-> <<E(a, x), E(b, x)>>, grpc |-> <<E(a, x)>>], version |-> 2],
  [routes |-> [http |-> <<E(b, x), E(b, y)>>, grpc |-> <<>>], version |-> 1]}
=============================================================================
