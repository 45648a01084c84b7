---------------------------- MODULE MCProxyProcess ----------------------------
(* A process with two configurations and two requests to route.            *)
EXTENDS ProxyProcessRegister, TLC

CONSTANTS a, b, api, ex, bracket, c, up

MCShardOf == [m \in Maps |-> (a :> 1 @@ b :> 2)]
MCNameBytes == api :> 3 @@ bracket :> 1 @@ NoRest :> 0 @@ ex :> 3
MCPathBytes(s) == Len(s)

Root == <<Slash>>
C == <<Slash, c>>
MCPaths == {Root, C}
ApiHost == [first |-> api, rest |-> ex]

MCRule(type, value) ==
  [matches |-> <<[type |-> type, value |-> value]>>, backends |-> <<up>>]
Everything == [hostnames |-> <<>>, rules |-> <<MCRule("Prefix", Root)>>]
Wildcard == [hostnames |-> <<[kind |-> "wildcard", rest |-> ex]>>,
             rules |-> <<MCRule("Prefix", C), MCRule("Exact", Root)>>]
MCBodies == {Everything, Wildcard}

E(i, body) == [id |-> i, body |-> body]

\* Two configurations: the second drops a route.
MCRequests == {
  [routes |-> [http |-> <<E(b, Wildcard), E(a, Everything)>>, grpc |-> <<>>], version |-> 1],
  [routes |-> [http |-> <<E(a, Everything)>>, grpc |-> <<>>], version |-> 2]}

MCAsks == {[host |-> ApiHost, path |-> C]}
=============================================================================
