------------------------------- MODULE MCProxy -------------------------------
(* One route, whose rule has two backends or only the second.              *)
EXTENDS Proxy, TLC

CONSTANTS a, old, new, name

MCShardOf == [m \in Maps |-> (a :> 1)]
MCShard == (old :> 1 @@ new :> 1)
MCNameBytes == name :> 3 @@ NoRest :> 0
MCPathBytes(s) == Len(s)
Root == <<Slash>>
MCPaths == {Root}

B(address) == [address |-> address, weight |-> 1]
MCTargets == {B(old), B(new)}
MCPools == {<<B(old), B(new)>>, <<B(new)>>}

To(list) == [hostnames |-> <<>>, rules |-> <<[matches |-> <<>>, backends |-> list]>>]
MCBodies == {To(list) : list \in MCPools}

\* The proxy never reads the version.
MCRequests == {
  [routes |-> [http |-> <<[id |-> a, body |-> t]>>, grpc |-> <<>>], version |-> 0] :
    t \in MCBodies}

MCAsks == {[host |-> [first |-> name, rest |-> NoRest], path |-> Root]}
=============================================================================
