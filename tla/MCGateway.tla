------------------------------ MODULE MCGateway ------------------------------
(* Requests of two rules that share a backend.                             *)
EXTENDS Gateway, TLC

CONSTANTS one, two, bad

MCShard == (one :> 1 @@ two :> 1 @@ bad :> 2)
B(a) == [address |-> a, weight |-> 1]

MCPools == {<<B(two), B(one)>>, <<B(two), B(bad)>>}

RequestSymmetry == Permutations(Pickers)
=============================================================================
