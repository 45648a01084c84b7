---------------------------- MODULE MCLoadBalancer ----------------------------
(* The load balancer over small backend lists.                              *)
EXTENDS LoadBalancer, TLC

CONSTANTS b1, b2

MCShard == (b1 :> 1 @@ b2 :> 2)
B(a, w) == [address |-> a, weight |-> w]

\* One list whose weights add up to three, one of them zero.
MCWeighted == {<<B(b1, 2), B(b2, 0)>>}

PickerSymmetry == Permutations(Pickers)
=============================================================================
