--------------------------- MODULE MCHealthTracker ---------------------------
(* The health tracker with two backends whose counts share a shard.         *)
EXTENDS HealthTracker, TLC

CONSTANTS b1, b2

MCShard == (b1 :> 1 @@ b2 :> 1)
Symmetry == Permutations(Workers) \cup Permutations(Backends)
=============================================================================
