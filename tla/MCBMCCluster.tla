---------------------------- MODULE MCBMCCluster ----------------------------
EXTENDS BMCCluster, TLC

(* The last block of a /24 network, where the byte comes close to its end. *)
LastBlock == [b \in Blocks |-> 254]

Symmetry == Permutations(Blocks \ Malformed)
=============================================================================
