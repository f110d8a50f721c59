--------------------------- MODULE MCCapOptimizer ---------------------------
(* Small instances of CapOptimizer for TLC.                                 *)
EXTENDS CapOptimizer, TLC

CONSTANTS a, b, c, p, q

Symmetry == Permutations(Replicas) \cup Permutations(Peers)
=============================================================================
