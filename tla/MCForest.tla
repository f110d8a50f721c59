------------------------------ MODULE MCForest ------------------------------
(* Instances of Forest for TLC. *)
EXTENDS Forest

(* 33 and 34 blocks are the last chain without a split and the first with   *)
(* one when shardThreshold is 100; the others are spread over lengths with  *)
(* ever more splits and copies.                                             *)
RealChains == {33, 34} \cup {n \in 1 .. 300 : n % 7 = 6}
=============================================================================
