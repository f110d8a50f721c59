------------------------------- MODULE MCNode -------------------------------
(* Small instances of Node for TLC.                                         *)
EXTENDS Node, TLC

CONSTANTS creator, user, other

(* The terminals that cannot create the chain are alike.                    *)
UserSymmetry == Permutations(Processes \ Creators)
=============================================================================
