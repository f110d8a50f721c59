----------------------------- MODULE MCWallets -----------------------------
(* Small instances of Wallets for TLC.                                      *)
EXTENDS Wallets, TLC

CONSTANTS p, q

ProcessSymmetry == Permutations(Processes)
=============================================================================
