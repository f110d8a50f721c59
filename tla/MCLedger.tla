------------------------------ MODULE MCLedger ------------------------------
(* Small instances of Ledger for TLC.                                       *)
EXTENDS Ledger, TLC

CONSTANTS alice, bob, carol

AddressSymmetry == Permutations(Addresses)

(* A payment, and what only sendInteractive lets through.                   *)
AnyNumbers == {-30, 30}
=============================================================================
