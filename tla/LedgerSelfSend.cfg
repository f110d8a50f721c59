\* Sends may go back to the sender.
SPECIFICATION Spec
CONSTANTS
    alice = alice
    bob = bob
    carol = carol
    Addresses = {alice, bob}
    FundAmounts = {50}
    SendAmounts = {30, 100}
    MaxBlocks = 5
    SelfSends = TRUE
    SameSecond = FALSE
INVARIANTS
    NoDoubleSpend
SYMMETRY AddressSymmetry
CHECK_DEADLOCK FALSE
