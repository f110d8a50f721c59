\* Sends go to another address and every command takes more than a second.
SPECIFICATION Spec
CONSTANTS
    alice = alice
    bob = bob
    carol = carol
    Addresses = {alice, bob, carol}
    FundAmounts = {0, 50}
    SendAmounts = {30, 100}
    MaxBlocks = 5
    SelfSends = FALSE
    SameSecond = FALSE
INVARIANTS
    TypeOK
    NoDoubleSpend
    FindUTXOExact
    PositiveOutputs
PROPERTIES
    ImplementsAccounts
SYMMETRY AddressSymmetry
CHECK_DEADLOCK FALSE
