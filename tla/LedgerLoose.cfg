\* Any pair of addresses, commands of the same second, and an amount that only
\* the menu accepts.
SPECIFICATION Spec
CONSTANTS
    alice = alice
    bob = bob
    carol = carol
    Addresses = {alice, bob}
    FundAmounts = {50}
    SendAmounts <- AnyNumbers
    MaxBlocks = 4
    SelfSends = TRUE
    SameSecond = TRUE
INVARIANTS
    SpendsAuthorised
    RefusedIffUnfunded
    NothingHidden
    OrderlyIsExact
PROPERTIES
    OnlyTransfers
SYMMETRY AddressSymmetry
CHECK_DEADLOCK FALSE
