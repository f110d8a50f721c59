\* A command that ends before the monitor's first tick.
SPECIFICATION Spec
CONSTANTS
    shardThreshold = 100
    ChainLengths <- RealChains
    Monitor = FALSE
INVARIANTS
    NewBlockFound
    VerificationSucceeds
    SizeBounded
    NothingLostUnsplit
PROPERTIES
    OneEntryPerAdd
CHECK_DEADLOCK FALSE
