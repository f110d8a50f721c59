\* One terminal creates, all write and read, any of them dies anywhere.
SPECIFICATION Spec
CONSTANTS
    creator = creator
    user = user
    other = other
    Nobody = Nobody
    Processes = {creator, user, other}
    Creators = {creator}
    Crashes = TRUE
    MaxBlocks = 3
INVARIANTS
    TypeOK
    ChainReadable
    LastHashFresh
PROPERTIES
    ImplementsLog
    HalfMadeOnlyByCrash
SYMMETRY UserSymmetry
CHECK_DEADLOCK FALSE
