\* The monitor merges idle shards while the command adds.
SPECIFICATION FairSpec
CONSTANTS
    shardThreshold = 4
    ChainLengths = {2, 6}
    Monitor = TRUE
INVARIANTS
    TypeOK
    OwnArrayIntact
PROPERTIES
    EntriesNeverDrop
    AddDataReturnsUnlessCrossed
CHECK_DEADLOCK FALSE
