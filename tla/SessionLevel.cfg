\* A session with the menu; the level is set before a block is added.
SPECIFICATION Spec
CONSTANTS
    CommandLines <- MenuOnly
    Addresses = {"alice", "bob"}
    NodeIDs = {"", "n"}
INVARIANTS
    LevelTakesEffect
CHECK_DEADLOCK FALSE
