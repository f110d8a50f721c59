\* One process, from any command line, with a menu that is used for ever.
SPECIFICATION Spec
CONSTANTS
    CommandLines <- AllLines
    Addresses = {"alice", "bob"}
    NodeIDs = {"", "n"}
INVARIANTS
    TypeOK
    FlagsStripped
    NeverLockedOut
    ClosedWhileWaiting
PROPERTIES
    NothingAfterEnd
CHECK_DEADLOCK FALSE
