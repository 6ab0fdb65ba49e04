CONSTANTS
    NChild = 2
    Kinds = {"func", "hub"}
    Max = 5
    QLen = 3
    Stable = 1
    MaxReads = 3
    Removable = {0, 1, 2}
    MaxMoves = 6
    Sends = {"waits", "fails"}
    Faults = {"status", "reset", "descriptor", "address", "config", "class", "power", "poll"}
SPECIFICATION FairSpec
INVARIANTS TypeOK AddressesUnique NoOrphans
PROPERTIES DeinitReturns
CHECK_DEADLOCK FALSE
