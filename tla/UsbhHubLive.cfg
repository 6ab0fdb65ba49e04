CONSTANTS
    NChild = 2
    Kinds = {"hub", "func"}
    Max = 12
    QLen = 7
    Stable = 2
    MaxReads = 18
    Removable = {0, 1, 2}
    MaxMoves = 6
    Sends = {"waits", "fails"}
    Faults = {}
SPECIFICATION FairSpec
INVARIANTS AnswersUnique PollingAlive
PROPERTIES Follows
CHECK_DEADLOCK FALSE
