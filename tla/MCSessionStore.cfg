SPECIFICATION Spec
CONSTANTS
    Keep = 2
    Upsets = {"inside", "headless"}
    MaxQueued = 1
    MaxMessages = 4
    MaxNodes = 4
INVARIANTS
    BranchIsMemory
    ForkHoldsBranch
PROPERTIES
    CommittedTurnsAreKept
CHECK_DEADLOCK FALSE
