SPECIFICATION FairSpec
CONSTANTS
    MaxUses = 3
    MaxProcesses = 4
INVARIANTS
    NoProcessForgotten
PROPERTIES
    UseGetsItsAnswer
    UseEnds
CHECK_DEADLOCK FALSE
