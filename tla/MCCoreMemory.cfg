SPECIFICATION Spec
CONSTANTS
    Facts = {f1, f2, unsafe}
    Unsafe = {unsafe}
    Callers = {c1, c2}
    MaxEarlier = 2
    MaxMemories = 3
    MaxCalls = 3
    MaxFaults = 1
INVARIANTS
    MarkdownIsGoverned
    LedgerIsTruthful
    AutomationKeepsFacts
SYMMETRY Symmetry
CHECK_DEADLOCK FALSE
