SPECIFICATION FairSpec
CONSTANTS
    Proc = {p1, p2}
    Free = free
    Stale = stale
    MaxCalls = 2
    MaxRounds = 1
    Prior = prior
INVARIANTS
    OneWinner
    EvidenceFirst
PROPERTIES
    CheckpointOnlyAdvances
    ResumeAnswers
