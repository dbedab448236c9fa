SPECIFICATION MCFairSpec
CONSTANTS
    Proc = {p1, p2}
    Free = Free
    Stale = Stale
    f1 = f1
    f2 = f2
    c1 = c1
    c2 = c2
    Path <- MCPath
    Content <- MCContent
    Absent = Absent
    Torn = Torn
    NoPath = NoPath
    Candidates <- MCCandidates
    MaxEdits = 1
INVARIANTS
    AllOrNothing
    LockIsSound
PROPERTIES
    StaleBlocksWrites
    EveryApplyAnswers
CHECK_DEADLOCK FALSE
