SPECIFICATION FairSpec
CONSTANTS
    Hosts = {h1}
    Tokens = {t1}
    FileEffects = {"edit"}
    OtherEffects = {"shell"}
    MaxCrashes = 2
    MaxEdits = 2
    MaxRuns = 2
    EditAnyTime = FALSE
    h1 = h1
    t1 = t1
INVARIANTS
    ConsumedMeansExecuted
PROPERTIES
    ExactEffect
    ImplementsSingleUseGrant
    StartedSettles
CHECK_DEADLOCK FALSE
