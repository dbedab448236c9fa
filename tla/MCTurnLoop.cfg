SPECIFICATION FairSpec
CONSTANTS
    Worker = w
    Hosts = {h}
    MaxCalls = 1
    Settings <- MCSettings
    Steers = {"steering", "follow_up"}
INVARIANTS
    OneLeakPerException
    AckedIsDurable
    HeardOnceInOrder
PROPERTIES
    PlanRunsOnce
    SteeringFirst
    CancelStops
