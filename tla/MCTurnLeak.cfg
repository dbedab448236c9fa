SPECIFICATION Spec
CONSTANTS
    Worker = w
    Hosts = {h}
    MaxCalls = 1
    Settings <- MCInterrupted
    Steers = {"steering", "follow_up"}
INVARIANTS
    PlanRunsOnlyIfApproved
