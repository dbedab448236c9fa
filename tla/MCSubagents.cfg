SPECIFICATION FairRunSpec
CONSTANTS
    AgentRequests = {2, 4}
    MaxCancels = 1
    MaxWrites = 2
INVARIANTS
    StartsOnResults
    PatchIsOneAttempt
PROPERTIES
    EveryRunAnswers
CHECK_DEADLOCK FALSE
