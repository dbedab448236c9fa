SPECIFICATION FairSpec
CONSTANTS
    e1 = e1
    e2 = e2
    e3 = e3
    k1 = k1
    k2 = k2
    Events = {e1, e2, e3}
    Keys = {k1, k2}
    Key <- MCKey
    MaxQueue = 1
    MaxFaults = 1
INVARIANTS
    OncePerEvent
    AnswersTheMessage
PROPERTIES
    EveryMessageSettles
CHECK_DEADLOCK FALSE
