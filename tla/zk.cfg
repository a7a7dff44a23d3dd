SPECIFICATION FairSpec
CONSTANTS
    v1 = v1
    v2 = v2
    v3 = v3
    Verifications = {v1, v2, v3}
    WithKey = {v1, v2}
    Genuine = {v1}
    MaxRetries = 2
    MaxPolls = 3
    MaxFaults = 2
INVARIANTS
    AcceptedIsIncluded
PROPERTIES
    ValidFileIsKept
    FileHeals
    EveryCallAnswered
CHECK_DEADLOCK FALSE
