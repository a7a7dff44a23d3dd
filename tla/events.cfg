SPECIFICATION FairSpec
CONSTANTS
    a1 = a1
    a2 = a2
    Accounts = {a1, a2}
    First = a1
    MaxVersion <- MCMaxVersion
    MaxFaults = 1
    None = None
INVARIANTS
    RoomOfShownAccount
    HeardIsShown
PROPERTIES
    ListNeverGoesBack
    HeardIsShownEventually
CHECK_DEADLOCK FALSE
