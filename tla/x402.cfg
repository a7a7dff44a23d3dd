SPECIFICATION FairSpec
CONSTANTS
    r1 = r1
    r2 = r2
    b1 = b1
    b2 = b2
    n1 = n1
    n2 = n2
    wallet = wallet
    base = base
    horizen = horizen
    Requests = {r1, r2}
    Authorizations <- MCAuthorizations
    Accounts <- MCAccounts
    SupportedChains = {base}
    MinDeposit = 1
    MaxDeposit = 2
    RateLimit = 1
    MaxFaults = 1
    None = None
INVARIANTS
    SettledAsReported
    AskedOnce
    PaidIsRecorded
    OvershootBounded
PROPERTIES
    LedgerSpec
    EveryDepositDecided
CHECK_DEADLOCK FALSE
