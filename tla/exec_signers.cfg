SPECIFICATION FairSpec
CONSTANTS
    t1 = t1
    t2 = t2
    s1 = s1
    s2 = s2
    s3 = s3
    h1 = h1
    h2 = h2
    c1 = c1
    c2 = c2
    zero = zero
    eth = eth
    TxIds = {t1}
    Signers = {s1, s2, s3}
    Creator <- MCCreator
    InitialThreshold = 2
    Hashes = {h1, h2}
    NoHash = NoHash
    Callers = {c1}
    CallOf <- OneExpulsion
    SlowCalls = FALSE
    MaxCrashes = 0
    NoTx = NoTx
    Commitments <- MCCommitments
    ZeroCommitment = zero
    Tokens = {eth}
    InitialCommitments <- MCCommitments
    InitialRequired = 2
    InitialBalances <- MCBalances
    DepositAmounts = {}
    MaxBalance = 2
PROPERTIES
    NeverStuckExecuting
CHECK_DEADLOCK FALSE
