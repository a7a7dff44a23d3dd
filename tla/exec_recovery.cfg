SPECIFICATION FairSpec
CONSTANTS
    t1 = t1
    t2 = t2
    s1 = s1
    s2 = s2
    s3 = s3
    h1 = h1
    h2 = h2
    c1 = c1
    c2 = c2
    zero = zero
    eth = eth
    TxIds = {t1, t2}
    Signers = {s1}
    Creator <- MCCreator
    InitialThreshold = 1
    Hashes = {h1, h2}
    NoHash = NoHash
    Callers = {c1}
    CallOf <- TwoPayments
    SlowCalls = FALSE
    MaxCrashes = 1
    NoTx = NoTx
    Commitments <- MCCommitments
    ZeroCommitment = zero
    Tokens = {eth}
    InitialCommitments = {s1}
    InitialRequired = 1
    InitialBalances <- MCBalances
    DepositAmounts = {1}
    MaxBalance = 1
PROPERTIES
    NeverStuckExecuting
CHECK_DEADLOCK FALSE
