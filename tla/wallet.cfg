SPECIFICATION Spec
CONSTANTS
    c0 = c0
    c1 = c1
    c2 = c2
    c3 = c3
    eth = eth
    Commitments <- MCCommitments
    ZeroCommitment = c0
    Nonces <- MCNonces
    Tokens <- MCTokens
    Calls <- MCCalls
    InitialCommitments <- MCInitialCommitments
    InitialRequired = 2
    InitialBalances <- MCInitialBalances
    Statements <- MCStatements
    ProofLists <- MCProofLists
    DepositAmounts <- MCDepositAmounts
    MaxBalance = 2
INVARIANTS
    TypeOK
    NeverLockedOut
    QuorumApproved
    NonceExecutesOnce
    NullifiersMatchExecutions
PROPERTY
    OnlyQuorumChangesWallet
CHECK_DEADLOCK FALSE
