SPECIFICATION Spec
CONSTANTS
    c0 = c0
    c1 = c1
    c2 = c2
    c3 = c3
    c4 = c4
    Commitments <- MCCommitments
    ZeroCommitment = c0
    NoCall = NoCall
    Calls <- MCCalls
    InitialArray <- MCInitialArray
    InitialRequired = 2
INVARIANTS
    TypeOK
    LoopsRevertAsSets
PROPERTY
    LoopsComputeSets
