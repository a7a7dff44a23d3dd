SPECIFICATION FairSpec
CONSTANTS
    s1 = s1
    s2 = s2
    alice = alice
    bob = bob
    zero = zero
    base = base
    horizen = horizen
    Submissions = {s1, s2}
    Logins = {l1}
    Commitments = {alice, bob, zero}
    ZeroCommitment = zero
    KnownUsers = {alice}
    Chains = {base, horizen}
    Orders <- MCOrders
    MaxFaults = 1
    None = None
INVARIANTS
    AccountsAreDeployed
    QuorumIsReachable
    BatchIsAllOrNothing
    RecordedOnce
PROPERTIES
    EveryOrderFulfilled
CHECK_DEADLOCK FALSE
