CONSTANTS
    j1 = j1
    j2 = j2
    g1 = g1
    NoJob = NoJob
    NoGroup = NoGroup
    Jobs = {j1, j2}
    Workers = {w1, w2}
    GroupOf <- OneGroup
    GroupLimit = 1
    RetryLimit = 1
    Ops = {"cancel", "resume", "fail", "restore"}
    MaxClaims = 2
    MaxRetryLimit = 2
SPECIFICATION Spec
SYMMETRY AllSymmetric
CHECK_DEADLOCK FALSE
INVARIANTS
    FenceNamesOwnClaim
    GroupLimitHolds
PROPERTIES
    SettlesOwnClaimOnly
    ImplementsLease
