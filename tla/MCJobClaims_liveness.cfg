CONSTANTS
    j1 = j1
    j2 = j2
    g1 = g1
    NoJob = NoJob
    NoGroup = NoGroup
    Jobs = {j1, j2}
    Workers = {w1, w2}
    GroupOf <- OneOfEach
    GroupLimit = 2
    RetryLimit = 1
    Ops = {"retry", "complete", "delete"}
    MaxClaims = 3
    MaxRetryLimit = 2
SPECIFICATION FairSpec
CHECK_DEADLOCK FALSE
INVARIANTS
    AttemptBudget
PROPERTIES
    EveryJobSettles
