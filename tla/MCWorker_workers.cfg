CONSTANTS
    j1 = j1
    j2 = j2
    g1 = g1
    w1 = w1
    w2 = w2
    NoGroup = NoGroup
    Other = Other
    Nobody = Nobody
    Jobs = {j1, j2}
    Workers = {w1, w2}
    GroupOf <- PairInGroup
    LocalLimit = 1
    BatchSize = 2
    Setups <- AllSetups
    FailWipErrors = FALSE
SPECIFICATION FairSpec
CHECK_DEADLOCK FALSE
INVARIANTS
    LocalGroupSlots
    NoSleepOnNotice
    WritesSettled
PROPERTIES
    StopEnds
