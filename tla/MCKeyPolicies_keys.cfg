CONSTANTS
    j1 = j1
    j2 = j2
    k1 = k1
    NoWorker = NoWorker
    NoKey = NoKey
    EmptyKey = EmptyKey
    Jobs = {j1, j2}
    Workers = {w1, w2}
    KeyChoices <- SomeKeys
    Policies = {"singleton", "stately", "exclusive", "short", "standard", "key_strict_fifo"}
    BatchSize = 2
    Distributed = FALSE
    Ops = {"cancel", "resume", "retry", "restore", "failQueued", "delete"}
    Slots <- SomeRows
    Times = {0, 1}
    Limits = {1}
    MaxChanges = 2
    MaxPage = 4
    Instances = {"a", "b"}
    Delays = {1, 2}
    Spans = {1, 2}
    MaxNow = 2
    MaxTimers = 3
    MaxCalls = 2
    MaxStarts = 3
    Overlap = FALSE
    MaxLives = 5
    MaxTick = 5
    MaxFaults = 1
    QuietAfter = 1
    KeptPerName = 2
    Kept = 3
    SamePids = {TRUE, FALSE}
    NoLife = NoLife
SPECIFICATION AllSpec
SYMMETRY AllSymmetric
CHECK_DEADLOCK FALSE
INVARIANTS
    KeysServed
    FifoStart
    WalkComplete
    ClockSound
    CrashRestartsExact
PROPERTIES
    ClaimsJustified
