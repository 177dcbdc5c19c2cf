CONSTANTS
    Procs = {p1, p2}
    Me = p1
    Migrates = {p1, p2}
    SchemaVersion = 2
    Versions = {0, 1}
    Calls = {1, 2, 3}
    MaxAttempts = 2
    MaxFailures = 1
    MaxPasses = 1
    None = None
    Starts = {0, 25, 27, 30, 33, 36, 39, 42, 45}
    Backends = {TRUE, FALSE}
    Partitions = {"j1"}
    Policies = {"exclusive", "key_strict_fifo"}
    Floor = 25
    MaxRollbacks = 3
    MaxFaults = 1
    MaxCreates = 1
SPECIFICATION AllSpec
CHECK_DEADLOCK FALSE
INVARIANTS
    SaysWhatItIs
    AppliedOnce
    SchemaSound
PROPERTIES
    EveryCallAnswered
