CONSTANTS
    b1 = b1
    d1 = d1
    b2 = b2
    t1 = t1
    t2 = t2
    NoRunner = NoRunner
    NoCommand = NoCommand
    Commands = {b1, d1, b2}
    Builds = {b1, b2}
    TableOf <- Placed
    Number <- Ordered
    Runners = {r1, r2}
    MaxFaults = 2
    JobTables = {"job_common", "jq"}
    Shared = "job_common"
    Unreadable <- SourceSets
    Budget = 0
    MaxDead <- DeadRows
    MaxHolders = 1
    MaxStops = 1
SPECIFICATION AllSpec
CHECK_DEADLOCK FALSE
INVARIANTS
    IndexesSound
PROPERTIES
    ClaimsRespected
    EveryCommandCompletes
    HoldersReported
