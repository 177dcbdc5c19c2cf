CONSTANTS
    a = a
    b = b
    c = c
    Jobs = {a, b, c}
    ParentsOf <- Joined
    Navigators = {n1, n2}
    BatchSize = 1
    Ops = {"cancel", "resume", "failQueued", "completeQueued", "retry", "restore", "delete", "sweep"}
    MaxVersion = 2
    Flows <- SmallFlows
SPECIFICATION AllSpec
CHECK_DEADLOCK FALSE
INVARIANTS
    PendingCoversUnresolved
    FlowsSortable
PROPERTIES
    NoEarlyStart
    ReadyChildReleased
