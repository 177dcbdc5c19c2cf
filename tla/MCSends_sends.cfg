CONSTANTS
    Callers = {c1, c2}
    NoCaller = NoCaller
    Requests <- Asked
    Modes <- Backends
    SingletonSeconds = 3
    Retention = 1
    RetryDelays = {1}
    ClockErrors <- SomeErrors
    FirstTime = 2
    MaxJobs = 2
    MaxTime = 3
    MaxFaults = 1
    Names = {s1}
    Expressions <- SomeExpressions
    Instances = {i1, i2}
    None = None
    RetryLimit = 1
    MaxSlot = 2
    MaxEdits = 2
    MaxSendFaults = 1
SPECIFICATION AllSpec
SYMMETRY AllSymmetric
CHECK_DEADLOCK FALSE
INVARIANTS
    SendsAgree
    ForwardingSound
PROPERTIES
    EditsSafe
