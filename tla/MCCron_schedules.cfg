CONSTANTS
    Instances = {i1, i2}
    Never = Never
    Window = 5
    Interval = 3
    Beat = 1
    Delay = 1
    Schedules <- Mixed
    CreateTimes = {0}
    MaxTime = 12
    MaxFaults = 1
    Tasks = {"parse", "rrule", "cron"}
    MaxInstant = 12
    Floor = 2
    Growth = 2
    Generated = 1
    LookBack = 3
    ZoneChanges <- SomeZones
    Lines <- SomeLines
    MaxLines = 3
    None = None
    Config = {"partitions", "rows", "cache"}
    DayLength = 2
    RetentionDays = 1
    Lag = 1
    BatchSize = 1
    CacheTTL = 2
    ForceTTL = 0
    PassTime = 1
    Limits = {1}
    Widths = {1, 2, 3}
    Load <- UpAndDown
    LastMoment = 5
    MaxSnapshots = 3
    MaxCount = 1
SPECIFICATION AllSpec
SYMMETRY InstancesSymmetric
CHECK_DEADLOCK FALSE
INVARIANTS
    FilesWhatIsDue
    ReadingsAgree
    HistorySound
