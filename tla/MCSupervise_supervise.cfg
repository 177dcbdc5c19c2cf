CONSTANTS
    a = a
    b = b
    q1 = q1
    q2 = q2
    j1 = j1
    j2 = j2
    j3 = j3
    Instances = {a, b}
    Queues = {q1, q2}
    Jobs = {j1, j2, j3}
    QueueOf <- MCQueueOf
    SweepOf <- MCSweepOf
    Rebuilders = {a, b}
    Wrapped = {a}
    ExpiryBatch = 1
    Setups <- AllSetups
    Due = Due
    None = None
SPECIFICATION FairSpec
CHECK_DEADLOCK FALSE
INVARIANTS
    SweepsSound
PROPERTIES
    UpkeepDone
