CONSTANTS
    Instances = {i1}
    Main = main
    Dead = dead
    Names = {main, dead}
    NoQueue = NoQueue
    Exclusive = {main}
    MaxJobs = 3
    MaxChanges = 2
    MaxTogether = 4
    Refreshes = {1, 2}
SPECIFICATION FairSpec
INVARIANTS
    OnePlacePerJob
PROPERTIES
    SendLands
    CacheConverges
