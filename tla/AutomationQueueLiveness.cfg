CONSTANTS
    NumJobs = 2
    Procs = {p1}
    Runs = {x1}
    NoProc = NoProc
    Limit = 1
    MaxVersion = 0
    MaxActs = 1
    MaxFaults = 1
SPECIFICATION FairSpec
INVARIANTS
    Drained
PROPERTIES
    DueIsTaken
