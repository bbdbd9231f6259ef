CONSTANTS
    Components = {c1, c2}
    MaxQueue = 3
    MaxFaults = 4
    MaxCrashes = 1
SPECIFICATION FairSpec
INVARIANTS
    HeartbeatGoesOn
PROPERTIES
    DegradedIsSticky
    StoppingIsLast
    RowSettles
    ShutdownRecorded
