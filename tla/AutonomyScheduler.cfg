CONSTANTS
    Procs = {p1, p2}
    Schedules = {s1}
    Repeats = TRUE
    MaxTicks = 1
    MaxActs = 2
    MaxFaults = 1
SPECIFICATION FairSpec
PROPERTIES
    OncePerPeriod
    ApprovalIsCurrent
    UserDecides
    OnlyFaultsLeaveDue
