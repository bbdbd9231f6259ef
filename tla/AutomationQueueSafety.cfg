CONSTANTS
    NumJobs = 1
    Procs = {p1, p2}
    Runs = {x1, x2}
    NoProc = NoProc
    Limit = 1
    MaxVersion = 1
    MaxActs = 1
    MaxFaults = 1
SPECIFICATION Spec
SYMMETRY Symmetry
INVARIANTS
    CounterMatches
    ExclusiveExecution
PROPERTIES
    CanceledStays
