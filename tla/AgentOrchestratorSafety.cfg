CONSTANTS
    a1 = a1
    Agents = {a1}
    Owner <- OneAgent
    NumTasks = 2
    Procs = {p1}
    Runs = {x1, x2}
    NoProc = NoProc
    NoLease = NoLease
    Orphan = Orphan
    Limit = 1
    MaxActs = 1
    MaxFaults = 1
SPECIFICATION Spec
SYMMETRY Symmetry
INVARIANTS
    LeaseFences
    BusyIsLeased
PROPERTIES
    PauseStays
    ExecutesTasks
