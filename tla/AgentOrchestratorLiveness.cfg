CONSTANTS
    a1 = a1
    Agents = {a1}
    Owner <- OneAgent
    NumTasks = 2
    Procs = {p1}
    Runs = {x1}
    NoProc = NoProc
    NoLease = NoLease
    Orphan = Orphan
    Limit = 1
    MaxActs = 2
    MaxFaults = 0
SPECIFICATION FairSpec
PROPERTIES
    TaskFinishes
