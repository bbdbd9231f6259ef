CONSTANTS
    Orgs = {o1}
    FirstOrg = o1
    NoOrg = NoOrg
    GraphShown = TRUE
    MaxEvents = 2
    Slots = 2
    MaxActs = 0
    MaxFaults = 0
SPECIFICATION Spec
INVARIANTS
    NeverMixed
CHECK_DEADLOCK FALSE
