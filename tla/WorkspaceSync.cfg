CONSTANTS
    Orgs = {o1, o2}
    FirstOrg = o1
    NoOrg = NoOrg
    GraphShown = TRUE
    MaxEvents = 1
    Slots = 2
    MaxActs = 1
    MaxFaults = 1
SPECIFICATION FairSpec
INVARIANTS
    ConnectedIsAligned
    GuardIsHeld
PROPERTIES
    NeverBackwards
    EventsAreShown
CHECK_DEADLOCK FALSE
