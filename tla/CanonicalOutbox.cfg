CONSTANTS
    Rows = {r1, r2}
    Workers = {w1, w2}
    NoOne = NoOne
    Departed = Departed
    NoRow = NoRow
    BatchSize = 2
    MaxAttempts = 2
    MaxFaults = 1
SPECIFICATION FairSpec
INVARIANTS
    OwnerIsCurrent
    VerdictThreshold
PROPERTIES
    EventuallySettled
    DeliversEvents
