CONSTANTS
    parent = parent
    child = child
    Entities = {parent, child}
    Above <- ParentOfChild
    Keys = {k1, k2, k3}
    NoKey = NoKey
    Settable = {"PAUSED", "DEGRADED"}
    Txs = {t1, t2}
    MaxSent = 3
    MaxChanges = 1
SPECIFICATION FairSpec
INVARIANTS
    HistoryExplains
    KeysMatchActions
    ReplayIsFaithful
PROPERTIES
    Atomic
    Ends
