CONSTANTS
    general = general
    commander = commander
    soldier = soldier
    Entities = {general, commander, soldier}
    Staff = {commander, soldier}
    Soldiers = {soldier}
    Above <- Chain
    Products = {p1}
    MaxVersions = 2
    MaxTerms = 1
SPECIFICATION Spec
INVARIANTS
    StoresAgree
    DecisionsOutlastPauses
    ShownIsInForce
    PublishedWasApproved
PROPERTIES
    HaltedPublishesNothing
