CONSTANTS
    Renderers = {twoD, threeD}
    MaxRequests = 3
SPECIFICATION LayoutFairSpec
INVARIANTS
    Awaited
    
PROPERTIES
    LoadingEnds
CHECK_DEADLOCK FALSE
