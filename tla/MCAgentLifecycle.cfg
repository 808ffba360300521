SPECIFICATION FairSpec
CHECK_DEADLOCK FALSE
CONSTANTS
    a1 = a1
    a2 = a2
    Agents = {a1, a2}
    MaxActivations = 2
    MaxIterations = 2
    MaxToolCalls = 1
INVARIANTS
    
    ShownStateIsReal
PROPERTIES
    StopEndsRun
