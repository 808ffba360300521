SPECIFICATION FairSpec
CHECK_DEADLOCK FALSE
CONSTANTS
    NodeCount = 8
    Workflows <- MCWorkflows
    MaxIterations = 2
    NoLoop = NoLoop
    NoNode = NoNode
INVARIANTS
    CascadeIsComplete
    BudgetBoundsBody
PROPERTIES
    KeepsContract
    DeadlineEndsLoop
    EveryRunEnds
