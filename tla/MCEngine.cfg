CONSTANTS
    Documents <- MCDocuments
    Registry <- MCRegistry
    Nodes <- MCNodes
    Ports <- MCPorts
    Denied <- MCDenied
    MaxBudget <- MCMaxBudget
    Composite = "composite"
    NoId = "none"
SPECIFICATION Spec
INVARIANTS
    AcceptedCyclesAreGated
    ExpansionEnds
    FailureIsContained
PROPERTIES
    CancelEndsRun
    KeepsContract
CHECK_DEADLOCK FALSE
