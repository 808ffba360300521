CONSTANTS
    n1 = n1
    n2 = n2
    c1 = c1
    c2 = c2
    Nodes = {n1, n2}
    Calls = {c1, c2}
    NodeOfCall <- MCNodeOfCall
    Targets <- MCTargets
    NoTarget = NoTarget
    NoMode = NoMode
    NoAnswer = NoAnswer
    MaxPrompts = 2
    Repeating = {c1}
    MaxSwitches = 1
SPECIFICATION Spec
INVARIANTS
    PendingIsAwaited
    GrantsFollowSwitch
PROPERTIES
    WidensOnlyAcrossSwitch
    PromptSettles
CHECK_DEADLOCK FALSE
