SPECIFICATION FairSpec
CONSTANTS
    b0 = b0
    b1 = b1
    b2 = b2
    Bodies = {b0, b1, b2}
    NodeBody = b0
    NoConfig = NoConfig
    MaxRevisions = 3
    MaxDirectives = 1
INVARIANTS
    OnlyNewestPending
PROPERTIES
    PendingIsTaken
