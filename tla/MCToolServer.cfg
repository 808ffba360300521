CONSTANTS
    f1 = f1
    f2 = f2
    Files = {f1, f2}
    NoFile = NoFile
    NoId = NoId
    MaxCalls = 3
    MaxPipe = 2
    MaxChatter = 2
SPECIFICATION Spec
INVARIANTS
    AnswerIsOwn
    SpoilersAreSpent
PROPERTIES
    CallEnds
CHECK_DEADLOCK FALSE
