CONSTANTS
    Configs <- MCConfigs
    Weight <- MCWeight
    Texts = {"", "long"}
    MaxTools = 2
    Usages = {1}
    MaxIterations = 3
SPECIFICATION ConversationSpec
INVARIANTS
    ContextIsRecent
    CallsAreAnswered
    UntrimmedIsTold
CHECK_DEADLOCK FALSE
