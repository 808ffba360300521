CONSTANTS
    Configs <- MCConfigs
    Weight <- MCWeight
    Texts = {"", "long"}
    MaxTools = 2
    Usages = {1}
    MaxIterations = 3
SPECIFICATION ConversationSpec
INVARIANT NothingUnsaid
CHECK_DEADLOCK FALSE
