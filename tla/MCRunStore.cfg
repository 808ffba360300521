SPECIFICATION FairSpec
CONSTANT Bound <- MCBound
INVARIANTS
    LogIsFaithful
    StatusIsTheLog
    NothingLooksAlive
PROPERTIES
    HistoryIsFinal
    LossIsShown
CHECK_DEADLOCK FALSE
