CONSTANTS
    Protocols = {"chat", "responses", "anthropic"}
    Requests <- MCRequests
    Ids = {1, 2}
    MaxPieces = 3
    WholeArgs = 2
    MaxInFlight = 4
SPECIFICATION StreamSpec
INVARIANTS
    NothingIsDropped
    OnlyCompleteReplies
    ReplyIsWhatWasSaid
    OnlyCutsAlter
    PageFollowsReply
CHECK_DEADLOCK FALSE
