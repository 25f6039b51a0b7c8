SPECIFICATION Spec
CONSTANTS
    InitialSize = 64
    Absent = Absent
    Request <- SomeRequests
    Sender <- Senders
    Minor <- AllMinors
    Arguments <- SomeArguments
    Result <- SomeResult
    PeerContexts <- SomeContexts
    InPieces <- AnyPieces
INVARIANTS RequestArrives ReplyArrives SizeTellsLength CutNotMisdirected
CHECK_DEADLOCK FALSE
