SPECIFICATION FairSpec
CONSTANTS
    Call <- Callbacks
    NoCall = NoCall
    Object <- Root
    NameService = "NameService"
    Authenticating = {"responder"}
    IdModulus = 4
    Framed = FALSE
INVARIANTS TypeOK HandlerKept Correlation AnswerAgrees StartInOrder
PROPERTY EveryCallSettles
CHECK_DEADLOCK FALSE
