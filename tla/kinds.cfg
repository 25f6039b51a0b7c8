SPECIFICATION Spec
CONSTANTS
    Call <- Kinds
    NoCall = NoCall
    Object <- Keys
    NameService = "NameService"
    Authenticating = {"initiator", "responder"}
    IdModulus = 16
    Framed = FALSE
INVARIANTS Correlation AnswerAgrees
PROPERTY ImplementsRemoteCalls
CHECK_DEADLOCK FALSE
