SPECIFICATION Spec
CONSTANTS
    InitialSize = 64
    A = A
    B = B
    C = C
    D = D
    E = E
    G = G
    P = P
    Root = Root
    Null = Null
    Class <- Classes
    Name <- Names
    Identifier <- Identifiers
    Constructor <- Constructors
    Fields <- AllFields
    Parent <- Parents
    Here <- SenderHas
    There <- ReceiverHas
    Graph <- GraphsOfOneClass
    Formals <- Two
INVARIANTS SentCanBeBuilt
CHECK_DEADLOCK FALSE
