SPECIFICATION Spec
CONSTANTS
    InitialSize = 64
    A = A
    B = B
    C = C
    D = D
    E = E
    G = G
    P = P
    Root = Root
    Null = Null
    Class <- Classes
    Name <- Names
    Identifier <- Identifiers
    Constructor <- Constructors
    Fields <- AllFields
    Parent <- Parents
    Here <- SenderHas
    There <- ReceiverHas
    Graph <- TreesAndGraphs
    Formals <- OneOrTwo
INVARIANTS GraphBuilt TreesCanBeBuilt
CHECK_DEADLOCK FALSE
