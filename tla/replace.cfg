SPECIFICATION FairSpec
CONSTANTS
    Connection = {c1, c2}
    NoConnection = NoConnection
    Host <- NameAndAddress
    Undefined = Undefined
    Key <- Keys
    NameKey <- NameServiceKey
    Lookup <- FoundOrNot
    Protocols <- ClientAndServer
    Replaces = TRUE
INVARIANT ListAgrees
PROPERTY LookupEnds
CHECK_DEADLOCK FALSE
