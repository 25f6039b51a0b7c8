SPECIFICATION Spec
CONSTANTS
    Connection = {c1, c2, c3}
    NoConnection = NoConnection
    Host <- Peers
    Undefined = Undefined
    Key <- Keys
    NameKey <- NameServiceKey
    Lookup <- Elsewhere
    Protocols <- ServerOnly
    Replaces = FALSE
SYMMETRY Alike
INVARIANTS TypeOK StubsFound RightObject
CHECK_DEADLOCK FALSE
