SPECIFICATION Spec
CONSTANTS
    o1 = o1
    o2 = o2
    n1 = n1
    Orb <- TwoOrbs
    End <- TwoConnections
    Peer <- TwoConnectionsPeer
    Owner <- TwoConnectionsOwner
    Local <- TwoConnectionsLocal
    Remote <- TwoConnectionsRemote
    Bound <- Named
    MaxId = 1
    InUse = FALSE
INVARIANTS TypeOK TakenForItself
PROPERTIES ReferencesDenote
CHECK_DEADLOCK FALSE
