SPECIFICATION Spec
CONSTANTS
    c1 = c1
    c2 = c2
    k1 = k1
    k2 = k2
    l1 = l1
    Connection <- TwoConnections
    Stub <- ThreeStubs
    Listener <- OneListener
    MaxInstalls = 3
INVARIANTS AllTold CalledOnce ListedNotClosed
PROPERTY FailedLeaves
CHECK_DEADLOCK FALSE
