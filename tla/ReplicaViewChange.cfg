CONSTANTS
    Node <- Three
    Order <- ThreeOrder
    Quorum <- ThreeQuorum
    Budget = 9
    Delivered <- NoTransfer
    MaxView = 2
    MaxSlot = 3
    MaxApply = 0
    MaxRestart = 0
SPECIFICATION Spec
CHECK_DEADLOCK FALSE
INVARIANT TypeOK
INVARIANT Agreement
INVARIANT PrimaryComplete
INVARIANT ViewHistory
INVARIANT NoFault
