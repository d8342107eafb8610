CONSTANTS
    Node <- Three
    Order <- ThreeOrder
    Quorum <- ThreeQuorum
    Budget = 9
    Delivered <- AllTags
    MaxView = 1
    MaxSlot = 4
    MaxApply = 0
    MaxRestart = 0
SPECIFICATION Spec
CHECK_DEADLOCK FALSE
INVARIANT Agreement
