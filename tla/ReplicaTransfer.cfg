CONSTANTS
    Node <- Two
    Order <- TwoOrder
    Quorum <- TwoQuorum
    Budget = 1
    Delivered <- AllTags
    MaxView = 2
    MaxSlot = 4
    MaxApply = 0
    MaxRestart = 1
SPECIFICATION Spec
CHECK_DEADLOCK FALSE
INVARIANTS JournalMatchesProgress PrimaryComplete
PROPERTY CommittedStable
