CONSTANTS
    Node <- Two
    Order <- TwoOrder
    Quorum <- TwoQuorum
    Budget = 9
    Delivered <- NoTransfer
    MaxView = 0
    MaxSlot = 4
    MaxApply = 3
    MaxRestart = 0
SPECIFICATION FairSpec
CHECK_DEADLOCK FALSE
PROPERTY ProposalCommits
INVARIANT ProgressOK
