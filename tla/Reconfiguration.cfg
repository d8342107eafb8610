CONSTANTS
    a = a
    b = b
    c = c
    d = d
    MAX_MEMBERS = 4
    MaxEra = 3
    Node <- ABCD
    InitOrder <- OrderABC
    Changes <- MixedChanges
    MaxSlot = 6
    MaxClient = 1
    Budget = 6
    MaxServe = 1
SPECIFICATION Spec
INVARIANTS TypeOK RecordsAgree StampsAgree LeaderReigns ElectedKnowsCommitted NoFault
CHECK_DEADLOCK FALSE
