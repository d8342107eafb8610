CONSTANTS
    a = a
    b = b
    c = c
    d = d
    e = e
    MAX_MEMBERS = 5
    MaxEra = 6
    Node <- ABCDE
    InitOrder <- OrderABC
    Changes <- JoinerChanges
    MaxSlot = 9
    MaxClient = 0
    Budget = 10
    MaxServe = 5
SPECIFICATION JoinerSpec
INVARIANTS ElectedKnowsCommitted
CHECK_DEADLOCK FALSE
