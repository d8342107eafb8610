CONSTANTS
    g = g
    x = x
    y = y
    Entry = {x, y}
    Genesis = g
    Width <- TwoWidths
    Chosen <- ShortThenLong
    MaxSlot = 3
    MaxIdentity = 3
    MaxSeq = 4
SPECIFICATION Spec
CHECK_DEADLOCK FALSE
INVARIANTS CommittedIsChosen
