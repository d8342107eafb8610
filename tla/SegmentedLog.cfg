SPECIFICATION Spec
CONSTANTS
    Op = {1, 2}
    MaxSlot = 6
    Capacity = 2
    Offer <- Offers
INVARIANTS TypeOK CopiesTold
PROPERTY ImplementsJournal
