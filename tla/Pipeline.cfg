SPECIFICATION FairSpec
CONSTANT MaxPlanned = 5
INVARIANT PlannedOnPublished
PROPERTIES ImplementsSerial ParkedResolves
CHECK_DEADLOCK FALSE
