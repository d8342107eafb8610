SPECIFICATION Spec
CONSTANTS
    MaxCounter = 3
    Genesis = 1
    MaxLife = 4
    MaxWork = 2
INVARIANTS TypeOK VouchedIsDrained LatchedIdentityDies
CHECK_DEADLOCK FALSE
