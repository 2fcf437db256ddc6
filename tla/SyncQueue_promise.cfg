SPECIFICATION Spec
CONSTANTS
    MaxChange = 4
    MaxFail = 3
    MaxOther = 2
INVARIANTS TypeOK NoRequestDropped
PROPERTY KeepsPromise
CHECK_DEADLOCK FALSE
