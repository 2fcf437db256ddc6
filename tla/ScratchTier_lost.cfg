SPECIFICATION Spec
CONSTANTS
    Path = {p, q}
    Restorer = {r, s}
    High = 1
    Low = 0
    Ttl = TRUE
    MaxWrite = 3
    MaxKill = 1
    MaxSweep = 2
    Races = {}
INVARIANTS TypeOK NothingLost
CHECK_DEADLOCK FALSE
