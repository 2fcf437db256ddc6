SPECIFICATION Spec
CONSTANTS
    env = env
    pem = pem
    stack = stack
    proxy = proxy
    roster = roster
    Template = {env, pem}
    Cert = {pem}
    Consumer = {stack, proxy, roster}
    Uses <- MCUses
    Requiring = {roster}
    Life = 10
    Percent = 33
    MayCut = FALSE
    MaxOutage = 2
    MaxTime = 11
    MaxRotate = 1
    MaxDeploy = 1
    MaxBoot = 1
    MaxFail = 0
INVARIANTS TypeOK NeverEmpty Delivered NeverExpired
CHECK_DEADLOCK FALSE
