SPECIFICATION Spec
CONSTANTS
    dc = dc
    vault = vault
    prod = prod
    Workflow = {build, tests}
    Order <- MCOrder
    Foundation = {dc, vault}
    MaxCommit = 2
    ControlOf <- MCControlOf
    MaxRerun = 1
    MaxForeign = 1
    MaxDispatch = 0
    MaxNightly = 0
    MaxFail = 1
INVARIANTS TypeOK ExactlyOnce
PROPERTIES NoDowngrade DependenciesFirst FinishedMeansConverged
CHECK_DEADLOCK FALSE
