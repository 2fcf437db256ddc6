SPECIFICATION Spec
CONSTANTS
    dc = dc
    vault = vault
    prod = prod
    Workflow = {build, tests}
    Order <- MCOrder
    Foundation = {dc, vault}
    MaxCommit = 2
    ControlOf <- MCControlOf
    MaxRerun = 0
    MaxForeign = 0
    MaxDispatch = 1
    MaxNightly = 1
    MaxFail = 1
 
PROPERTIES RunEnds
CHECK_DEADLOCK FALSE
