SPECIFICATION Spec
CONSTANTS
    Service = {a, m}
    Labelled = {a, m}
    Ineligible = {}
    Drains = {a}
    Mounted = {a}
    Migrating = {m}
    MaxEvent = 2
    MayRevert = FALSE
    FirstRun = FALSE
INVARIANTS MigrationAlwaysFirst
CHECK_DEADLOCK FALSE
