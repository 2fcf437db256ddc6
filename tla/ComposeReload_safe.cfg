SPECIFICATION FairSpec
CONSTANTS
    Service = {a, m}
    Labelled = {a, m}
    Ineligible = {}
    Drains = {a}
    Mounted = {a}
    Migrating = {m}
    MaxEvent = 3
    MayRevert = FALSE
    FirstRun = FALSE
INVARIANTS TypeOK NoSilentDrift MigrationFirst
PROPERTIES OldServesUntilNewHealthy HandoffsEnd
CHECK_DEADLOCK FALSE
