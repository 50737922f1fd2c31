SPECIFICATION Spec
CONSTANTS
    bad = bad
    suspect = suspect
    Flows = {bad, suspect}
    Blocked <- TwoVersions
    MaxRecords = 2
    MaxAlerts = 3
    MaxCrashes = 1
INVARIANTS
    StoredWasProduced
    BlockedIsAlerted
CHECK_DEADLOCK FALSE
