SPECIFICATION Spec
CONSTANTS
    BufferSize = 1
    CompactionTrigger = 2
    StopWritesTrigger = 3
    MaxWrites = 4
    MaxCrashes = 2
    MaxReboots = 1
    MaxFailures = 1
INVARIANTS TypeOK SettledSurvive
PROPERTIES KeepsPromise WritesGoOn
CHECK_DEADLOCK FALSE
