SPECIFICATION Spec
CONSTANTS
    Old = 2
    MaxRuns = 4
    KeepRuns = 1
    KeepEvents = 2
    MaxEvents = 4
INVARIANTS EventsAreLatest KeptAreNewest RecoveryIsComplete TasksAgree
