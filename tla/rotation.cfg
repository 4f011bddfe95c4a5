SPECIFICATION Spec
CONSTANTS
    BackupCount = 3
    MaxSegments = 8
    MaxCrashes = 2
INVARIANTS
    TypeOK
    RecentKept
CHECK_DEADLOCK FALSE
