CONSTANTS
    KEEP_RELEASES = 2
    KeepBackups = 1
    Sources = {1, 2, 3}
    SchemaOf <- OneMigrationEach
    MaxReleases = 4
    MaxInterrupts = 1
SPECIFICATION Spec
INVARIANT CurrentIsInstalled
INVARIANT RunsTheCurrent
PROPERTY MigrationIsBackedUp
CHECK_DEADLOCK FALSE
