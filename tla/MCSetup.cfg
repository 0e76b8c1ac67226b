CONSTANTS
    s1 = s1
    s2 = s2
    Servers = {s1}
    Processes = {"run", "api", "cli"}
    Torn = Torn
    Absent = Absent
    Version = 2
    Statements = 2
    Keep = 1
    MaxCommands = 3
    MaxCrashes = 2
    MaxWrites = 1
SPECIFICATION Spec
INVARIANT ServesWholeSchema
INVARIANT NothingIsLost
INVARIANT CleanRestoreIsTheArchive
INVARIANT DoctorForesees
PROPERTY AnArchiveRemains
CHECK_DEADLOCK FALSE
