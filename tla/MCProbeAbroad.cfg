CONSTANTS
    QUEUE_MAX_AGE = 3
    QUEUE_MAX_ENTRIES = 2
    MaxRounds = 7
    MaxCrashes = 2
SPECIFICATION ProbeSpec
PROPERTY ArrivesInOrder
PROPERTY NothingVanishes
