CONSTANTS
    FAILURES = 3
    FiveMinutes = 4
    SIX_HOURS = 5
    Outcomes = {"ok", "lost", "late"}
    MaxTime = 9
    MaxCrashes = 2
SPECIFICATION Spec
INVARIANT FileCoversTheOutage
INVARIANT LongOutageIsAnnounced
PROPERTY RecoveryFollowsAlert
