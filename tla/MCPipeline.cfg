CONSTANTS
    s1 = s1
    s2 = s2
    Scopes = {s1}
    MAX_ATTEMPTS = 2
    Backoff = 1
    Quiet = 1
    FLAP_NOTICE_AFTER = 2
    FlapWindow = 4
    Outcomes = {"ok", "lost", "late"}
    Lag = 0
    Ahead = 0
    MaxTime = 5
    MaxCrashes = 1
SPECIFICATION FairSpec
INVARIANT TypeOK
INVARIANT WaitingNoticeIsCurrent
INVARIANT OpenTransitionIsCurrent
INVARIANT BatchIsPending
INVARIANT EventsLostOnlyByCrashes
PROPERTY SettledRowsStay
PROPERTY AdminHearsTheTruth
PROPERTY HoldIsKept
PROPERTY GroupHearsInPairs
PROPERTY ResendsOnlyUnrecorded
PROPERTY EveryMessageSettles
