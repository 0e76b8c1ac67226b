CONSTANTS
    s1 = s1
    Scopes = {s1}
    MAX_ATTEMPTS = 2
    Backoff = 1
    Quiet = 2
    FLAP_NOTICE_AFTER = 2
    FlapWindow = 4
    Outcomes = {"ok", "lost"}
    Lag = 1
    Ahead = 1
    MaxTime = 4
    MaxCrashes = 1
    Freshness = 1
    Confirmations = 2
    Delay = 1
    Skew = 1
    Reports <- PcOnly
SPECIFICATION MonitorSpec
INVARIANT GroupBelievesTheState
PROPERTY EvidenceNeverGoesBack
