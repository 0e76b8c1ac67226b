CONSTANTS
    s1 = s1
    s2 = s2
    p1 = p1
    p2 = p2
    Servers = {s1, s2}
    Collected = {s1}
    Rank <- RankOf
    Probes = {p1}
    KindOf <- Kinds
    Freshness = 1
    Confirmations = 1
    SilentAfter = 1
    Window = 2
    Hours = 1
    Retention = 1
    Aggregates = 2
    Payloads <- PayloadsOfHelper
    Results = {"success", "failure"}
    Networks <- GoodAndMisrouted
    Skew = 1
    MaxTime = 3
    MaxReports = 1
    MaxAborts = 1
SPECIFICATION Spec
INVARIANT HistoryIsWhatTheLoopSaw
 
INVARIANT SilenceIsNoticed
PROPERTY AggregateOutlivesEvidence
CHECK_DEADLOCK FALSE
