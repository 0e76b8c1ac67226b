CONSTANTS
    Freshness = 1
    Confirmations = 2
    Day = 2
    Retention = 2
    Payloads <- SomePayloads
    Delay = 1
    Skew = 1
    MaxTime = 3
    MaxRows = 4
SPECIFICATION EvidenceSpec
INVARIANT OutageIsConfirmed
PROPERTY AbroadNeverHidesOutage
PROPERTY MisroutedMovesNoState
PROPERTY SilenceIsNotFailure
PROPERTY SweepKeepsTheState
CHECK_DEADLOCK FALSE
