CONSTANTS
    Rules = {"u", "n"}
    Existing = {"u"}
    Windowed = {"u"}
    ConditionOf <- MCConditionOf
    ChannelsOf <- MCChannelsOf
    Thresholds = {1, 2}
    NoThreshold = 99
    Scheduled = TRUE
    Loads = {"calm", "busy"}
    WindowAt <- MCWindowAt
    StatsAt <- MCStatsAt
    ErrorsAt <- MCErrorsAt
    Spans = {"slow", "fine"}
    LatencyOf <- MCLatencyOf
    MinObservations = 3
    MinErrorTotal = 3
    Tasks = {"t1", "t2"}
    MaxFaults = 2
    MaxChanges = 1
SPECIFICATION Spec
INVARIANTS OneNoticePerTask SilenceIsExplained
PROPERTIES AnomalyIsNotified
