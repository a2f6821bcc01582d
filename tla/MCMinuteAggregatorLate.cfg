SPECIFICATION Spec
CONSTANTS
    Topics <- LateTopics
    CloseLag = 1
    EvictLag = 2
    RegressLag = 6
    Now = 20
    Warmup = 2
    Metrics <- MCMetrics
    FetchSize = 2
    MaxCrashes = 0
    MaxFaults = 0
PROPERTIES RowsOnlyGrow
CHECK_DEADLOCK FALSE
