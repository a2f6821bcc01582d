SPECIFICATION FairSpec
CONSTANTS
    Topics <- MCTopics
    CloseLag = 1
    EvictLag = 2
    RegressLag = 4
    Now = 20
    Warmup = 1
    Metrics <- MCMetrics
    FetchSize = 2
    MaxCrashes = 1
    MaxFaults = 1
INVARIANTS TypeOK RefoldedOnlyAfterJump RowsHoldFolds CrashLosesNoAnomaly
PROPERTIES RowsOnlyGrow LastMinuteAnalysed
CHECK_DEADLOCK FALSE
