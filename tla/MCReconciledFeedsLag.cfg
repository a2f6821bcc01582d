SPECIFICATION Spec
CONSTANTS
    Population <- MCPopulation
    Risk <- MCRisk
    Categories <- MCCategories
    Ranked <- MCRanked
    Surge <- MCSurge
    TopN = 1
    Bar = 7
    Scenes <- MCScenes
    PredictionBatch = 2
    DriftBatch = 1
    SubBuffer = 1
    MaxRows = 3
    Decided = {"churn", "forecast", "drift"}
    MaxFaults = 0
INVARIANT ScoredOncePerVersion
CHECK_DEADLOCK FALSE
