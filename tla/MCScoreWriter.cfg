SPECIFICATION FairSpec
CONSTANTS
    orders = orders
    clicks = clicks
    l0 = l0
    l1 = l1
    Partitions = {orders, clicks}
    Log <- MCLog
    Loops = {l0, l1}
    NoLoop = NoLoop
    Slack = 4
    GateSize = 3
    MaxRestarts = 2
    MaxFaults = 1
INVARIANTS
    SkippedOnlyIfOvertaken
    CommitBehindState
    TwiceOnlyIfExposed
PROPERTY
    EveryOrderCounts
