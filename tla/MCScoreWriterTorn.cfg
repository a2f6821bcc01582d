SPECIFICATION Spec
CONSTANTS
    orders = orders
    clicks = clicks
    l0 = l0
    l1 = l1
    Partitions = {orders}
    Log <- OneLog
    Loops = {l0, l1}
    NoLoop = NoLoop
    Slack = 4
    GateSize = 3
    MaxRestarts = 1
    MaxFaults = 0
INVARIANT
    EachCountsOnce
