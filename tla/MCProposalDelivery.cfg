SPECIFICATION FairSpec
CONSTANTS
    first = first
    second = second
    nudge = nudge
    order = order
    customer = customer
    streamer = streamer
    churner = churner
    None = None
    Triggers = {first, second, nudge}
    Key <- MCKey
    Scope <- MCScope
    AutoKeys = {nudge}
    Producers = {streamer, churner}
    Maker <- MCMaker
    BatchProducers = {churner}
    HotWindow = {streamer}
    SubBuffer = 1
    PredictionBatch = 1
    MaxFaults = 1
ACTION_CONSTRAINTS
    NobodyDecidesNudge
    FirstComesFirst
INVARIANTS
    TypeOK
    CursorCovers
    ArchivedIsDone
PROPERTY
    EveryTriggerConsidered
