SPECIFICATION RetrainFairSpec
CONSTANTS
    note = note
    eager = eager
    drift = drift
    shift = shift
    ghost = ghost
    session = session
    category = category
    registry = registry
    fraud = fraud
    other = other
    watch = watch
    dry = dry
    bus = bus
    reconciler = reconciler
    alice = alice
    bob = bob
    Rows = {note, eager, drift, shift}
    Ghosts = {ghost}
    Action <- MCAction
    Tier <- MCTier
    Scope <- MCScope
    NoEntity = NoEntity
    Engines = {bus, reconciler}
    Requests = {alice, bob}
    None = None
    MaxRetries = 1
    Target <- MCTarget
    Trainable = {fraud}
    Strays <- MCStrays
    Workers = {watch, dry}
    Fleets <- MCFleets
    DryRuns = {dry}
    MaxCrashes = 1
ACTION_CONSTRAINT Scenes
INVARIANTS
    TypeOK
    EffectsAuthorised
    StatusMatchesAudit
    AttemptsAccounted
    OneExecutionAtATime
    OneOpenPerScope
    NoUngovernedTraining
    LoopClosed
    TrainsOnce
PROPERTIES
    ImplementsLifecycle
    ApprovedSettles
    EveryRequestSettles
