SPECIFICATION FairSpec
CONSTANTS
    s1 = s1
    g1 = g1
    SSE <- MCSSE
    GRPC <- MCGRPC
    Nothing = Nothing
    Loads <- MCLoads
    FetchSize = 2
    FlushAt = 2
    Chunk = 1
    EvictLag = 0
    SubBuffer = 1
    MaxSurfaced = 1
INVARIANTS TypeOK NoneIngestedLost
PROPERTIES  ClientsCatchUp
CHECK_DEADLOCK FALSE
