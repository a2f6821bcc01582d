SPECIFICATION FairSpec
CONSTANTS
    s1 = s1
    g1 = g1
    SSE <- MCSSE
    GRPC <- MCGRPC
    Nothing = Nothing
    Loads <- MCStopLoads
    FetchSize = 2
    FlushAt = 2
    Chunk = 1
    EvictLag = 0
    SubBuffer = 1
    MaxSurfaced = 0
PROPERTIES StopsEventually
CHECK_DEADLOCK FALSE
