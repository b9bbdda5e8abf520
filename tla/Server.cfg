SPECIFICATION ServerFairSpec
CONSTANTS
    w1 = w1
    w2 = w2
    Syncer = Syncer
    Nobody = Nobody
    Writers <- TwoWriters
    NumShards = 1
    ShardsOf <- OneShard
    Batch = {}
    Policy = "everysec"
    MaxRecs = 2
    BufCap = 1
    Faults = FALSE
    RenameVolatile = FALSE
    MaxSent <- Pipelines
    WriteCap = 1
INVARIANTS ServerTypeOK QuietAtClose ShutdownKeepsAll NothingForgotten
PROPERTIES Answered ShutdownEnds EverysecReachesDisk
CHECK_DEADLOCK FALSE
