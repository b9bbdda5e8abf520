SPECIFICATION FairSpec
CONSTANTS
    k1 = k1
    k2 = k2
    k3 = k3
    k4 = k4
    Keys <- FourKeys
    NumShards = 3
    ShardOf <- Spread
    ExpireSample = 2
    MaxRounds = 2
INVARIANTS TypeOK
PROPERTIES CycleEnds ReleasedIfReached
