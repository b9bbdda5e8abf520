SPECIFICATION FairSpec
CONSTANTS
    k1 = k1
    k2 = k2
    c1 = c1
    c2 = c2
    Absent = Absent
    NoClient = NoClient
    Err = Err
    Clients <- Two
    Keys <- TwoKeys
    Vals <- Numbers
    Res = 1
    MaxTime = 2
    NumShards = 2
    ShardOf <- Spread
    Durable = FALSE
    Requests <- CacheRequests
    Size <- SizeOf
    Compute <- ComputeVal
INVARIANTS UsedExact NoDeadlock OnlyLocksBlock
PROPERTY CallsReturn
