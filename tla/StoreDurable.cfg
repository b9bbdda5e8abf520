SPECIFICATION Spec
CONSTANTS
    k1 = k1
    k2 = k2
    c1 = c1
    c2 = c2
    Absent = Absent
    NoClient = NoClient
    Err = Err
    Clients <- Two
    Keys <- OneKey
    Vals <- AllVals
    Res = 2
    MaxTime = 5
    NumShards = 1
    ShardOf <- OneShard
    Durable = TRUE
    Requests <- OneKeyRequests
    Size <- SizeOf
    Compute <- ComputeVal
PROPERTY ImplementsAtomic
INVARIANTS TypeOK IndexExact RmwAtomic NoTornDeadline ReplayNeverInvents PersistentKeysSurvive
