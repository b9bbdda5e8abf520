SPECIFICATION Spec
CONSTANTS
    k1 = k1
    k2 = k2
    c1 = c1
    c2 = c2
    Absent = Absent
    NoClient = NoClient
    Err = Err
    Clients <- Two
    Keys <- OneKey
    Vals <- Numbers
    Res = 1
    MaxTime = 3
    NumShards = 1
    ShardOf <- OneShard
    Durable = FALSE
    Requests <- RmwRequests
    Size <- SizeOf
    Compute <- ComputeVal
INVARIANT RmwAtomic
