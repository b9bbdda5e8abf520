SPECIFICATION RewriteSpec
SYMMETRY Swap
CONSTANTS
    k1 = k1
    k2 = k2
    c1 = c1
    c2 = c2
    Absent = Absent
    NoClient = NoClient
    Err = Err
    Clients <- Two
    Keys <- TwoKeys
    Vals <- Numbers
    Res = 1
    MaxTime = 3
    NumShards = 2
    ShardOf <- Spread
    Durable = TRUE
    Requests <- SmallRequests
    Size <- SizeOf
    Compute <- ComputeVal
INVARIANTS RewriteTypeOK ReplayNeverInvents PersistentKeysSurvive
PROPERTIES ImplementsAtomic RewriteLosesNothing
