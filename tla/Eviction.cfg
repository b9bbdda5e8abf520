SPECIFICATION Spec
SYMMETRY Symmetry
CONSTANTS
    k1 = k1
    k2 = k2
    k3 = k3
    k4 = k4
    c1 = c1
    c2 = c2
    Absent = Absent
    Nobody = Nobody
    Keys <- FourKeys
    Clients <- Two
    NumShards = 2
    ShardOf <- Halves
    EntrySize <- Ones
    MaxMemory = 1
    Policies <- AllPolicies
    Journals <- Both
    EvictSample = 2
    Commands <- Writes
INVARIANTS TypeOK 
 
