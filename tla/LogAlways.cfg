SPECIFICATION Spec
CONSTANTS
    w1 = w1
    w2 = w2
    Syncer = Syncer
    Nobody = Nobody
    Writers <- TwoWriters
    NumShards = 2
    ShardsOf <- ShardsOfRec
    Batch <- BatchRec
    Policy = "always"
    MaxRecs = 3
    BufCap = 2
    Faults = TRUE
    RenameVolatile = FALSE
SYMMETRY Sym
INVARIANTS TypeOK  NothingForgotten BatchesWhole CrashLeavesPrefix 
