CONSTANTS
    Byte <- AllBytes
    Digits <- BaseFour
    MaxBulkLength = 4
    MaxArrayLength = 5
    ReaderBufSize = 6
    MaxInt64 = 31
    Absent = Absent
    Ms = 2
    Sec = 4
    Values <- AllValues
    TimedValue <- Payload
    Suffix <- Payload
    Counts <- NearEdges
    Start = 3
    MaxNow = 5
    MaxRecords = 2
SPECIFICATION Spec
INVARIANT Restartable
CHECK_DEADLOCK FALSE
