SPECIFICATION FairSpec
CONSTANTS
    Root = 1
    NoParent = NoParent
    RecordsPerCluster = 2
    ChunkRecords = 4
    IoRecords = 2
    MaxIoRecords = 4
    MaxMergedRecords = 12
    MergeThreshold = 2
    Volumes <- MCVolumes
    Window = 2
    PipelineDepth = 1
    NumWorkers = 2
    AbortAfter = 2
    MaxLost = 2
CHECK_DEADLOCK FALSE
INVARIANTS EachReadOnce ModesAgree
PROPERTIES ReadersEnd
