SPECIFICATION FairSpec
CONSTANTS
    Root = 1
    NoParent = NoParent
    RecordsPerCluster = 2
    ChunkRecords = 4
    IoRecords = 2
    MaxIoRecords = 8
    MaxMergedRecords = 12
    MergeThreshold = 2
    Concurrency = 3
    Volumes <- MCVolumes
    MaxGone = 1
CHECK_DEADLOCK FALSE
INVARIANTS ReadsAccountedFor OkMeansAll PlansAreSound IndexIsTheVolume ChildEntriesNameTheirLink RowsReachTheTop FallbackNamesSameFiles
PROPERTIES ReadEnds
