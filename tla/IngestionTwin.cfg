SPECIFICATION Spec
CONSTANTS
    w1 = w1
    w2 = w2
    j1 = j1
    j2 = j2
    j3 = j3
    j4 = j4
    j5 = j5
    s1 = s1
    s2 = s2
    s3 = s3
    c1 = c1
    c2 = c2
    c3 = c3
    Jobs <- SplitJobs
    Workers <- MCWorkers
    MaxAttempts = 2
    NoJob = NoJob
    Snapshots <- SplitSnapshots
    NoSnapshot = NoSnapshot
    Chunks <- SplitChunks
    VersionOf <- MCVersionOf
    ChunksOf <- TwinChunksOf
    Kind <- SplitKind
    Target <- TwinTarget
    PlanTitle <- SplitTitle
    PlanPolicy <- SplitPolicy
    NoTitle = ""
    NoPolicy <- MCNoPolicy
    MaxGeneration = 1
SYMMETRY WorkerSymmetry
PROPERTIES
    StagingKeepsPublished
CHECK_DEADLOCK FALSE
