SPECIFICATION Spec
CONSTANTS
    w1 = w1
    w2 = w2
    j1 = j1
    j2 = j2
    j3 = j3
    j4 = j4
    j5 = j5
    s1 = s1
    s2 = s2
    s3 = s3
    c1 = c1
    c2 = c2
    c3 = c3
    Jobs <- MixJobs
    Workers <- MCWorkers
    MaxAttempts = 2
    NoJob = NoJob
    Snapshots <- MCSnapshots
    NoSnapshot = NoSnapshot
    Chunks <- MCChunks
    VersionOf <- MCVersionOf
    ChunksOf <- MCChunksOf
    Kind <- MixKind
    Target <- MixTarget
    PlanTitle <- MixTitle
    PlanPolicy <- MixPolicy
    NoTitle = ""
    NoPolicy <- MCNoPolicy
    MaxGeneration = 2
SYMMETRY WorkerSymmetry
CONSTRAINT OneScenario
INVARIANTS
    ScopeIsActive
    EffectOnce
    CitedSurvives
PROPERTIES
    ImplementsRegister
    RevisionCoversChange
CHECK_DEADLOCK FALSE
