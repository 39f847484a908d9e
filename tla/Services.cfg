SPECIFICATION Spec
CONSTANTS
    Threads = {"t1"}
    Principals <- MCPrincipals
    Requests = 2
    Window = 2
    Burst = 5
    MaxPrincipals = 1
    Costs <- MCCosts
    MaxTime = 4
    Generations <- MCGenerations
    NoGeneration = "none"
    Chunks = {c1, c2}
    Spaces = {"e1", "e2"}
    SpaceOf <- MCSpaceOf
    VersionOf <- MCVersionOf
    Callers = {w1, w2}
    MaxRevision = 2
    Publications = {"p1", "p2"}
    Layouts = {"a1", "a2"}
    LayoutsOf <- MCLayoutsOf
    Browsers = {"r1"}
    Submissions = {"s1", "s2"}
    Slots = 1
    MaxComputed = 2
    MaxRestarts = 1
    Clients = {"r1", "r2"}
    Buffers = 1
    Maximum = 3
    Pieces = {1, 2}
    Arrivals = {"q1", "q2", "q3"}
    Resets = {"o1", "o2"}
    MaxAccepted = 2
    Projects = {"k1", "k2"}
    Names = {"pump", "valve"}
    OpIds = {"o1", "o2", "o3"}
    FirstOp = "o0"
    Jobs = {"j1", "j2"}
    MaxCrashes = 1
    TBoxes = {1, 2, 3}
    NoTBox = 0
    Definitions = {"d1", "d2"}
    NoDefinition = "none"
    Files = {"f1"}
    Loads = {"l1", "l2", "l3", "l4", "l5", "l6"}
    Contents = {"s1", "s2", "s3", "s4"}
    NoContent = "nothing"
    LoadOf <- MCLoadOf
    ArtifactsOf <- MCArtifactsOf
    PiecesOf <- MCPiecesOf
    Loaders = {m1, m2}
    Answers <- MCAnswers
    ChunkStart = 2
    ChunkLength = 3
    InstanceTypes = {"Pump", "Valve"}
    Declares <- MCDeclares
    Relates <- MCRelates
    MandatoryOf = {"flow"}
    SingleValued = {"power", "rate"}
    Conditional <- MCConditional
    Textual = {"name"}
    Normal <- MCNormal
    NoValue = "none"
    WordAt <- MCWordAt
    PieceAt <- MCPieceAt
    MaxOf <- MCMaxOf
    Uploads = {"u1", "u2"}
    Uris = {"a", "b", "c"}
    Texts = {"x", "y"}
    UriOf <- MCUriOf
    TextOf <- MCTextOf
    VisibleTo <- MCGroupsOf
    SharedWith <- MCGroupsOf
    Resembles <- MCResembles
    StartsWith <- MCStarts
    GroupsBefore = {"g"}
    NoText = "none"
    Nobody = Nobody
    MatchLimit = 1
    MaxAttempts = 2
    MaxGrants = 2
    MaxDeleted = 1
    MaxReleases = 1
CONSTRAINTS
    OneSuccessor
    FewMoves
SYMMETRY MCSymmetry
INVARIANTS
    GrantsWithinBudget
    IndexIsCorpus
    SlotsAccounted
    BuffersAccounted
    NoWorkAcrossReset
    ArchivedIsClosed
    CatalogAgrees
    OneSnapshotServed
    AcceptedIsKept
PROPERTY NoUnreviewedTwin
CHECK_DEADLOCK FALSE
