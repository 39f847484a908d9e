SPECIFICATION Spec
CONSTANTS
    read = read
    write1 = write1
    write2 = write2
    Calls <- MCCalls
    RetrySafe <- MCRetrySafe
    MaxWorkers = 1
    MaxQueue = 1
    MaxAttempts = 2
    k1 = k1
    k2 = k2
    k3 = k3
    p1 = p1
    p2 = p2
    Releases = {p1, p2}
    NoRelease = NoRelease
    Chunks <- MCChunks
    SourcesOf <- MCHolds
    MaxRevision = 1
    MaxActivation = 3
    MaxRepairs = 3
    Near = {k1}
    Lexical = {k3}
    Linked <- MCLinked
    NextTo <- MCNextTo
    DocOf <- MCDocOf
    Unlabelled = nothing
    Mentions <- MCMentions
    Assertions <- MCAssertions
    Publishes <- MCPublishes
    Cites <- MCCites
    SeedOf <- MCSeedOf
    EntryOf <- MCEntryOf
    PageSize = 2
    Flaws <- MCFlaws
    Decisions = {d1}
    MaxAudits = 2
    Texts = {1, 2}
    Marks = {1, 2, 3, 4, 5}
    TextOf <- MCTextOf
    NodeOf <- MCNodeOf
    Links = {1, 2, 3, 4}
    EndsOf <- MCEndsOf
    ContextOf <- MCContextOf
    TextSize = 3
    Entities = {1, 2, 3}
    KeyOf <- MCKeyOf
    NameOf <- MCNameOf
    Attested <- MCAttested
    Known <- MCKnown
    Candidates <- MCCandidates
    Similar <- MCSimilar
    ListLimit = 2
    EntityContract <- MCEntityContract
    RelationContract <- MCRelationContract
    Hierarchies = {"under"}
    Valid <- MCValid
    Says <- MCSays
    Offers <- MCOffers
    Former <- MCFormer
    Folded <- MCFolded
    MaxChange = 2
    MaxReleases = 3
    Context <- MCContext
    VersionCited <- MCVersionCited
    Wordings <- MCWordings
    Bases <- MCBases
    Comparisons <- MCComparisons
    Disputes <- MCDisputes
    Stated <- MCStated
    MaxClaims = 2
    LinkLimit = 8
CONSTRAINT WhatIsRead
INVARIANTS
    CapacityAccounted
    WalkIsWhole
    ProjectionIsWhole
    LinkIsFounded
    ReleasePassesAudit
    AnswerIsGrounded
PROPERTIES
    NothingStartsAfterTimeout
    EveryCallAnswered
    OneInstant
    ViewIsOfOneInstant
    PassedStillHolds
CHECK_DEADLOCK FALSE
