SPECIFICATION AutoSpec
CONSTANTS
    m1 = m1
    m2 = m2
    f1 = f1
    acme = acme
    doc = doc
    v1 = v1
    w1 = w1
    w2 = w2
    NoVersion = NoVersion
    NoEdit = NoEdit
    Mentions = {m1, m2}
    Facts = {f1}
    Entities = {acme}
    Documents = {doc}
    Versions = {v1}
    DocumentOf <- InDoc
    VersionOf <- InV1
    Slots <- AProperty
    LegacyImport = FALSE
    MaxRevisions <- Uneven
    MaxPolicy = 1
    MaxTBox = 1
    Reviewers = {w1, w2}
    JobRecords = {m1, m2, f1}
    CallsPerReview = 2
    CallsPerRun = 4
    CallsInTotal = 6
    MaxToken = 2
SYMMETRY Symmetric
CONSTRAINT OneScenario
INVARIANTS
    ReceiptIsTrue
PROPERTIES
    OnlyCandidatesApproved
CHECK_DEADLOCK FALSE
