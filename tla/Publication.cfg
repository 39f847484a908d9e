SPECIFICATION KnowledgeSpec
CONSTANTS
    m1 = m1
    m2 = m2
    m3 = m3
    f1 = f1
    acme = acme
    doc = doc
    v1 = v1
    v2 = v2
    NoVersion = NoVersion
    NoEdit = NoEdit
    Mentions <- Three
    Facts <- OneFact
    Entities <- OneName
    Documents <- OneDoc
    Versions <- TwoVersions
    DocumentOf <- InDoc
    VersionOf <- M3InV2
    Slots <- Property
    LegacyImport = TRUE
    MaxRevisions <- Uneven
    MaxPolicy = 2
    MaxTBox = 2
    MaxActivations = 4
CONSTRAINT OneScenario
INVARIANTS
    ActivationsChain
    ServedIsNotWithdrawn
    ManifestsStandAlone
CHECK_DEADLOCK FALSE
