SPECIFICATION ReviewSpec
CONSTANTS
    m1 = m1
    m2 = m2
    f1 = f1
    f2 = f2
    acme = acme
    doc = doc
    v1 = v1
    NoVersion = NoVersion
    NoEdit = NoEdit
    Mentions <- Two
    Facts <- TwoFacts
    Entities <- OneName
    Documents <- OneDoc
    Versions <- OneVersion
    DocumentOf <- InDoc
    VersionOf <- InV1
    Slots <- MCSlots
    LegacyImport = TRUE
    MaxRevisions <- Uneven
    MaxPolicy = 1
    MaxTBox = 2
CONSTRAINT OneScenario
INVARIANTS
    FactsRestOnEndorsed
    PublishedAsApproved
    EndpointsAgree
CHECK_DEADLOCK FALSE
