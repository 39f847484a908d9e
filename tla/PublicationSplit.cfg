SPECIFICATION KnowledgeSpec
CONSTANTS
    m1 = m1
    m2 = m2
    m3 = m3
    f1 = f1
    acme = acme
    doc = doc
    v1 = v1
    v2 = v2
    NoVersion = NoVersion
    NoEdit = NoEdit
    Mentions <- OneMention
    Facts <- OneFact
    Entities <- OneName
    Documents <- OneDoc
    Versions <- OneVersion
    DocumentOf <- InDoc
    VersionOf <- InV1
    Slots <- Property
    LegacyImport = FALSE
    MaxRevisions <- Five
    MaxPolicy = 1
    MaxTBox = 1
    MaxActivations = 1
PROPERTIES
    SplitLeavesNoFactBehind
CHECK_DEADLOCK FALSE
