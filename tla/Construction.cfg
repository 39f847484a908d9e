SPECIFICATION Spec
CONSTANTS
    j1 = j1  j2 = j2  j3 = j3  j4 = j4  j5 = j5
    d1 = d1  d2 = d2  t1 = t1  t2 = t2  v1 = v1  v2 = v2  x1 = x1
    w1 = w1  w2 = w2
    Jobs = {j1, j2, j3, j4, j5}
    Constructions = {j1, j4, j5}
    Documents = {d1, d2}
    Workers = {w1, w2}
    MaxAttempts = 2
    NoJob = NoJob
    NoSnapshot = NoSnapshot
    DocumentOf <- MCDocumentOf
    TextsOf <- MCTextsOf
    Outputs <- MCOutputs
    Mode <- MCMode
    MaxGeneration = 1
    MaxRuns = 2
SYMMETRY Workforce
CONSTRAINT OneScenario
INVARIANTS
    OneVectorPerText
    CompletedIsBacked
PROPERTIES
    StaleJobIsInert
CHECK_DEADLOCK FALSE
