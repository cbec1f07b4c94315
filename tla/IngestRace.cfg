CONSTANTS
    w1 = w1  w2 = w2  d1 = d1  lapua = lapua  kauhava = kauhava
    r1 = r1  r2 = r2  none = none
    Workers = {w1, w2}
    Docs = {d1}
    Tenants = {lapua, kauhava}
    NumPages = 1
    Readings = {r1, r2}
    Labels = {1, 2}
    ChunkIds <- MCChunkIds
    NoValue = none
    MaxMonth = 2
    MaxRuns = 2
    MaxAborts = 1
    ExpireOnCommit = TRUE
    CollectionReady = TRUE
SPECIFICATION FairSpec
INVARIANTS ReferentialIntegrity CompletedRunsStaySearchable
    IndexedMeansCompleted
PROPERTIES RegistrationIsPermanent ImplementsCatalogue IndexedUnlessAborted
CHECK_DEADLOCK FALSE
