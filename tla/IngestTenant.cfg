CONSTANTS
    w1 = w1  w2 = w2  d1 = d1  lapua = lapua  kauhava = kauhava
    r1 = r1  r2 = r2  none = none
    Workers = {w1, w2}
    Docs = {d1}
    Tenants = {lapua, kauhava}
    NumPages = 1
    Readings = {r1, r2}
    Labels = {1, 2}
    ChunkIds <- MCChunkIds
    NoValue = none
    MaxMonth = 1
    MaxRuns = 2
    MaxAborts = 1
    ExpireOnCommit = TRUE
    CollectionReady = TRUE
SYMMETRY WorkerSymmetry
SPECIFICATION Spec
INVARIANTS OneTenantPerDocument
CHECK_DEADLOCK FALSE
