CONSTANTS
    w1 = w1  w2 = w2  d1 = d1  lapua = lapua  kauhava = kauhava
    r1 = r1  r2 = r2  none = none
    Workers = {w1}
    Docs = {d1}
    Tenants = {lapua}
    NumPages = 2
    Readings = {r1, r2}
    Labels = {1, 2, 3, 4}
    ChunkIds <- MCChunkIds
    NoValue = none
    MaxMonth = 2
    MaxRuns = 3
    MaxAborts = 2
    ExpireOnCommit = FALSE
    CollectionReady = FALSE
    Readers = {"stats", "version"}
SPECIFICATION SysSpec
INVARIANTS TypeOK StatusIsBacked VersionNamesContent IndexedAreCounted
PROPERTIES IndexedIsFinal
CHECK_DEADLOCK FALSE
