CONSTANTS
    k1 = k1  k2 = k2  lapua = lapua  kauhava = kauhava  a = a  b = b
    extract = extract  synth = synth  free = free  howMany = howMany
    none = none
    Requests = {1, 2}
    KeyIds = {k1}
    Tenants = {lapua, kauhava}
    DefaultTenant = lapua
    Questions = {free, howMany}
    AggregateClass <- MCAggregateClass
    QueryClass <- MCQueryClass
    Calls <- MCCalls
    Modes = {extract, synth}
    DefaultMode = extract
    Tabs = {a, b}
    MaxEntries = 2
    Past = {0}
    PastHistories <- MCPastHistories
    NoValue = none
    MaxTime = 1
    MaxSwitches = 1
SPECIFICATION WebFairSpec
INVARIANTS WebTypeOK DeadKeysAreRefused ServedForKeysTenant
    HistoryIsNewestFirst HistoryIsAnswered TurnsAreTrue
PROPERTIES RevocationIsFinal TurnsSettle
CHECK_DEADLOCK FALSE
