CONSTANTS
    q1 = q1  lapua = lapua  kauhava = kauhava  c1 = c1  c2 = c2  c3 = c3
    decision = decision  attendance = attendance  plain = plain  none = none
    Requests = {q1}
    Tenants = {lapua, kauhava}
    Chunks = {c1, c2, c3}
    Owner <- MCOwner
    SharedPdfs = FALSE
    Texts = {decision, attendance}
    Boost <- MCBoost
    BaseScores = {1, 4}
    MinScore = 2
    TopKHits = 2
    TopKFused = 3
    TopKFinal = 3
    MaxContextChunks = 2
    ExtractMaxChunks = 1
    MaxVariants = 2
    NoValue = none
    MaxWrites = 1
SPECIFICATION FairSpec
INVARIANTS TypeOK GateHolds CitationsHold BestFirst TenantSeparation
    ExtractAlwaysAnswers
PROPERTIES Responds
CHECK_DEADLOCK FALSE
