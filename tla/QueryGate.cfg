CONSTANTS
    q1 = q1  lapua = lapua  kauhava = kauhava  c1 = c1  c2 = c2  c3 = c3
    decision = decision  attendance = attendance  plain = plain  none = none
    Requests = {q1}
    Tenants = {lapua}
    Chunks = {c1, c2, c3}
    Owner <- MCOwner
    SharedPdfs = FALSE
    Texts = {decision, attendance, plain}
    Boost <- MCBoost
    BaseScores = {1, 4}
    MinScore = 2
    TopKHits = 2
    TopKFused = 3
    TopKFinal = 3
    MaxContextChunks = 2
    ExtractMaxChunks = 1
    MaxVariants = 1
    NoValue = none
    MaxWrites = 0
SPECIFICATION Spec
INVARIANTS GateIsOnRerankScore
CHECK_DEADLOCK FALSE
