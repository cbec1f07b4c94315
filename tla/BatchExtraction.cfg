CONSTANTS
    d1 = d1  d2 = d2  none = none  unread = unread
    Docs = {d1, d2}
    Trees <- MCTrees
    Readings <- MCReadings
    MaxRuns = 2
    MaxAttempts = 3
    MaxLines = 3
    OverlapLines = 1
    Unread = unread
    NoValue = none
SPECIFICATION FairSpec
INVARIANTS TypeOK ExitZeroMeansIndexed LogIsTrue DecisionsFollowSections
    OnlyValueErrorsLoseDecisions
PROPERTIES BatchEnds
CHECK_DEADLOCK FALSE
