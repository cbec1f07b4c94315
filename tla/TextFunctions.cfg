CONSTANTS
    none = none  unread = unread
    NumPages = 2
    PageTexts <- MCPageTexts
    Unread = unread
    MaxLines = 3
    OverlapLines = 1
    Hits <- MCHits
    Words <- MCWords
    Queries <- MCQueries
    MaxRewrites = 3
    RankOffset = 60
    Scale = 238266
    ChunkIds = {"c1", "c2", "c3"}
    RankingLists <- MCRankingLists
    Replies <- MCReplies
    ResultLists <- MCResultLists
    MaxChars = 600
    MinBudget = 20
    MaxPromptChunks = 3
    NoReply = none
SPECIFICATION Spec
INVARIANTS TextIsChunked PagesAreKnown RewritesKeepQuestion FusionFollowsRankings
    QuoteFits
CHECK_DEADLOCK FALSE
