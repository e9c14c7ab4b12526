SPECIFICATION Spec
CONSTANTS
    GroupBits = 1
    More = 2
    Width = 2
    Leaves = {"a", "b"}
    NoRanker = NoRanker
    Indexes <- Snapshots
    Bm25 <- Score
    RankerScore <- Rank
    Options <- MCOptions
    Entries <- MCEntries
    Limits = {0, 1, 2, 3, 4}
INVARIANT BestByBm25
CHECK_DEADLOCK FALSE
