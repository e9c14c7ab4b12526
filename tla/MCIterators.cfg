SPECIFICATION Spec
CONSTANTS
    GroupBits = 1
    More = 2
    Width = 2
    Words <- WordSet
    Lower <- LowerOf
    StopWords <- Dropped
    DefaultField <- Title
    Schema <- Fields
    StoreDocQuality = TRUE
    Spelling <- SpellingOf
    Documents <- Docs
    TermQueries <- Leaves
    Queries <- QuerySet
    Meaning <- MeaningOf
    ParseText <- Parse
    Depth = 3
INVARIANTS TypeOK ParsesMeant SegmentGivesBack FreqIsTotal
PROPERTY WalksMatches
CHECK_DEADLOCK FALSE
