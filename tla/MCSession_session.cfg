SPECIFICATION SessionSpec
CONSTANTS
    Queries <- TypedQueries
    Short = {"ab"}
    Length <- LengthOf
    Extends <- PrefixPairs
    Matches <- MatchPairs
    Contents <- GenerationContents
    MaxSnapshots = 2
    MaxCandidates = 3
    MaxGeneration = 2
INVARIANTS SearchIsWhole WithinBudget
