SPECIFICATION FairSpec
CONSTANTS
    Queries <- TypedQueries
    Short = {}
    Length <- LengthOf
    Extends <- PrefixPairs
    Matches <- MatchPairs
    Contents <- GenerationContents
    MaxSnapshots = 2
    MaxCandidates = 5
    MaxGeneration = 1
    Paths = {"docs/"}
    Blank = ""
    MaxInputs = 4
CHECK_DEADLOCK FALSE
INVARIANTS ShownBelongsToText RepliesAreWhole NoStaleSession
PROPERTIES SearchSettles SessionUsedWhole
