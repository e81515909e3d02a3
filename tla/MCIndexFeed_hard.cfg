SPECIFICATION Spec
CONSTANTS
    rootRec = 5
    docsRec = 16
    tempRec = 17
    fileRec = 90
    nameA = nameA
    nameB = nameB
    RootName = RootName
    NoRec = NoRec
    Root = 5
    Recs = {5, 16, 17, 90}
    MinSpan = 16
    Dirs = {5, 16}
    Names = {nameA, nameB}
    InitVolume <- OneFile
    Env = {"reuse", "open", "intoNew"}
    MaxOps = 4
    longA = longA
    longB = longB
    shortA = shortA
    Queries = {longA, longB, shortA}
    Short = {shortA}
    Match <- Matching
    Unlimited = 20
CHECK_DEADLOCK FALSE
INVARIANTS LookupIsCurrent ChildrenAgreeWithParents
