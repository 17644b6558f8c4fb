CONSTANTS
    g1 = g1
    g2 = g2
    Context = 1
    Threshold = 3
    Blank = "blank"
    MaxGap = 8
    Similarity = 55
    CodeLength = 4
    CommentLength = 3
    Findings = {1, 2, 3}
    Key <- MCKey
    Alike <- MCAlike
    Group <- MCGroup
    Safe <- MCSafe
    NumBlocks <- MCNumBlocks
    MaxIssues = 1
    MaxNotes = 1
    MaxRuns = 1
    Changes <- MCChanges
    Quotes <- MCQuotes
    Claims <- MCClaims
    Groups = {g1, g2}
    PageSize = 1
    MaxEntries = 4
SPECIFICATION MCSpec
CHECK_DEADLOCK FALSE
INVARIANTS
    KeptIsAnchored
    NothingIsGuessed
    OneLineIsKept
    NothingHiddenNothingMissed
    DuplicatesLeadToOriginals
    PagingMissesNothing
PROPERTIES
    MergeKeepsFindings
