CONSTANTS
    g1 = g1
    g2 = g2
    Context = 1
    Threshold = 3
    Blank = "blank"
    MaxGap = 8
    Similarity = 55
    CodeLength = 3
    CommentLength = 1
    Findings = {1, 2, 3}
    Key <- MCKey
    Alike <- MCAlike
    Group <- MCGroup
    Safe <- MCSafe
    NumBlocks <- MCNumBlocks
    MaxIssues = 0
    MaxNotes = 0
    MaxRuns = 0
    Changes <- MCGaps
    Quotes <- MCQuotes
    Claims <- MCClaims
    Groups = {g1, g2}
    PageSize = 1
    MaxEntries = 0
SPECIFICATION MCSpec
CHECK_DEADLOCK FALSE
INVARIANTS
    CommentOnlyIsProvable
