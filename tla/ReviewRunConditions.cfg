CONSTANTS
    NumBlocks <- MCNumBlocks
    CommentOnly <- MCCommentOnly
    Weight <- MCWeight
    Budget = 3
    Conditions = {1, 2}
    JsonRetries = 1
    Scale = 2
    MaxRuns = 3
    MaxStops = 1
SPECIFICATION Spec
CHECK_DEADLOCK FALSE
INVARIANTS
    ResumedUnderSameConditions
