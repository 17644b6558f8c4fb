CONSTANTS
    MaxRounds = 5
    MaxEmpty = 2
    ApiRetries = 1
    CompressRounds = 2
    KeepRecent = 3
    SoftLimit = 8
    HardLimit = 11
    PromptSizes = {2, 11}
    ResultSizes = {1, 3}
    MaxCalls = 2
SPECIFICATION FairSpec
CHECK_DEADLOCK FALSE
INVARIANTS
    TypeOK
    RequestsAreWellFormed
    StopIsPrompt
PROPERTIES
    SingleResultSurvives
    ImplementsMainResult
