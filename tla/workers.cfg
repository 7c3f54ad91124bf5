SPECIFICATION WorkersSpec
CONSTANTS
    Workers = {w1, w2, w3}
    MaxTasks = 3
    MaxCalls = 2
    MaxDiedHolding = 2
    Answers <- LocalAnswers
    MaxDispatch = 3
    MAX_LINE_BYTES = 3
    Lengths = {1, 2, 4, 5, 6, 7, 8}
    Kinds = {"blank", "shutdown", "undecodable", "refused", "solved", "nonfinite", "panics"}
    MaxLines = 2
INVARIANTS
    WorkersTypeOK
    NoWorkerLostOrDuplicated
    OneHolderPerTask
    StrikesWithinBudget
    BlamedOnlyForDeaths
    GivenUpOnlyWithNoWorkerLeft
    ReturnedComplete
    AnswerContract
    OneReplyPerLine
PROPERTIES
    ImplementsService
    NobodyWaitsForEver
CHECK_DEADLOCK FALSE
