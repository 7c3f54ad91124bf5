SPECIFICATION Spec
CONSTANTS
    Workers = {w1, w2, w3, w4}
    MaxTasks = 4
    MaxCalls = 2
    MaxDiedHolding = 2
    Answers <- SshAnswers
SYMMETRY Symmetry
INVARIANT DeathsWithinBudget
CHECK_DEADLOCK FALSE
