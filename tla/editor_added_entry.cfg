SPECIFICATION DocSpec
CONSTANTS
    Alphabets <- MCAlphabets
    Inputs <- MCInputs
INVARIANT EveryEntryIsSaved
CHECK_DEADLOCK FALSE
