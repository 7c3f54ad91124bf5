SPECIFICATION FairSpec
CONSTANTS
    MAX_LINE_BYTES = 3
    Lengths = {2, 3}
    Kinds = {"shutdown", "solved"}
    MaxLines = 3
INVARIANT NothingSwallowed
CHECK_DEADLOCK FALSE
