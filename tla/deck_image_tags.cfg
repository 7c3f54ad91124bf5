SPECIFICATION Spec
CONSTANTS
    MAX_SEGMENTS = 9
    MaxTag = 6
    MaxCards = 3
    DrivenDecks <- MCDrivenDecks
    MaxSources = 0
    Wires <- MCWires
    Moves <- MCMoves
    Sources <- MCSources
INVARIANT ImageLoadsAreTheSame
CHECK_DEADLOCK FALSE
