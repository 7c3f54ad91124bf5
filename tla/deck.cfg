SPECIFICATION Spec
CONSTANTS
    MAX_SEGMENTS = 9
    MaxTag = 6
    MaxCards = 3
    DrivenDecks <- MCDrivenDecks
    MaxSources = 3
    Wires <- MCWires
    Moves <- MCMoves
    Sources <- MCSources
INVARIANTS TypeOK ReferencesSurvive ConductorsAreTheStructure RoutesAgree CaveatsSayTheRoute DriveIsNec2s
PROPERTY ImagesComplete
CHECK_DEADLOCK FALSE
