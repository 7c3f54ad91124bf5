SPECIFICATION Spec
CONSTANTS
    Decks = {d1, d2}
    Document = doc
    Edits = {e1}
    Solvers = {hallen, mpie}
    None = None
    MaxRuns = 4
    MaxSweeps = 3
    Points = 2
    MaxTasks = 2
    ViewDecks = {d1}
INVARIANTS
    TypeOK
    NothingOfAnotherSolver
    ShownIsLastAsked
    OneSweepOnScreen
    DrawnIsHeld
PROPERTIES
    PointsStay
    EveryRunEnds
CHECK_DEADLOCK FALSE
