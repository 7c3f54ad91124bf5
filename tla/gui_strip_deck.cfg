SPECIFICATION Spec
CONSTANTS
    Decks = {d1, d2}
    Document = doc
    Solvers = {hallen}
    None = None
    MaxRuns = 4
INVARIANT CaveatsOfTheDeckShown
CHECK_DEADLOCK FALSE
