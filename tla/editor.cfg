SPECIFICATION Spec
CONSTANTS
    Files = {fa, fb}
    Texts = {t1}
    Bad = bad
    Template = tpl
    Instance = t1
    None = None
    MAX_HISTORY = 1
    MaxLoads = 1
    MaxSaves = 1
    Overlap = FALSE
    Alphabets <- MCAlphabets
    Inputs <- MCInputs
SYMMETRY Symmetry
INVARIANTS TypeOK FilesWhole DocumentOfItsFile DeckIsRead RenderedReadsBack
PROPERTY SavedIsOnDisk
CHECK_DEADLOCK FALSE
