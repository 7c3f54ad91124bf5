SPECIFICATION Spec
CONSTANTS
    Files = {fa}
    Texts = {t1, t2}
    Bad = bad
    Template = tpl
    Instance = t1
    None = None
    MAX_HISTORY = 1
    MaxLoads = 1
    MaxSaves = 2
    Overlap = TRUE
INVARIANT NoPartialDeck
CHECK_DEADLOCK FALSE
