SPECIFICATION Spec
CONSTANTS
    Runs <- MCRuns
    N = 3
    Threads = 3
    None = None
    Procs = {p1, p2, p3}
    Asked = {p1, p2}
    Host = host
    Other = other
    Outlasts = TRUE
    Users = {u1, u2}
    MAX_BACKOFF = 3
    GPU_WAIT_TIMEOUT = 5
    MaxFailures = 3
    Studies <- MCStudies
    Searches <- MCSearches
    Reactances <- MCReactances
    Resolution = 2
    Requests <- MCRequests
    Loads <- MCLoads
    MaxPoints = 2
    Sweeps <- MCSweeps
    MAX_FR_POINTS = 3
    Largest = 8
INVARIANTS
    TypeOK
    NothingBeforeRefusal
    PointsComplete
    AnswersTheDeck
    MeasuresAlone
    CommandsAreHonest
    FrequenciesAsTyped
PROPERTIES
    DeviceBacksOff
    RunEnds
CHECK_DEADLOCK FALSE
