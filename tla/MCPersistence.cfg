CONSTANTS
    Procs = {p1, p2}
    Sessions = {"s1", "s2"}
    Repos = {"r1"}
    RepoOf <- MCRepoOf
    EnvMode = "none"
    GlobalStart = "yes"
    RepoStart <- MCRepoStart
    Stored <- MCStored
    LogsLeft <- MCLogsLeft
    CompactAt = 2
    MaxRecords = 3
    MaxMoves = 4
SYMMETRY Symmetry
CHECK_DEADLOCK FALSE
SPECIFICATION Spec
INVARIANTS RecordsSurvive LeaseIsTheSessions
