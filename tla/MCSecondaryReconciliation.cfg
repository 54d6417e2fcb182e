SPECIFICATION Spec
CONSTANTS
    MaxTasks = 2
    MaxLeases = 5
    MaxEpoch = 4
INVARIANTS
    OneFate
    NothingSuperseded
    NothingStranded
PROPERTIES
    TupleKeptMidRun
CHECK_DEADLOCK FALSE
