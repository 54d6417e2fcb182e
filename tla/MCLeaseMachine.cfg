SPECIFICATION Spec
CONSTANTS
    Handlers = {h1, h2}
    MaxLeases = 3
    MaxEpoch = 2
    MaxWorkers = 2
SYMMETRY Alike
INVARIANTS
    OverrideStands
    BoundaryStands
    AcceptedKept
    OnlyOwnedWorkRuns
CHECK_DEADLOCK FALSE
