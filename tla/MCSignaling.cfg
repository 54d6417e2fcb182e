SPECIFICATION Spec
CONSTANTS
    Tasks = {t1, t2}
    MaxRecords = 1
INVARIANTS
    RunningTaskOnRecord
    ClosingStopsEveryChild
PROPERTIES
    ImplementsContract
    CancelledTaskReported
    ClosingResolves
CHECK_DEADLOCK FALSE
