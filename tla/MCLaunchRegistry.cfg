SPECIFICATION Spec
CONSTANTS
    c1 = c1
    c2 = c2
    c3 = c3
    Creates <- ThreeCreates
    Signaled <- OneSignaled
    Unkillable <- OneUnkillable
    ChildLimit = 2
    MaxRetained = 1
INVARIANTS
    LimitHolds
    ShutdownLeavesNoChild
PROPERTIES
    ShutdownCompletes
CHECK_DEADLOCK FALSE
