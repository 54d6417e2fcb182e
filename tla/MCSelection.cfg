SPECIFICATION Spec
CONSTANTS
    Models <- MCModels
    Efforts <- MCEfforts
    DefaultEffort <- MCDefault
    Provider <- MCProvider
    Routes <- MCRoutes
    Starts <- MCStarts
    Deferral <- MCDeferral
    MaxCalls = 2
    MaxPicks = 1
    MaxEpoch = 2
    MaxLeases = 3
\* The operator may stop acting; every bound stops the calls.
CHECK_DEADLOCK FALSE
INVARIANTS
    OperatorChoiceStands
    EchoIsNotAChoice
PROPERTIES
    InstalledIsApplied
