SPECIFICATION Spec
CONSTANTS
    Slots = {1, 2}
    Plans = {1}
    MaxVersion = 1
    MaxMoves = 0
    MaxReviewers = 1
    MaxHistory = 3
INVARIANT SettledWorkReviewed
CHECK_DEADLOCK FALSE
