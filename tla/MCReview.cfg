SPECIFICATION FairSpec
CONSTANTS
    Slots = {1, 2}
    Plans = {1, 2}
    MaxVersion = 2
    MaxMoves = 1
    MaxReviewers = 1
    MaxHistory = 3
PROPERTIES AdviceOnCurrentWork PlanReviewedOnce ReviewEnds
CHECK_DEADLOCK FALSE
