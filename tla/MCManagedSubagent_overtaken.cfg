SPECIFICATION Spec
CONSTANTS
    MaxMessages = 3
    MaxInterrupts = 0
    MaxRefreshes = 1
    MaxLines = 2
PROPERTIES
    ReturnedAnswerIsCurrent
CHECK_DEADLOCK FALSE
