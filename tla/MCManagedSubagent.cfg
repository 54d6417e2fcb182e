SPECIFICATION Spec
CONSTANTS
    MaxMessages = 2
    MaxInterrupts = 2
    MaxRefreshes = 1
    MaxLines = 2
INVARIANTS
    
    CompletedAnswerVisible
    CurrentUnlessOvertaken
    WorkingChildNotIdle
PROPERTIES
    ControlCompletes
CHECK_DEADLOCK FALSE
