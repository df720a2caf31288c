CONSTANTS
    NProc = 3
    Queue = {"waiters"}
    Preempt = "off"
    User = {1}
    Initial = 0
    MaxPost = 1
    IsrPosts = FALSE
SPECIFICATION FairSpec
PROPERTY PostIsTaken
CHECK_DEADLOCK FALSE
