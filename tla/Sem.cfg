\* Three waiters and one process that only posts and yields; posts also come
\* from an interrupt handler.
CONSTANTS
    NProc = 4
    Queue = {"waiters"}
    Preempt = "outside_switch"
    User = {1, 2, 3}
    Initial = 1
    MaxPost = 2
    IsrPosts = TRUE
SPECIFICATION Spec
CHECK_DEADLOCK FALSE
INVARIANTS Consistent Conservation EnoughWakeups
