\* Three users of the mutex and one process that is always runnable: there is
\* contention, and the run queue can run empty.
CONSTANTS
    NProc = 4
    Queue = {"waiters"}
    Preempt = "outside_switch"
    User = {1, 2, 3}
SPECIFICATION MutexSpec
CHECK_DEADLOCK FALSE
INVARIANTS MutexConsistent MutualExclusion NoLostWakeup StoppedByHolder
