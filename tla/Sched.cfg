\* One process that never exits and three slots that are recycled; preemption
\* at every instruction but the window inside riv_proc_yield.  A yield or an
\* interrupt with an empty run queue leaks riv_sched.lock, and the next block
\* on it stops the CPU: the system really may stop.
CONSTANTS
    NProc = 4
    Queue = {}
    Preempt = "outside_switch"
    Immortal = {1}
SPECIFICATION FairSpec
CHECK_DEADLOCK FALSE
INVARIANTS Consistent NoneLost
PROPERTIES ZombieStaysDead RoundRobin
