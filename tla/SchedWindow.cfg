CONSTANTS
    NProc = 3
    Queue = {}
    Preempt = "anywhere"
    Immortal = {1, 2}
SPECIFICATION Spec
INVARIANT ContextOwned
