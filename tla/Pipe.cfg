\* Two writers, one of which closes, and a reader, preempted anywhere outside
\* the context switch; a write is longer than the room in the pipe.
CONSTANTS
    NProc = 3
    Queue = {"readers", "writers"}
    Preempt = "outside_switch"
    User = {1, 2, 3}
    Writer = {1, 2}
    Reader = {3}
    Closer = {2}
    Cap = 2
    MaxN = 3
    MaxBytes = 3
SPECIFICATION Spec
CHECK_DEADLOCK FALSE
INVARIANTS Consistent InOrder EofIsFinal
