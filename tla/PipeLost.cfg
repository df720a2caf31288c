CONSTANTS
    NProc = 4
    Queue = {"readers", "writers"}
    Preempt = "outside_switch"
    User = {1, 2}
    Writer = {1}
    Reader = {2}
    Closer = {}
    Cap = 1
    MaxN = 1
    MaxBytes = 1
SPECIFICATION FairSpec
PROPERTY ReaderServed
CHECK_DEADLOCK FALSE
