\* One writer, one reader, and two processes that never block, one of which
\* closes the pipe; no timer.
CONSTANTS
    NProc = 4
    Queue = {"readers", "writers"}
    Preempt = "off"
    User = {1, 2, 3}
    Writer = {1}
    Reader = {2}
    Closer = {3}
    Cap = 2
    MaxN = 3
    MaxBytes = 4
SPECIFICATION FairSpec
PROPERTIES ReaderServed WriterServed CloseReleases
