\* The connection is read until it fails, and updates of the counter get lost.
CONSTANTS
    MaxBus = 2
    ReadsWhileResetting = FALSE
SPECIFICATION FairSpec
INVARIANTS
    NothingDangles
    RemovedInactive
    DestroysStopped
    FailureIsTold
PROPERTIES
    StoppedIsDestroyed
    ShutdownEnds
\* A reference that is never given up keeps the Streamer, and the shutdown
\* waits for ever: the box really stops.
CHECK_DEADLOCK FALSE
