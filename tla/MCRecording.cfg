\* Two cameras and one upload slot; the process may die once at any time.
SPECIFICATION LiveSpec
CONSTANTS
    a = a
    b = b
    Sources = {a,b}
    MaxUploads = 1
    MaxFiles = 1
    MaxSessions = 2
INVARIANTS
    HandlerAlive
    UploadsReadable
    AccountedFor
    RecordingKept
PROPERTIES
    ClosedIsRemoved
\* A process whose sources were stopped has nothing left to do.
CHECK_DEADLOCK FALSE
