\* One camera, with storage or with more than the box can keep, and a server
\* that sends updates.
CONSTANTS
    s1 = s1 s2 = s2
    Sources = {s1}
    Configs <- EitherStorage
    MaxQueue = 4
    PastClash = FALSE
    Updates = TRUE
SPECIFICATION Spec
INVARIANTS
    HandledIsLoaded
PROPERTY
    StorageAsConfigured
CHECK_DEADLOCK FALSE
