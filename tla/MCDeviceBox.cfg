\* Two cameras, or one that uses Dropbox, and resets that meet no other one.
CONSTANTS
    s1 = s1 s2 = s2
    Sources = {s1, s2}
    Configs <- TwoCameras
    MaxQueue = 4
    PastClash = FALSE
    Updates = FALSE
SPECIFICATION FairSpec
INVARIANTS
    TypeOK
    LoneResetFreesFoldersOnly
    RestoredIsHandled
    ConnectsOnce
PROPERTY
    ResetsEnd
\* A process that has been told to end has stopped.
CHECK_DEADLOCK FALSE
