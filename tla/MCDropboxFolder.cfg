\* Three files, which are written up to three times, two deletions at a time.
CONSTANTS
    p1 = p1 p2 = p2 p3 = p3
    Paths = {p1, p2, p3}
    Sizes = {1, 2}
    MaxWrites = 3
    MaxSize = 3
    Skews = {0}
    MaxBatches = 2
SPECIFICATION FolderFairSpec
INVARIANTS
    CopyIsSound
    Mirrors
PROPERTIES
    RemovesOldest
    BatchIsMinimal
    FolderShrinks
\* A folder that has been removed has stopped.
CHECK_DEADLOCK FALSE
