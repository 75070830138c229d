\* Two uploads for one slot and a listing, and one reset.
CONSTANTS
    u1 = u1 u2 = u2 l1 = l1
    Requests = {u1, u2, l1}
    Uploads = {u1, u2}
    MaxUploads = 1
    EndsAtOnce = TRUE
    MaxResets = 1
SPECIFICATION FairSpec
INVARIANTS
    RequestsAccounted
    UsedNeverEnds
PROPERTIES
    TransfersWatched
    ClosingEnds
    ImplementsRequests
    AnsweredInTheEnd
\* A component that has answered everything and was shut down has stopped.
CHECK_DEADLOCK FALSE
