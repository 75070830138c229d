\* Two paths of one camera, a build with assertions (any of them may fail),
\* threads that keep running.
CONSTANTS
    d1 = d1  x1 = x1  s1 = s1  s2 = s2  p1 = p1  p2 = p2
    Device = {d1}
    Source = {x1}
    Session = {s1}
    Path = {p1, p2}
    Owner <- OneCamera
    SourceOf <- TwoPathsOneSource
    NDEBUG = FALSE
    NoDevice = NoDevice
    NoSource = NoSource
    NoSession = NoSession
SPECIFICATION FairSpec
INVARIANTS
    DemandIsPlayers
    EntriesExact
PROPERTIES
    ImplementsDemand
    WatchedIsTold
