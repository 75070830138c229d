\* Two cameras of one box, which share its retry timer, another box without
\* cameras, two session addresses, and a build with assertions, which is how
\* the repository builds: it sets no build type.
CONSTANTS
    d1 = d1  d2 = d2  x1 = x1  x2 = x2  s1 = s1  s2 = s2
    Device = {d1, d2}
    Source = {x1, x2}
    Session = {s1, s2}
    Owner <- TwoCameras
    NDEBUG = FALSE
    NoDevice = NoDevice
    NoSource = NoSource
    NoSession = NoSession
SPECIFICATION Spec
SYMMETRY AnySessionAnyCamera
INVARIANTS
    TypeOK
    RegistryExact
    OwnSourcesOnly
    NoOrphanStream
    DemandCovered
